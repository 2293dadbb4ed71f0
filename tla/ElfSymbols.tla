----------------------------- MODULE ElfSymbols -----------------------------
(***************************************************************************)
(* A symbol table of elfio, the relocations that refer to it by index, and *)
(* the hash table that finds its symbols by name (elfio_symbols.hpp,       *)
(* elfio_relocation.hpp): symbols and entries are added, the local symbols *)
(* are moved in front, swap by swap, and names are looked up in a hash     *)
(* table that may be older than the symbols.                               *)
(***************************************************************************)
EXTENDS Integers, Sequences, Functions

CONSTANTS
    Names,          \* of symbols
    NoName,         \* of the symbol 0
    elf_hash,       \* elf_hash[name], elf_gnu_hash[name]: the two hashes of a name
    elf_gnu_hash,
    TypeSize,       \* an entry's info is symbol * TypeSize + type, modulo InfoSize
    InfoSize,
    BloomBits,      \* in a word of the filter
    Types,          \* of relocations
    MaxSymbols,     \* bounds
    MaxEntries,
    Chaining,       \* sizes of a hash table: buckets, and where its symbols begin
    FirstHashed

ASSUME NamesAssumption == NoName \notin Names
ASSUME HashAssumption == elf_hash \in [Names -> Nat] /\ elf_gnu_hash \in [Names -> Nat]
(* An info has room for every symbol and every type. *)
ASSUME InfoAssumption ==
    /\ TypeSize \in Nat \ {0} /\ InfoSize \in Nat /\ MaxSymbols \in Nat \ {0, 1}
    /\ Types \subseteq 0..(TypeSize - 1)
    /\ MaxSymbols * TypeSize <= InfoSize
(* No hash table is without buckets or has the symbol 0. *)
ASSUME TableAssumption ==
    Chaining \in Nat \ {0} /\ FirstHashed \in Nat \ {0} /\ BloomBits \in Nat \ {0}

VARIABLES
    symbols,        \* the symbol k at k + 1
    sh_info,        \* of the symbol table
    relocations,    \* the relocation sections of the table
    hash,           \* the hash section of the table
    first_not_local,
    pc              \* "idle" or "arrange"

vars == <<symbols, sh_info, relocations, hash, first_not_local, pc>>

Symbol == [name : Names, local : BOOLEAN]
NullSymbol == [name |-> NoName, local |-> TRUE]

num == Len(symbols)

Numbers == 0..(num - 1)

get_symbol(k) == symbols[k + 1]

HasSymbol(k, name) == k \in Numbers /\ get_symbol(k).name = name

NoHash == [kind |-> "none"]

Init ==
    /\ symbols = << >>
    /\ sh_info = 0
    /\ relocations = [type \in {"REL", "RELA"} |-> << >>]
    /\ hash = NoHash
    /\ first_not_local = 1
    /\ pc = "idle"

-----------------------------------------------------------------------------
(* Symbols and entries *)

(* The first symbol that is added comes behind the one that is none. *)
AddSymbol(symbol) ==
    /\ pc = "idle"
    /\ num < MaxSymbols
    /\ symbols' = Append(IF symbols = << >> THEN <<NullSymbol>> ELSE symbols, symbol)
    /\ UNCHANGED <<sh_info, relocations, hash, first_not_local, pc>>

R_INFO(symbol, type) == (symbol * TypeSize + type) % InfoSize
R_SYM(info) == info \div TypeSize
R_TYPE(info) == info % TypeSize

(* Entries of type REL have no addend: it is read as 0. *)
Entry(section, symbol, type, addend) ==
    [info |-> R_INFO(symbol, type), addend |-> IF section = "REL" THEN 0 ELSE addend]

AddEntry(section, symbol, type, addend) ==
    /\ pc = "idle"
    /\ Len(relocations["REL"]) + Len(relocations["RELA"]) < MaxEntries
    /\ symbol \in Numbers
    /\ relocations' = [relocations EXCEPT ![section] =
                          Append(@, Entry(section, symbol, type, addend))]
    /\ UNCHANGED <<symbols, sh_info, hash, first_not_local, pc>>

SetEntry(section, j, symbol, type, addend) ==
    /\ pc = "idle"
    /\ symbol \in Numbers
    /\ relocations' = [relocations EXCEPT ![section][j] = Entry(section, symbol, type, addend)]
    /\ UNCHANGED <<symbols, sh_info, hash, first_not_local, pc>>

-----------------------------------------------------------------------------
(* arrange_local_symbols, with the callback that keeps the relocations up to date *)

(* Mutant: the second test asks the entry that the first may have changed. *)
SwappedAndBack(section, e, first, second) ==
    LET Referring(entry, symbol) == Entry(section, symbol, R_TYPE(entry.info), entry.addend)
        once == IF R_SYM(e.info) = first THEN Referring(e, second) ELSE e
    IN IF R_SYM(once.info) = second THEN Referring(once, first) ELSE once

SwappedEntry(section, e, first, second) ==
    LET Referring(symbol) == Entry(section, symbol, R_TYPE(e.info), e.addend)
    IN CASE R_SYM(e.info) = first  -> Referring(second)
         [] R_SYM(e.info) = second -> Referring(first)
         [] OTHER                  -> e

swap_symbols(first, second) ==
    relocations' = [section \in DOMAIN relocations |->
        [j \in DOMAIN relocations[section] |->
            SwappedEntry(section, relocations[section][j], first, second)]]

IsLocal(k) == get_symbol(k).local

(* The first symbol from k on, if any, that is local, or that is not. *)
NextWith(k, local) ==
    IF \E j \in k..(num - 1) : IsLocal(j) = local
    THEN CHOOSE j \in k..(num - 1) :
             IsLocal(j) = local /\ \A l \in k..(j - 1) : IsLocal(l) # local
    ELSE IF k < num THEN num ELSE k

StartArrange ==
    /\ pc = "idle"
    /\ pc' = "arrange"
    /\ first_not_local' = 1
    /\ UNCHANGED <<symbols, sh_info, relocations, hash>>

(* Mutant: the relocations are told of the swap, but the symbols stay. *)
CallbackOnly ==
    /\ pc = "arrange"
    /\ LET first == NextWith(first_not_local, FALSE)
           current == NextWith(first + 1, TRUE)
       IN /\ first < num /\ current < num
          /\ swap_symbols(first, current)
          /\ first_not_local' = first
    /\ UNCHANGED <<symbols, sh_info, hash, pc>>

SwapSymbols ==
    /\ pc = "arrange"
    /\ LET first == NextWith(first_not_local, FALSE)
           current == NextWith(first + 1, TRUE)
       IN /\ first < num /\ current < num
          /\ swap_symbols(first, current)
          /\ symbols' = [symbols EXCEPT ![first + 1] = symbols[current + 1],
                                        ![current + 1] = symbols[first + 1]]
          /\ first_not_local' = first
    /\ UNCHANGED <<sh_info, hash, pc>>

EndArrange ==
    /\ pc = "arrange"
    /\ LET first == NextWith(first_not_local, FALSE)
       IN /\ NextWith(first + 1, TRUE) >= num
          /\ sh_info' = first
          /\ first_not_local' = first
    /\ pc' = "idle"
    /\ UNCHANGED <<symbols, relocations, hash>>

-----------------------------------------------------------------------------
(* The hash table, as a linker writes it, and the two ways to look in it *)

Least(S) == CHOOSE k \in S : \A l \in S : k <= l
Greatest(S) == IF S = {} THEN 0 ELSE CHOOSE k \in S : \A l \in S : l <= k

(* Each bucket begins a chain of symbols, each chain[k] the next one after symbol k. *)
SysvTable(syms) ==
    LET Bucket(k) == elf_hash[syms[k + 1].name] % Chaining
        In(b, below) == {k \in 1..(below - 1) : Bucket(k) = b}
    IN [kind |-> "sysv", nchain |-> Len(syms),
        buckets |-> [b \in 0..(Chaining - 1) |-> Greatest(In(b, Len(syms)))],
        chains |-> [k \in 0..(Len(syms) - 1) |-> IF k = 0 THEN 0 ELSE Greatest(In(Bucket(k), k))]]

Word(h) == h \div BloomBits
Bits(h) == {h % BloomBits, (h \div 2) % BloomBits}

(* The symbols from FirstHashed on are sorted by bucket; the last of a bucket is marked. *)
GnuSorted(syms) ==
    \A j, k \in (FirstHashed + 1)..Len(syms) : j < k =>
        elf_gnu_hash[syms[j].name] % Chaining <= elf_gnu_hash[syms[k].name] % Chaining

GnuTable(syms) ==
    LET Hash(k) == elf_gnu_hash[syms[k + 1].name]
        hashed == FirstHashed..(Len(syms) - 1)
        In(b) == {k \in hashed : Hash(k) % Chaining = b}
    IN [kind |-> "gnu",
        bloom |-> UNION {{<<Word(Hash(k)), bit>> : bit \in Bits(Hash(k))} : k \in hashed},
        buckets |-> [b \in 0..(Chaining - 1) |->
            IF In(b) = {} THEN 0 ELSE Least(In(b))],
        chains |-> [k \in hashed |->
            [hash |-> Hash(k), last |-> \A l \in In(Hash(k) % Chaining) : l <= k]]]

WriteHash ==
    /\ pc = "idle"
    /\ num > FirstHashed
    /\ \/ hash' = SysvTable(symbols)
       \/ GnuSorted(symbols) /\ hash' = GnuTable(symbols)
    /\ UNCHANGED <<symbols, sh_info, relocations, first_not_local, pc>>

(* From a symbol down its chain, to one of the name or to the end. *)
Walk(name) ==
    LET walk[y \in 0..MaxSymbols] ==
            IF HasSymbol(y, name) \/ y = 0 \/ y >= hash.nchain THEN y
            ELSE walk[hash.chains[y]]
    IN walk

(* The number of the symbol that is found, or 0. *)
hash_lookup(name) ==
    LET y == Walk(name)[hash.buckets[elf_hash[name] % Chaining]]
    IN IF HasSymbol(y, name) THEN y ELSE 0

(* Mutant: one bit of the hash is not compared, nor is the name. *)
GnuByHash(name) ==
    LET h == elf_gnu_hash[name]
        start == hash.buckets[h % Chaining]
        Stops == {k \in DOMAIN hash.chains : k >= start /\ hash.chains[k].last}
        reached == {k \in DOMAIN hash.chains : k >= start /\ \A l \in Stops : k <= l}
        matches == {k \in reached : hash.chains[k].hash \div 2 = h \div 2}
    IN IF start < FirstHashed \/ matches = {} THEN 0 ELSE Least(matches)

(* Through the filter and down the chain of the bucket to its last symbol; the lowest bit
   of a hash is not compared, that of the chain marks the last. *)
gnu_hash_lookup(name) ==
    LET h == elf_gnu_hash[name]
        start == hash.buckets[h % Chaining]
        Stops == {k \in DOMAIN hash.chains : k >= start /\ hash.chains[k].last}
        reached == {k \in DOMAIN hash.chains : k >= start /\ \A l \in Stops : k <= l}
        matches == {k \in reached : hash.chains[k].hash \div 2 = h \div 2 /\ HasSymbol(k, name)}
    IN IF \E bit \in Bits(h) : <<Word(h), bit>> \notin hash.bloom THEN 0
       ELSE IF start < FirstHashed \/ matches = {} THEN 0
       ELSE Least(matches)

Hashed(name) ==
    CASE hash.kind = "none" -> 0
      [] hash.kind = "sysv" -> hash_lookup(name)
      [] hash.kind = "gnu"  -> gnu_hash_lookup(name)

(* get_symbol by name: what the hash table does not find may still be there. *)
Lookup(name) ==
    LET found == {k \in Numbers : HasSymbol(k, name)}
    IN IF Hashed(name) # 0 \/ found = {} THEN Hashed(name) ELSE Least(found)

-----------------------------------------------------------------------------
Arranging == SwapSymbols \/ EndArrange

Next ==
    \/ \E symbol \in Symbol : AddSymbol(symbol)
    \/ \E section \in {"REL", "RELA"}, symbol \in Numbers, type \in Types, addend \in {0, 1} :
           \/ AddEntry(section, symbol, type, addend)
           \/ \E j \in DOMAIN relocations[section] : SetEntry(section, j, symbol, type, addend)
    \/ WriteHash
    \/ StartArrange
    \/ Arranging

(* arrange_local_symbols is one call, which nothing interrupts. *)
Spec == Init /\ [][Next]_vars /\ WF_vars(Arranging)

-----------------------------------------------------------------------------
Target(e) == get_symbol(R_SYM(e.info))

(* Moving the symbols changes no relocation: each refers to the symbol it referred to,
   though that is at another place, with the type and the addend it had. And no symbol
   comes or goes. *)
RelocationsKeepSymbols ==
    [][pc = "arrange" =>
          /\ \A section \in DOMAIN relocations : \A j \in DOMAIN relocations[section] :
                 LET old == relocations[section][j]
                     new == relocations'[section][j]
                 IN /\ symbols'[R_SYM(new.info) + 1] = Target(old)
                    /\ R_TYPE(new.info) = R_TYPE(old.info)
                    /\ new.addend = old.addend
          /\ \E p \in [DOMAIN symbols -> DOMAIN symbols] :
                 /\ Range(p) = DOMAIN symbols
                 /\ \A k \in DOMAIN symbols : symbols'[k] = symbols[p[k]]]_vars

LocalsFirst ==
    /\ \A k \in Numbers \ {0} : IsLocal(k) <=> k < sh_info
    /\ symbols # << >> => get_symbol(0) = NullSymbol

(* Every call of arrange_local_symbols ends, with the local symbols in front of the
   others, the symbol 0 before all, and sh_info between them. *)
Arranged == pc = "arrange" ~> pc = "idle" /\ LocalsFirst

(* A name is found if and only if a symbol has it, and then one that has it, also in a hash
   table written before symbols were added or moved; in one that is up to date, without a
   look at all symbols. *)
LookupFindsName ==
    \A name \in Names :
        /\ HasSymbol(Lookup(name), name) <=> \E k \in Numbers : HasSymbol(k, name)
        /\ Lookup(name) # 0 => HasSymbol(Lookup(name), name)
        /\ LET listed == IF hash.kind = "gnu" THEN FirstHashed ELSE 1
               fresh == \/ hash.kind = "sysv" /\ hash = SysvTable(symbols)
                        \/ hash.kind = "gnu" /\ GnuSorted(symbols) /\ hash = GnuTable(symbols)
           IN fresh /\ (\E k \in listed..(num - 1) : HasSymbol(k, name)) => Hashed(name) # 0
=============================================================================
