-------------------------- MODULE ElfSymbolsProofs --------------------------
(***************************************************************************)
(* Proofs about ElfSymbols, for any names and hashes, any number of        *)
(* symbols and of relocations, and hash tables of any size; and about      *)
(* ElfTables, for any files and any additions to them.                     *)
(***************************************************************************)
EXTENDS ElfSymbols, ElfTables, TLAPS, WellFoundedInduction

Sections == {"REL", "RELA"}

EntryType == [info : Nat, addend : {0, 1}]

SymbolTypes ==
    /\ symbols \in Seq(Symbol \cup {NullSymbol})
    /\ Len(symbols) <= MaxSymbols
    /\ symbols # << >> => symbols[1] = NullSymbol
    /\ \A k \in 2..Len(symbols) : symbols[k] \in Symbol
    /\ relocations \in [Sections -> Seq(EntryType)]
    /\ first_not_local \in Nat \ {0}
    /\ pc \in {"idle", "arrange"}

(* Each relocation refers to a symbol; those without an addend have none. *)
Refers(section, e) == R_SYM(e.info) \in Numbers /\ (section = "REL" => e.addend = 0)

AllRefer ==
    \A section \in Sections : \A j \in DOMAIN relocations[section] :
        Refers(section, relocations[section][j])

(* What has been passed is local. *)
PassedLocal ==
    pc = "arrange" => \A k \in 1..(first_not_local - 1) : k \in Numbers => IsLocal(k)

(* The symbol 0 is in no chain of a GNU table. *)
HashListed ==
    /\ hash.kind \in {"none", "sysv", "gnu"}
    /\ hash.kind = "gnu" => DOMAIN hash.chains \subseteq Nat \ {0}

SymbolsInv == SymbolTypes /\ AllRefer /\ PassedLocal /\ HashListed

-----------------------------------------------------------------------------
(* Least and greatest numbers *)

LEMMA HasLeast ==
    ASSUME NEW T, T \subseteq Nat, T # {}
    PROVE  \E e \in T : \A l \in T : e <= l
<1> DEFINE R == {ss \in Nat \X Nat : ss[1] < ss[2]}
<1>1. IsWellFoundedOn(R, Nat)
    BY NatLessThanWellFounded DEF OpToRel
<1>2. PICK e \in T : \A b \in T : ~(<<b, e>> \in R)
    <2> HIDE DEF R
    <2> QED
        BY <1>1, WFMin
<1>3. \A b \in T : ~(b < e)
    BY <1>2
<1>4. \A b \in T : e <= b
    BY <1>3
<1> QED
    BY <1>4

LEMMA HasGreatest ==
    ASSUME NEW n \in Nat, NEW T, T \subseteq 0..n, T # {}
    PROVE  \E e \in T : \A l \in T : l <= e
<1> DEFINE D == {n - x : x \in T}
<1>1. D \subseteq Nat /\ D # {}
  <2>1. \A x \in T : n - x \in Nat
    OBVIOUS
  <2>2. PICK x : x \in T
    OBVIOUS
  <2>3. n - x \in D
    BY <2>2
  <2> QED
    BY <2>1, <2>3
<1>2. PICK d \in D : \A l \in D : d <= l
    <2> HIDE DEF D
    <2> QED
        BY <1>1, HasLeast
<1>3. PICK e \in T : d = n - e
    BY <1>2
<1>4. ASSUME NEW l \in T
      PROVE  l <= e
  <2>1. n - l \in D
    OBVIOUS
  <2>2. n - e <= n - l
    BY <1>2, <1>3, <2>1
  <2> QED
    BY <2>2
<1> QED
    BY <1>4

-----------------------------------------------------------------------------
(* The info of a relocation *)

LEMMA InfoIs ==
    ASSUME NEW symbol \in 0..(MaxSymbols - 1), NEW type \in 0..(TypeSize - 1)
    PROVE  /\ R_INFO(symbol, type) \in Nat
           /\ R_SYM(R_INFO(symbol, type)) = symbol /\ R_TYPE(R_INFO(symbol, type)) = type
<1>1. /\ TypeSize \in Int /\ TypeSize >= 1 /\ MaxSymbols \in Int /\ InfoSize \in Int
      /\ MaxSymbols * TypeSize <= InfoSize
    BY InfoAssumption
<1>2. PICK v \in Int : v = symbol * TypeSize + type
    BY <1>1
<1>3. v \div TypeSize = symbol /\ v % TypeSize = type
    BY <1>1, <1>2
<1>4. 0 <= symbol * TypeSize /\ symbol * TypeSize \in Int
    BY <1>1
<1>5. symbol * TypeSize <= (MaxSymbols - 1) * TypeSize
    BY <1>1
<1>6. (MaxSymbols - 1) * TypeSize = MaxSymbols * TypeSize - TypeSize
    BY <1>1
<1>7. MaxSymbols * TypeSize \in Int
    BY <1>1
<1>8. 0 <= v /\ v < InfoSize
    BY <1>1, <1>2, <1>4, <1>5, <1>6, <1>7
<1>9. v % InfoSize = v
    BY <1>1, <1>8
<1>10. R_INFO(symbol, type) = v
    BY <1>2, <1>9 DEF R_INFO
<1> QED
    BY <1>3, <1>8, <1>10 DEF R_SYM, R_TYPE

LEMMA TypeOfInfo ==
    ASSUME NEW info \in Nat
    PROVE  R_TYPE(info) \in 0..(TypeSize - 1)
BY InfoAssumption DEF R_TYPE

(* An entry refers to the symbol it is made for. *)
LEMMA EntryIs ==
    ASSUME NEW section \in Sections, NEW symbol \in 0..(MaxSymbols - 1),
           NEW type \in 0..(TypeSize - 1), NEW addend \in {0, 1}
    PROVE  /\ Entry(section, symbol, type, addend) \in EntryType
           /\ R_SYM(Entry(section, symbol, type, addend).info) = symbol
           /\ R_TYPE(Entry(section, symbol, type, addend).info) = type
           /\ section = "REL" => Entry(section, symbol, type, addend).addend = 0
           /\ section # "REL" => Entry(section, symbol, type, addend).addend = addend
<1>1. PICK info \in Nat : info = R_INFO(symbol, type) /\ R_SYM(info) = symbol
                                                     /\ R_TYPE(info) = type
    BY InfoIs
<1>2. Entry(section, symbol, type, addend)
          = [info |-> info, addend |-> IF section = "REL" THEN 0 ELSE addend]
    BY <1>1 DEF Entry
<1> QED
    BY <1>1, <1>2 DEF EntryType

-----------------------------------------------------------------------------
(* Symbols *)

LEMMA SymbolsAre ==
    ASSUME SymbolTypes
    PROVE  /\ num \in Nat /\ num <= MaxSymbols /\ num = Len(symbols)
           /\ DOMAIN symbols = 1..num /\ Numbers = 0..(num - 1)
           /\ \A k \in Numbers : k # 0 => get_symbol(k) \in Symbol
           /\ \A k \in Numbers : IsLocal(k) \in BOOLEAN
           /\ num # 0 => get_symbol(0) = NullSymbol
<1>1. num \in Nat /\ num <= MaxSymbols /\ DOMAIN symbols = 1..num /\ Numbers = 0..(num - 1)
    BY DEF SymbolTypes, num, Numbers
<1>2. ASSUME NEW k \in Numbers, k # 0
      PROVE  get_symbol(k) \in Symbol
  <2>1. k + 1 \in 2..Len(symbols)
    BY <1>1, <1>2 DEF num
  <2> QED
    BY <2>1 DEF SymbolTypes, get_symbol
<1>3. ASSUME num # 0
      PROVE  get_symbol(0) = NullSymbol
  <2>1. symbols # << >> /\ 0 + 1 = 1
    BY <1>3 DEF num
  <2> QED
    BY <2>1 DEF SymbolTypes, get_symbol
<1>4. ASSUME NEW k \in Numbers
      PROVE  IsLocal(k) \in BOOLEAN
  <2>1. CASE k = 0
    <3>1. num # 0
        BY <1>1, <1>4, <2>1
    <3>2. get_symbol(k) = NullSymbol
        BY <1>3, <2>1, <3>1
    <3> QED
        BY <3>2 DEF IsLocal, NullSymbol
  <2>2. CASE k # 0
    BY <1>2, <1>4, <2>2 DEF IsLocal, Symbol
  <2> QED
    BY <2>1, <2>2
<1> QED
    BY <1>1, <1>2, <1>3, <1>4 DEF num

(* No symbol with one of the names is at 0. *)
LEMMA NamedIsNot0 ==
    ASSUME SymbolTypes, NEW k, NEW name \in Names, HasSymbol(k, name)
    PROVE  k \in Numbers /\ k # 0
<1>1. k \in Numbers /\ get_symbol(k).name = name
    BY DEF HasSymbol
<1>2. ASSUME k = 0
      PROVE  FALSE
  <2>1. num # 0
    BY <1>1, <1>2, SymbolsAre
  <2>2. get_symbol(k).name = NoName
    BY <1>2, <2>1, SymbolsAre DEF NullSymbol
  <2> QED
    BY <1>1, <2>2, NamesAssumption
<1> QED
    BY <1>1, <1>2

LEMMA NextIs ==
    ASSUME SymbolTypes, NEW k \in Nat, NEW local \in BOOLEAN
    PROVE  \E n \in Nat : /\ n = NextWith(k, local) /\ k <= n
                          /\ n < num => IsLocal(n) = local
                          /\ \A j \in k..(n - 1) : j < num => IsLocal(j) # local
<1> DEFINE P == {j \in k..(num - 1) : IsLocal(j) = local}
           Q(j) == IsLocal(j) = local /\ \A l \in k..(j - 1) : IsLocal(l) # local
           c == CHOOSE j \in k..(num - 1) : Q(j)
<1>1. num \in Nat
    BY SymbolsAre
<1>2. CASE P # {}
  <2>1. P \subseteq Nat
    BY <1>1
  <2>2. PICK e \in P : \A l \in P : e <= l
    <3> HIDE DEF P
    <3> QED
        BY <1>2, <2>1, HasLeast
  <2>3. e \in k..(num - 1) /\ IsLocal(e) = local
    BY <2>2
  <2>4. ASSUME NEW l \in k..(e - 1)
        PROVE  IsLocal(l) # local
    <3>1. l \in k..(num - 1) /\ ~(e <= l)
        BY <1>1, <2>3
    <3> QED
        BY <2>2, <3>1
  <2>5. c \in k..(num - 1) /\ Q(c)
    BY <2>3, <2>4, Zenon
  <2>6. NextWith(k, local) = c
    <3>1. \E j \in k..(num - 1) : IsLocal(j) = local
        BY <2>3
    <3> QED
        BY <3>1 DEF NextWith
  <2>7. c \in Nat /\ k <= c /\ c < num
    <3> HIDE DEF c
    <3> QED
        BY <1>1, <2>5
  <2>8. IsLocal(c) = local /\ \A j \in k..(c - 1) : IsLocal(j) # local
    BY <2>5
  <2> HIDE DEF c, Q, P
  <2> QED
    BY <2>6, <2>7, <2>8, Zenon
<1>3. CASE P = {}
  <2>1. ~(\E j \in k..(num - 1) : IsLocal(j) = local)
    BY <1>3
  <2>2. PICK n \in Nat : n = (IF k < num THEN num ELSE k)
    BY <1>1
  <2>3. n = NextWith(k, local)
    BY <2>1, <2>2 DEF NextWith
  <2>4. k <= n /\ ~(n < num)
    BY <1>1, <2>2
  <2>5. ASSUME NEW j \in k..(n - 1), j < num
        PROVE  IsLocal(j) # local
    <3>1. j \in k..(num - 1)
        BY <1>1, <2>5
    <3> QED
        BY <2>1, <3>1
  <2> QED
    BY <2>3, <2>4, <2>5, Zenon
<1> QED
    BY <1>2, <1>3

-----------------------------------------------------------------------------
(* Two symbols change places *)

LEMMA SwappedEntryIs ==
    ASSUME SymbolTypes, NEW section \in Sections, NEW e \in EntryType, Refers(section, e),
           NEW a \in Numbers, NEW b \in Numbers
    PROVE  /\ SwappedEntry(section, e, a, b) \in EntryType
           /\ R_SYM(SwappedEntry(section, e, a, b).info)
                = IF R_SYM(e.info) = a THEN b ELSE IF R_SYM(e.info) = b THEN a ELSE R_SYM(e.info)
           /\ R_TYPE(SwappedEntry(section, e, a, b).info) = R_TYPE(e.info)
           /\ SwappedEntry(section, e, a, b).addend = e.addend
<1>1. PICK type \in 0..(TypeSize - 1) : type = R_TYPE(e.info)
    BY TypeOfInfo DEF EntryType
<1>2. PICK addend \in {0, 1} : addend = e.addend /\ (section = "REL" => addend = 0)
    BY DEF EntryType, Refers
<1>3. ASSUME NEW symbol \in Numbers
      PROVE  /\ Entry(section, symbol, type, addend) \in EntryType
             /\ R_SYM(Entry(section, symbol, type, addend).info) = symbol
             /\ R_TYPE(Entry(section, symbol, type, addend).info) = type
             /\ Entry(section, symbol, type, addend).addend = addend
  <2>1. symbol \in 0..(MaxSymbols - 1)
    BY SymbolsAre, InfoAssumption
  <2> QED
    BY <1>2, <2>1, EntryIs
<1>4. CASE R_SYM(e.info) = a
  <2>1. SwappedEntry(section, e, a, b) = Entry(section, b, type, addend)
    BY <1>1, <1>2, <1>4 DEF SwappedEntry
  <2> QED
    BY <1>1, <1>2, <1>3, <1>4, <2>1, Zenon
<1>5. CASE R_SYM(e.info) # a /\ R_SYM(e.info) = b
  <2>1. SwappedEntry(section, e, a, b) = Entry(section, a, type, addend)
    BY <1>1, <1>2, <1>5 DEF SwappedEntry
  <2> QED
    BY <1>1, <1>2, <1>3, <1>5, <2>1, Zenon
<1>6. CASE R_SYM(e.info) # a /\ R_SYM(e.info) # b
  <2>1. SwappedEntry(section, e, a, b) = e
    BY <1>6 DEF SwappedEntry
  <2> QED
    BY <1>6, <2>1, Zenon
<1> QED
    BY <1>4, <1>5, <1>6

(* What a swap does: the two numbers, and what is there afterwards. *)
LEMMA SwapIs ==
    ASSUME SymbolTypes, SwapSymbols
    PROVE  \E a, b \in Numbers :
              /\ a # 0 /\ a < b /\ ~IsLocal(a) /\ IsLocal(b)
              /\ \A j \in first_not_local..(a - 1) : IsLocal(j)
              /\ first_not_local' = a
              /\ symbols' = [symbols EXCEPT ![a + 1] = symbols[b + 1], ![b + 1] = symbols[a + 1]]
              /\ swap_symbols(a, b)
<1>1. num \in Nat /\ Numbers = 0..(num - 1) /\ \A k \in Numbers : IsLocal(k) \in BOOLEAN
    BY SymbolsAre
<1>2. first_not_local \in Nat /\ first_not_local # 0
    BY DEF SymbolTypes
<1>3. PICK a \in Nat : /\ a = NextWith(first_not_local, FALSE) /\ first_not_local <= a
                       /\ a < num => IsLocal(a) = FALSE
                       /\ \A j \in first_not_local..(a - 1) : j < num => IsLocal(j) # FALSE
    BY <1>2, NextIs
<1>4. PICK b \in Nat : /\ b = NextWith(a + 1, TRUE) /\ a + 1 <= b
                       /\ b < num => IsLocal(b) = TRUE
  <2>1. a + 1 \in Nat
    OBVIOUS
  <2> QED
    BY <2>1, NextIs
<1>5. /\ a < num /\ b < num /\ swap_symbols(a, b) /\ first_not_local' = a
      /\ symbols' = [symbols EXCEPT ![a + 1] = symbols[b + 1], ![b + 1] = symbols[a + 1]]
    BY <1>3, <1>4 DEF SwapSymbols
<1>6. a \in Numbers /\ b \in Numbers /\ a # 0 /\ a < b
  <2>1. first_not_local <= a /\ a + 1 <= b /\ a < num /\ b < num
    BY <1>3, <1>4, <1>5
  <2>2. a \in 0..(num - 1) /\ b \in 0..(num - 1) /\ a # 0 /\ a < b
    BY <1>1, <1>2, <2>1
  <2> QED
    BY <1>1, <2>2
<1>7. ASSUME NEW j \in first_not_local..(a - 1)
      PROVE  IsLocal(j)
  <2>1. j \in Numbers /\ j < num
    BY <1>1, <1>2, <1>5
  <2> QED
    BY <1>1, <1>3, <2>1
<1> QED
    BY <1>3, <1>4, <1>5, <1>6, <1>7

(* What a swap leaves of the relocations and of the symbols. *)
LEMMA SwapKeeps ==
    ASSUME SymbolTypes, AllRefer, SwapSymbols
    PROVE  /\ relocations' \in [Sections -> Seq(EntryType)]
           /\ \A section \in Sections :
                 /\ DOMAIN relocations'[section] = DOMAIN relocations[section]
                 /\ \A j \in DOMAIN relocations[section] :
                       LET old == relocations[section][j]
                           new == relocations'[section][j]
                       IN /\ R_SYM(new.info) \in Numbers
                          /\ symbols'[R_SYM(new.info) + 1] = symbols[R_SYM(old.info) + 1]
                          /\ R_TYPE(new.info) = R_TYPE(old.info)
                          /\ new.addend = old.addend
<1>1. PICK a, b \in Numbers :
          /\ a # 0 /\ a < b
          /\ symbols' = [symbols EXCEPT ![a + 1] = symbols[b + 1], ![b + 1] = symbols[a + 1]]
          /\ swap_symbols(a, b)
    BY SwapIs
<1>2. relocations \in [Sections -> Seq(EntryType)]
    BY DEF SymbolTypes
<1>3. relocations' = [section \in Sections |->
          [j \in DOMAIN relocations[section] |->
              SwappedEntry(section, relocations[section][j], a, b)]]
    BY <1>1, <1>2 DEF swap_symbols
<1>4. num \in Nat /\ DOMAIN symbols = 1..num /\ Numbers = 0..(num - 1)
    BY SymbolsAre
<1>5. ASSUME NEW section \in Sections, NEW j \in DOMAIN relocations[section]
      PROVE  LET old == relocations[section][j]
                 new == relocations'[section][j]
             IN /\ new = SwappedEntry(section, old, a, b)
                /\ new \in EntryType /\ R_SYM(new.info) \in Numbers
                /\ symbols'[R_SYM(new.info) + 1] = symbols[R_SYM(old.info) + 1]
                /\ R_TYPE(new.info) = R_TYPE(old.info)
                /\ new.addend = old.addend
  <2>1. PICK old : old = relocations[section][j]
    OBVIOUS
  <2>2. PICK new : new = relocations'[section][j]
    OBVIOUS
  <2>3. new = SwappedEntry(section, old, a, b)
    BY <1>3, <2>1, <2>2
  <2>4. old \in EntryType /\ Refers(section, old)
    <3>1. relocations[section] \in Seq(EntryType)
        BY <1>2
    <3> QED
        BY <2>1, <3>1 DEF AllRefer
  <2>5. PICK m \in Numbers : m = R_SYM(old.info)
    BY <2>4 DEF Refers
  <2>6. PICK n \in Numbers : n = (IF m = a THEN b ELSE IF m = b THEN a ELSE m)
    OBVIOUS
  <2>7. /\ new \in EntryType /\ R_SYM(new.info) = n
        /\ R_TYPE(new.info) = R_TYPE(old.info) /\ new.addend = old.addend
    BY <2>3, <2>4, <2>5, <2>6, SwappedEntryIs
  <2>8. symbols'[n + 1] = symbols[m + 1]
    <3>1. a + 1 \in DOMAIN symbols /\ b + 1 \in DOMAIN symbols /\ m + 1 \in DOMAIN symbols
        BY <1>4
    <3>2. symbols'[a + 1] = symbols[b + 1] /\ symbols'[b + 1] = symbols[a + 1]
        BY <1>1, <1>4, <3>1
    <3>3. CASE m = a
        BY <1>1, <2>6, <3>2, <3>3
    <3>4. CASE m = b
        BY <1>1, <1>4, <2>6, <3>2, <3>4
    <3>5. CASE m # a /\ m # b
      <4>1. n = m /\ m + 1 # a + 1 /\ m + 1 # b + 1
        BY <1>4, <2>6, <3>5
      <4> QED
        BY <1>1, <3>1, <4>1
    <3> QED
        BY <3>3, <3>4, <3>5
  <2> QED
    BY <2>1, <2>2, <2>3, <2>5, <2>7, <2>8, Zenon
<1>6. ASSUME NEW section \in Sections
      PROVE  relocations'[section] \in Seq(EntryType)
             /\ DOMAIN relocations'[section] = DOMAIN relocations[section]
  <2>1. PICK n \in Nat : DOMAIN relocations[section] = 1..n
    BY <1>2
  <2>2. relocations'[section] = [j \in 1..n |-> relocations'[section][j]]
    BY <1>3, <2>1
  <2>3. \A j \in 1..n : relocations'[section][j] \in EntryType
    BY <1>5, <2>1
  <2>4. relocations'[section] \in [1..n -> EntryType]
    BY <2>2, <2>3
  <2> QED
    BY <2>1, <2>4
<1>7. relocations' \in [Sections -> Seq(EntryType)]
    BY <1>3, <1>6
<1> QED
    BY <1>5, <1>6, <1>7, Zenon

(* The symbols of a swap are those before it, in another order. *)
LEMMA SwapPermutes ==
    ASSUME SymbolTypes, SwapSymbols
    PROVE  \E p \in [DOMAIN symbols -> DOMAIN symbols] :
              /\ Range(p) = DOMAIN symbols
              /\ \A k \in DOMAIN symbols : symbols'[k] = symbols[p[k]]
<1>1. PICK a, b \in Numbers :
          symbols' = [symbols EXCEPT ![a + 1] = symbols[b + 1], ![b + 1] = symbols[a + 1]]
    BY SwapIs
<1>2. PICK D : D = DOMAIN symbols
    OBVIOUS
<1>3. PICK m, n \in D : m = a + 1 /\ n = b + 1
    BY <1>2, SymbolsAre
<1> DEFINE p == [k \in D |-> IF k = m THEN n ELSE IF k = n THEN m ELSE k]
<1>4. p \in [D -> D] /\ \A k \in D : p[p[k]] = k
    OBVIOUS
<1>5. \A k \in D : symbols'[k] = symbols[p[k]]
    BY <1>1, <1>2, <1>3
<1> HIDE DEF p
<1>6. Range(p) = D
    BY <1>4 DEF Range
<1> QED
    BY <1>2, <1>4, <1>5, <1>6, Zenon

LEMMA SwapTypes ==
    ASSUME SymbolTypes, SwapSymbols
    PROVE  /\ symbols' \in Seq(Symbol \cup {NullSymbol})
           /\ Len(symbols') = Len(symbols) /\ symbols # << >> /\ symbols'[1] = symbols[1]
           /\ \A k \in 2..Len(symbols') : symbols'[k] \in Symbol
<1>1. PICK a, b \in Numbers :
          /\ a # 0 /\ a < b
          /\ symbols' = [symbols EXCEPT ![a + 1] = symbols[b + 1], ![b + 1] = symbols[a + 1]]
    BY SwapIs
<1>2. PICK n \in Nat : n = Len(symbols) /\ Numbers = 0..(n - 1) /\ DOMAIN symbols = 1..n
    BY SymbolsAre DEF num
<1>3. PICK c, d \in 2..n : c = a + 1 /\ d = b + 1
    BY <1>1, <1>2
<1>4. symbols' = [symbols EXCEPT ![c] = symbols[d], ![d] = symbols[c]]
    BY <1>1, <1>3
<1>5. symbols \in Seq(Symbol \cup {NullSymbol}) /\ \A k \in 2..n : symbols[k] \in Symbol
    BY <1>2 DEF SymbolTypes
<1>6. symbols[c] \in Symbol /\ symbols[d] \in Symbol
    BY <1>5
<1>7. c \in DOMAIN symbols /\ d \in DOMAIN symbols /\ 1 \in DOMAIN symbols /\ 1 # c /\ 1 # d
    BY <1>2
<1>8. \A k \in 1..n : symbols'[k] = IF k = d THEN symbols[c] ELSE IF k = c THEN symbols[d]
                                                             ELSE symbols[k]
    BY <1>2, <1>4, <1>5
<1>9. \A k \in 2..n : symbols'[k] \in Symbol
    <2>1. \A k \in 2..n : k \in 1..n
        OBVIOUS
    <2> QED
        BY <1>5, <1>6, <1>8, <2>1
<1>10. symbols' \in Seq(Symbol \cup {NullSymbol}) /\ Len(symbols') = n
  <2> DEFINE S == Symbol \cup {NullSymbol}
  <2>1. symbols[c] \in S /\ symbols[d] \in S /\ symbols \in Seq(S)
    BY <1>5, <1>6
  <2> HIDE DEF S
  <2>2. symbols' \in Seq(S) /\ Len(symbols') = n
    BY <1>2, <1>4, <2>1
  <2> QED
    BY <2>2 DEF S
<1>11. symbols'[1] = symbols[1] /\ symbols # << >>
    BY <1>2, <1>7, <1>8
<1> QED
    BY <1>2, <1>9, <1>10, <1>11

-----------------------------------------------------------------------------
(* The invariant *)

LEMMA SymbolsStart == Init => SymbolsInv
<1> SUFFICES ASSUME Init PROVE SymbolsInv
    OBVIOUS
<1>1. relocations \in [Sections -> Seq(EntryType)] /\ \A s \in Sections : relocations[s] = << >>
    BY DEF Init, Sections
<1>2. AllRefer
    BY <1>1 DEF AllRefer
<1>3. symbols = << >> /\ first_not_local = 1 /\ pc = "idle" /\ hash.kind = "none"
    BY DEF Init, NoHash
<1>4. symbols \in Seq(Symbol \cup {NullSymbol}) /\ Len(symbols) = 0
    BY <1>3
<1>5. SymbolTypes
    BY <1>1, <1>3, <1>4, InfoAssumption DEF SymbolTypes
<1> QED
    BY <1>2, <1>3, <1>5 DEF SymbolsInv, PassedLocal, HashListed

(* As long as no symbol goes, the relocations that stay refer to one. *)
LEMMA StillRefer ==
    ASSUME SymbolTypes, SymbolTypes', AllRefer, num <= num', relocations' = relocations
    PROVE  AllRefer'
<1>1. \A k \in Numbers : k \in Numbers'
  <2>1. PICK m \in Nat : m = num /\ Numbers = 0..(m - 1)
    BY SymbolsAre
  <2>2. PICK n \in Nat : n = num' /\ Numbers' = 0..(n - 1)
    BY DEF SymbolTypes, Numbers, num
  <2>3. m <= n
    BY <2>1, <2>2
  <2>4. \A k \in 0..(m - 1) : k \in 0..(n - 1)
    BY <2>3
  <2> QED
    BY <2>1, <2>2, <2>4, Zenon
<1> QED
    BY <1>1 DEF AllRefer, Refers

LEMMA SymbolAdded ==
    ASSUME SymbolsInv, NEW symbol \in Symbol, AddSymbol(symbol)
    PROVE  SymbolsInv'
<1> DEFINE S == Symbol \cup {NullSymbol}
           old == IF symbols = << >> THEN <<NullSymbol>> ELSE symbols
<1>1. SymbolTypes /\ AllRefer /\ HashListed
    BY DEF SymbolsInv
<1>2. symbols \in Seq(S) /\ num \in Nat /\ num = Len(symbols)
    BY <1>1, SymbolsAre DEF SymbolTypes
<1>3. NullSymbol \in S /\ symbol \in S
    OBVIOUS
<1>4. PICK n \in Nat : n = IF symbols = << >> THEN 1 ELSE num
    BY <1>2
<1> HIDE DEF S
<1>5. old \in Seq(S) /\ Len(old) = n /\ n # 0 /\ num <= n
  <2>1. CASE symbols = << >>
    BY <1>2, <1>3, <1>4, <2>1
  <2>2. CASE symbols # << >>
    BY <1>2, <1>4, <2>2
  <2> QED
    BY <2>1, <2>2
<1>6. old[1] = NullSymbol /\ \A k \in 2..n : old[k] \in Symbol
  <2>1. CASE symbols = << >>
    BY <1>4, <2>1
  <2>2. CASE symbols # << >>
    BY <1>1, <1>2, <1>4, <2>2 DEF SymbolTypes
  <2> QED
    BY <2>1, <2>2
<1>7. symbols' = Append(old, symbol)
    BY DEF AddSymbol
<1> HIDE DEF old
<1>8. symbols' \in Seq(S) /\ Len(symbols') = n + 1 /\ symbols'[1] = NullSymbol
    BY <1>3, <1>5, <1>6, <1>7
<1>9. \A k \in 2..Len(symbols') : symbols'[k] \in Symbol
  <2> SUFFICES ASSUME NEW k \in 2..(n + 1) PROVE symbols'[k] \in Symbol
    BY <1>8
  <2>1. CASE k \in 2..n
    BY <1>5, <1>6, <1>7, <2>1
  <2>2. CASE k = n + 1
    BY <1>5, <1>7, <2>2
  <2> QED
    BY <2>1, <2>2
<1>10. n + 1 <= MaxSymbols
  <2>1. num < MaxSymbols
    BY DEF AddSymbol
  <2> QED
    BY <1>2, <1>4, <2>1, InfoAssumption
<1>11. /\ relocations' = relocations /\ hash' = hash /\ first_not_local' = first_not_local
       /\ pc' = pc /\ pc = "idle"
    BY DEF AddSymbol
<1>12. SymbolTypes'
    BY <1>1, <1>8, <1>9, <1>10, <1>11 DEF SymbolTypes, S, Symbol, NullSymbol
<1>13. num <= num'
    BY <1>5, <1>8 DEF num
<1> QED
    BY <1>1, <1>11, <1>12, <1>13, StillRefer DEF SymbolsInv, PassedLocal, HashListed

LEMMA EntryWritten ==
    ASSUME SymbolsInv, NEW section \in Sections, NEW symbol \in Numbers, NEW type \in Types,
           NEW addend \in {0, 1},
           \/ AddEntry(section, symbol, type, addend)
           \/ \E j \in DOMAIN relocations[section] : SetEntry(section, j, symbol, type, addend)
    PROVE  SymbolsInv'
<1>1. SymbolTypes /\ AllRefer /\ HashListed
    BY DEF SymbolsInv
<1>2. PICK e \in EntryType : e = Entry(section, symbol, type, addend) /\ Refers(section, e)
  <2>1. symbol \in 0..(MaxSymbols - 1) /\ type \in 0..(TypeSize - 1)
    BY <1>1, SymbolsAre, InfoAssumption
  <2> QED
    BY <2>1, EntryIs DEF Refers
<1>3. relocations \in [Sections -> Seq(EntryType)]
    BY <1>1 DEF SymbolTypes
<1>4. /\ symbols' = symbols /\ hash' = hash /\ first_not_local' = first_not_local
      /\ pc' = pc /\ pc = "idle"
    BY DEF AddEntry, SetEntry
<1>5. PICK old \in Seq(EntryType) : old = relocations[section]
    BY <1>3
<1>6. PICK new \in Seq(EntryType) :
          /\ relocations' = [relocations EXCEPT ![section] = new]
          /\ \A j \in DOMAIN new : new[j] = e \/ (j \in DOMAIN old /\ new[j] = old[j])
  <2>1. CASE AddEntry(section, symbol, type, addend)
    <3>1. relocations' = [relocations EXCEPT ![section] = Append(old, e)]
        BY <1>2, <1>3, <1>5, <2>1 DEF AddEntry
    <3>2. PICK x : x = Append(old, e)
        OBVIOUS
    <3>3. PICK n \in Nat : n = Len(old) /\ DOMAIN old = 1..n
        OBVIOUS
    <3>4. x \in Seq(EntryType) /\ Len(x) = n + 1 /\ DOMAIN x = 1..(n + 1)
        BY <3>2, <3>3
    <3>5. x[n + 1] = e /\ \A j \in 1..n : x[j] = old[j]
        BY <3>2, <3>3
    <3>6. \A j \in 1..(n + 1) : j = n + 1 \/ j \in 1..n
        BY <3>3
    <3>7. ASSUME NEW i \in DOMAIN x
          PROVE  x[i] = e \/ (i \in DOMAIN old /\ x[i] = old[i])
      <4>1. CASE i = n + 1
        BY <3>5, <4>1
      <4>2. CASE i # n + 1
        BY <3>3, <3>4, <3>5, <3>6, <4>2
      <4> QED
        BY <4>1, <4>2
    <3>8. \A j \in DOMAIN x : x[j] = e \/ (j \in DOMAIN old /\ x[j] = old[j])
        BY <3>7
    <3> QED
        BY <3>1, <3>2, <3>4, <3>8, Zenon
  <2>2. CASE \E j \in DOMAIN relocations[section] : SetEntry(section, j, symbol, type, addend)
    <3>1. PICK l \in DOMAIN old : SetEntry(section, l, symbol, type, addend)
        BY <1>5, <2>2
    <3>2. PICK x : x = [old EXCEPT ![l] = e]
        OBVIOUS
    <3>3. relocations' = [relocations EXCEPT ![section] = x]
        BY <1>2, <1>3, <1>5, <3>1, <3>2 DEF SetEntry
    <3>4. x \in Seq(EntryType) /\ DOMAIN x = DOMAIN old
        BY <3>2
    <3>5. \A j \in DOMAIN old : x[j] = IF j = l THEN e ELSE old[j]
        BY <3>2
    <3>6. \A j \in DOMAIN x : x[j] = e \/ (j \in DOMAIN old /\ x[j] = old[j])
        BY <3>4, <3>5
    <3> QED
        BY <3>3, <3>4, <3>6, Zenon
  <2> QED
    BY <2>1, <2>2
<1>7. /\ relocations' \in [Sections -> Seq(EntryType)] /\ relocations'[section] = new
      /\ \A s \in Sections \ {section} : relocations'[s] = relocations[s]
    BY <1>3, <1>6
<1>8. Numbers' = Numbers
    BY <1>4 DEF Numbers, num
<1>9. AllRefer'
  <2>1. ASSUME NEW s \in Sections, NEW j \in DOMAIN relocations'[s], NEW x,
               x = relocations'[s][j]
        PROVE  Refers(s, x)
    <3>1. CASE s = section
        BY <1>1, <1>2, <1>5, <1>6, <1>7, <2>1, <3>1 DEF AllRefer
    <3>2. CASE s # section
        BY <1>1, <1>7, <2>1, <3>2 DEF AllRefer
    <3> QED
        BY <3>1, <3>2
  <2>2. \A s \in Sections : \A j \in DOMAIN relocations'[s] :
            /\ R_SYM(relocations'[s][j].info) \in Numbers'
            /\ s = "REL" => relocations'[s][j].addend = 0
    BY <1>8, <2>1 DEF Refers
  <2> QED
    BY <2>2 DEF AllRefer, Refers
<1>10. SymbolTypes'
    BY <1>1, <1>4, <1>7 DEF SymbolTypes, Symbol, NullSymbol
<1> QED
    BY <1>1, <1>4, <1>9, <1>10 DEF SymbolsInv, PassedLocal, HashListed

LEMMA HashWritten ==
    ASSUME SymbolsInv, WriteHash
    PROVE  SymbolsInv'
<1>1. SymbolTypes /\ AllRefer /\ num \in Nat
    BY SymbolsAre DEF SymbolsInv
<1>2. /\ symbols' = symbols /\ relocations' = relocations /\ first_not_local' = first_not_local
      /\ pc' = pc /\ pc = "idle"
    BY DEF WriteHash
<1>3. SymbolTypes'
    BY <1>1, <1>2 DEF SymbolTypes, Symbol, NullSymbol
<1>4. num' = num
    BY <1>2 DEF num
<1>5. HashListed'
  <2>1. CASE hash' = SysvTable(symbols)
    BY <2>1 DEF SysvTable, HashListed
  <2>2. CASE hash' = GnuTable(symbols)
    <3>1. hash'.kind = "gnu" /\ DOMAIN hash'.chains = FirstHashed..(Len(symbols) - 1)
        BY <2>2 DEF GnuTable
    <3>2. FirstHashed..(Len(symbols) - 1) \subseteq Nat \ {0}
        BY <1>1, TableAssumption DEF num
    <3> QED
        BY <3>1, <3>2 DEF HashListed
  <2> QED
    BY <2>1, <2>2 DEF WriteHash
<1> QED
    BY <1>1, <1>2, <1>3, <1>4, <1>5, StillRefer DEF SymbolsInv, PassedLocal

LEMMA SwapStep ==
    ASSUME SymbolsInv, SwapSymbols
    PROVE  SymbolsInv'
<1>1. SymbolTypes /\ AllRefer /\ PassedLocal /\ HashListed /\ pc = "arrange"
    BY DEF SymbolsInv, SwapSymbols
<1>2. PICK a, b \in Numbers :
          /\ a # 0 /\ a < b /\ IsLocal(b)
          /\ \A j \in first_not_local..(a - 1) : IsLocal(j)
          /\ first_not_local' = a
          /\ symbols' = [symbols EXCEPT ![a + 1] = symbols[b + 1], ![b + 1] = symbols[a + 1]]
    BY <1>1, SwapIs
<1>3. PICK n \in Nat : /\ n = num /\ n = Len(symbols) /\ Numbers = 0..(n - 1)
                       /\ DOMAIN symbols = 1..n /\ n <= MaxSymbols
    BY <1>1, SymbolsAre
<1>4. /\ symbols' \in Seq(Symbol \cup {NullSymbol}) /\ Len(symbols') = n
      /\ symbols # << >> /\ symbols'[1] = symbols[1]
      /\ \A k \in 2..n : symbols'[k] \in Symbol
    BY <1>1, <1>3, SwapTypes
<1>5. relocations' \in [Sections -> Seq(EntryType)]
    BY <1>1, SwapKeeps
<1>6. hash' = hash /\ pc' = pc
    BY DEF SwapSymbols
<1>7. a \in Nat \ {0}
    BY <1>2, <1>3
<1>8. SymbolTypes'
    BY <1>1, <1>2, <1>3, <1>4, <1>5, <1>6, <1>7 DEF SymbolTypes, Symbol, NullSymbol
<1>9. Numbers' = Numbers
    BY <1>3, <1>4 DEF Numbers, num
<1>10. AllRefer'
  <2>1. ASSUME NEW s \in Sections, NEW j \in DOMAIN relocations[s]
        PROVE  /\ R_SYM(relocations'[s][j].info) \in Numbers
               /\ s = "REL" => relocations'[s][j].addend = 0
    <3>1. /\ R_SYM(relocations'[s][j].info) \in Numbers
          /\ relocations'[s][j].addend = relocations[s][j].addend
        BY <1>1, SwapKeeps, Zenon
    <3>2. s = "REL" => relocations[s][j].addend = 0
        BY <1>1 DEF AllRefer, Refers
    <3> QED
        BY <3>1, <3>2
  <2>2. \A s \in Sections : DOMAIN relocations'[s] = DOMAIN relocations[s]
    BY <1>1, SwapKeeps, Zenon
  <2>3. \A s \in Sections : \A j \in DOMAIN relocations'[s] :
            /\ R_SYM(relocations'[s][j].info) \in Numbers'
            /\ s = "REL" => relocations'[s][j].addend = 0
    BY <1>9, <2>1, <2>2
  <2> QED
    BY <2>3 DEF AllRefer, Refers
<1>11. PassedLocal'
  <2>1. ASSUME NEW k \in 1..(a - 1)
        PROVE  symbols'[k + 1].local
    <3>1. k \in Numbers /\ k + 1 \in DOMAIN symbols /\ k + 1 # a + 1 /\ k + 1 # b + 1
        BY <1>2, <1>3
    <3>2. symbols'[k + 1] = symbols[k + 1]
        BY <1>2, <3>1
    <3>3. IsLocal(k)
      <4>1. first_not_local \in Nat
        BY <1>1 DEF SymbolTypes
      <4>2. k \in 1..(first_not_local - 1) \/ k \in first_not_local..(a - 1)
        BY <1>7, <4>1
      <4> QED
        BY <1>1, <1>2, <3>1, <4>2 DEF PassedLocal
    <3> QED
        BY <3>2, <3>3 DEF IsLocal, get_symbol
  <2> QED
    BY <1>2, <2>1 DEF PassedLocal, IsLocal, get_symbol
<1> QED
    BY <1>1, <1>6, <1>8, <1>10, <1>11 DEF SymbolsInv, HashListed

LEMMA SymbolsStep == SymbolsInv /\ [Next]_vars => SymbolsInv'
<1> SUFFICES ASSUME SymbolsInv, [Next]_vars PROVE SymbolsInv'
    OBVIOUS
<1>1. CASE \E symbol \in Symbol : AddSymbol(symbol)
    BY <1>1, SymbolAdded
<1>2. CASE \E section \in {"REL", "RELA"}, symbol \in Numbers, type \in Types, addend \in {0, 1} :
               \/ AddEntry(section, symbol, type, addend)
               \/ \E j \in DOMAIN relocations[section] : SetEntry(section, j, symbol, type, addend)
  <2>1. PICK section \in Sections, symbol \in Numbers, type \in Types, addend \in {0, 1} :
            \/ AddEntry(section, symbol, type, addend)
            \/ \E j \in DOMAIN relocations[section] : SetEntry(section, j, symbol, type, addend)
    BY <1>2 DEF Sections
  <2> QED
    BY <2>1, EntryWritten
<1>3. CASE WriteHash
    BY <1>3, HashWritten
<1>4. CASE StartArrange \/ EndArrange \/ UNCHANGED vars
  <2>1. /\ symbols' = symbols /\ relocations' = relocations /\ hash' = hash
        /\ pc' \in {"idle", "arrange"}
        /\ first_not_local' \in Nat \ {0}
    <3>1. SymbolTypes /\ first_not_local \in Nat
        BY DEF SymbolsInv, SymbolTypes
    <3>2. PICK n \in Nat : n = NextWith(first_not_local, FALSE) /\ first_not_local <= n
        BY <3>1, NextIs
    <3>3. n \in Nat \ {0} /\ first_not_local \in Nat \ {0} /\ pc \in {"idle", "arrange"}
      <4>1. first_not_local \in Nat \ {0} /\ pc \in {"idle", "arrange"}
        BY <3>1 DEF SymbolTypes
      <4>2. first_not_local <= n
        BY <3>2, Zenon
      <4>3. n # 0
        BY <4>1, <4>2
      <4> QED
        BY <4>1, <4>3
    <3>4. CASE EndArrange
        BY <3>2, <3>3, <3>4 DEF EndArrange
    <3>5. CASE StartArrange \/ UNCHANGED vars
        BY <3>3, <3>5 DEF StartArrange, vars
    <3> QED
        BY <1>4, <3>4, <3>5
  <2>2. SymbolTypes'
    BY <2>1 DEF SymbolsInv, SymbolTypes, Symbol, NullSymbol
  <2>3. PassedLocal'
    BY <1>4 DEF SymbolsInv, PassedLocal, StartArrange, EndArrange, vars, IsLocal, get_symbol,
                Numbers, num
  <2>4. num \in Nat /\ num' = num /\ SymbolTypes /\ AllRefer /\ HashListed
    BY <2>1, SymbolsAre DEF SymbolsInv, num
  <2>5. num <= num'
    BY <2>4
  <2> QED
    BY <2>1, <2>2, <2>3, <2>4, <2>5, StillRefer DEF SymbolsInv, HashListed
<1>5. CASE SwapSymbols
    BY <1>5, SwapStep
<1> QED
    BY <1>1, <1>2, <1>3, <1>4, <1>5 DEF Next, Arranging

(* A symbol table has the null symbol first and symbols with names behind it, and every
   relocation refers to one of them, in whatever order symbols and entries are added,
   entries rewritten and symbols moved. *)
THEOREM SymbolsInvariant == Spec => []SymbolsInv
BY SymbolsStart, SymbolsStep, PTL DEF Spec

-----------------------------------------------------------------------------
(* arrange_local_symbols *)

LEMMA ArrangeKeeps ==
    ASSUME SymbolsInv, [Next]_vars, pc = "arrange"
    PROVE  /\ \A section \in DOMAIN relocations : \A j \in DOMAIN relocations[section] :
                 LET old == relocations[section][j]
                     new == relocations'[section][j]
                 IN /\ symbols'[R_SYM(new.info) + 1] = Target(old)
                    /\ R_TYPE(new.info) = R_TYPE(old.info)
                    /\ new.addend = old.addend
           /\ \E p \in [DOMAIN symbols -> DOMAIN symbols] :
                 /\ Range(p) = DOMAIN symbols
                 /\ \A k \in DOMAIN symbols : symbols'[k] = symbols[p[k]]
<1>1. SymbolTypes /\ AllRefer
    BY DEF SymbolsInv
<1>2. DOMAIN relocations = Sections
    BY <1>1 DEF SymbolTypes
<1>3. CASE SwapSymbols
  <2>1. ASSUME NEW section \in Sections, NEW j \in DOMAIN relocations[section]
        PROVE  LET old == relocations[section][j]
                   new == relocations'[section][j]
               IN /\ symbols'[R_SYM(new.info) + 1] = Target(old)
                  /\ R_TYPE(new.info) = R_TYPE(old.info)
                  /\ new.addend = old.addend
    <3>1. Target(relocations[section][j]) = symbols[R_SYM(relocations[section][j].info) + 1]
        BY DEF Target, get_symbol
    <3> QED
        BY <1>1, <1>3, <3>1, SwapKeeps, Zenon
  <2> QED
    BY <1>1, <1>2, <1>3, <2>1, SwapPermutes
<1>4. CASE ~SwapSymbols
  <2>1. symbols' = symbols /\ relocations' = relocations
    BY <1>4 DEF Next, vars, Arranging, AddSymbol, AddEntry, SetEntry, WriteHash, StartArrange,
                EndArrange
  <2> DEFINE p == [k \in DOMAIN symbols |-> k]
  <2>2. p \in [DOMAIN symbols -> DOMAIN symbols] /\ \A k \in DOMAIN symbols : p[k] = k
    OBVIOUS
  <2> HIDE DEF p
  <2>3. Range(p) = DOMAIN symbols
    BY <2>2 DEF Range
  <2>4. \A k \in DOMAIN symbols : symbols'[k] = symbols[p[k]]
    BY <2>1, <2>2
  <2>5. \A section \in DOMAIN relocations : \A j \in DOMAIN relocations[section] :
            symbols'[R_SYM(relocations'[section][j].info) + 1] = Target(relocations[section][j])
    BY <2>1 DEF Target, get_symbol
  <2> QED
    BY <2>1, <2>2, <2>3, <2>4, <2>5
<1> QED
    BY <1>3, <1>4

(* Whatever symbols there are and in whatever order, moving the local ones in front leaves
   each relocation with the symbol it referred to, and with its type and addend, and no
   symbol comes or goes. *)
THEOREM RelocationsFollow == Spec => RelocationsKeepSymbols
<1> DEFINE Right ==
        pc = "arrange" =>
          /\ \A section \in DOMAIN relocations : \A j \in DOMAIN relocations[section] :
                 LET old == relocations[section][j]
                     new == relocations'[section][j]
                 IN /\ symbols'[R_SYM(new.info) + 1] = Target(old)
                    /\ R_TYPE(new.info) = R_TYPE(old.info)
                    /\ new.addend = old.addend
          /\ \E p \in [DOMAIN symbols -> DOMAIN symbols] :
                 /\ Range(p) = DOMAIN symbols
                 /\ \A k \in DOMAIN symbols : symbols'[k] = symbols[p[k]]
<1>1. SymbolsInv /\ [Next]_vars => Right
    BY ArrangeKeeps, Zenon
<1>2. SymbolsInv /\ [Next]_vars => [Right]_vars
    BY <1>1
<1> QED
    BY <1>2, SymbolsInvariant, PTL DEF Spec, RelocationsKeepSymbols

LEMMA EndIs ==
    ASSUME SymbolsInv, EndArrange
    PROVE  LocalsFirst'
<1>1. SymbolTypes /\ PassedLocal /\ pc = "arrange"
    BY DEF SymbolsInv, EndArrange
<1>2. PICK n \in Nat : n = num /\ Numbers = 0..(n - 1)
    BY <1>1, SymbolsAre
<1>3. PICK start \in Nat \ {0} : start = first_not_local
    BY <1>1 DEF SymbolTypes
<1>4. PICK first \in Nat : /\ first = NextWith(start, FALSE) /\ start <= first
                           /\ first < n => IsLocal(first) = FALSE
                           /\ \A j \in start..(first - 1) : j < n => IsLocal(j) # FALSE
  <2>1. start \in Nat
    OBVIOUS
  <2> QED
    BY <1>1, <1>2, <2>1, NextIs
<1>5. PICK next \in Nat : /\ next = NextWith(first + 1, TRUE)
                          /\ \A j \in (first + 1)..(next - 1) : j < n => IsLocal(j) # TRUE
  <2>1. first + 1 \in Nat
    OBVIOUS
  <2> QED
    BY <1>1, <1>2, <2>1, NextIs
<1>6. n <= next /\ sh_info' = first /\ symbols' = symbols
    BY <1>2, <1>3, <1>4, <1>5 DEF EndArrange
<1>7. ASSUME NEW k \in 1..(n - 1), k < first
      PROVE  IsLocal(k)
  <2>1. k \in Numbers /\ IsLocal(k) \in BOOLEAN /\ k < n
    BY <1>1, <1>2, SymbolsAre
  <2>2. k \in 1..(start - 1) \/ k \in start..(first - 1)
    <3>1. k \in Nat /\ 1 <= k /\ k < first /\ first \in Nat /\ start \in Nat
        BY <1>7
    <3> QED
        BY <3>1
  <2>3. CASE k \in 1..(start - 1)
    BY <1>1, <1>3, <2>1, <2>3 DEF PassedLocal
  <2>4. CASE k \in start..(first - 1)
    BY <1>4, <2>1, <2>4
  <2> QED
    BY <2>2, <2>3, <2>4
<1>8. ASSUME NEW k \in 1..(n - 1), ~(k < first)
      PROVE  ~IsLocal(k)
  <2>1. k \in Numbers /\ IsLocal(k) \in BOOLEAN /\ k < n
    BY <1>1, <1>2, SymbolsAre
  <2>2. k = first \/ k \in (first + 1)..(next - 1)
    <3>1. k \in Nat /\ k <= n - 1 /\ ~(k < first) /\ n <= next
        BY <1>6, <1>8
    <3> QED
        BY <3>1
  <2>3. CASE k = first
    BY <1>4, <2>1, <2>3
  <2>4. CASE k \in (first + 1)..(next - 1)
    BY <1>5, <2>1, <2>4
  <2> QED
    BY <2>2, <2>3, <2>4
<1>9. \A k \in Numbers \ {0} : IsLocal(k) <=> k < first
    BY <1>2, <1>7, <1>8
<1>10. symbols # << >> => get_symbol(0) = NullSymbol
  <2>1. symbols # << >> => num # 0
    BY <1>1 DEF SymbolTypes, num
  <2> QED
    BY <1>1, <2>1, SymbolsAre
<1> QED
    BY <1>6, <1>9, <1>10 DEF LocalsFirst, Numbers, num, IsLocal, get_symbol, NullSymbol

(* What a call of arrange_local_symbols leaves when it ends: the local symbols in front of
   the others, the symbol 0 before all, and sh_info between them. *)
THEOREM ArrangedInOrder == Spec => [][pc = "arrange" /\ pc' = "idle" => LocalsFirst']_vars
<1>1. SymbolsInv /\ [Next]_vars => [pc = "arrange" /\ pc' = "idle" => LocalsFirst']_vars
  <2> SUFFICES ASSUME SymbolsInv, Next, pc = "arrange", pc' = "idle"
               PROVE  LocalsFirst'
    OBVIOUS
  <2>1. EndArrange
    BY DEF Next, Arranging, AddSymbol, AddEntry, SetEntry, WriteHash, StartArrange, SwapSymbols
  <2> QED
    BY <2>1, EndIs
<1> QED
    BY <1>1, SymbolsInvariant, PTL DEF Spec

-----------------------------------------------------------------------------
(* Chains *)

(* Each step from a number that is not in S goes down. *)
Descends(M, S, next) == \A y \in 0..M : y \notin S => next[y] \in 0..(y - 1)

Walks(f, M, S, next) == f = [y \in 0..M |-> IF y \in S THEN y ELSE f[next[y]]]

(* A walk that goes down at each step is a function. *)
LEMMA WalkExists ==
    ASSUME NEW M \in Nat, NEW S, NEW next, Descends(M, S, next)
    PROVE  \E f : Walks(f, M, S, next)
<1>0. \A y \in 0..M : y \notin S => next[y] \in 0..(y - 1)
    BY DEF Descends
<1> DEFINE P(f, n) == \A y \in 0..n : f[y] = IF y \in S THEN y ELSE f[next[y]]
           Bad == {n \in 0..M : ~(\E f : P(f, n))}
<1>1. Bad = {}
  <2> SUFFICES ASSUME Bad # {} PROVE FALSE
    OBVIOUS
  <2>1. Bad \subseteq Nat
    OBVIOUS
  <2>2. PICK e \in Bad : \A l \in Bad : e <= l
    <3> HIDE DEF Bad
    <3> QED
        BY <2>1, HasLeast
  <2>3. e \in 0..M /\ ~(\E f : P(f, e))
    BY <2>2
  <2>4. \E f : \A y \in 0..(e - 1) : f[y] = IF y \in S THEN y ELSE f[next[y]]
    <3>1. CASE e = 0
      <4>1. \A y \in 0..(e - 1) : FALSE
        BY <3>1
      <4> QED
        BY <4>1
    <3>2. CASE e # 0
      <4>1. e - 1 \in 0..M /\ ~(e <= e - 1)
        BY <2>3, <3>2
      <4>2. e - 1 \notin Bad
        BY <2>2, <4>1
      <4>3. \E f : P(f, e - 1)
        BY <4>1, <4>2
      <4> QED
        BY <4>3
    <3> QED
        BY <3>1, <3>2
  <2>5. PICK f : \A y \in 0..(e - 1) : f[y] = IF y \in S THEN y ELSE f[next[y]]
    BY <2>4
  <2> DEFINE g == [y \in 0..e |-> IF y = e THEN (IF e \in S THEN e ELSE f[next[e]]) ELSE f[y]]
  <2>6. g[e] = (IF e \in S THEN e ELSE f[next[e]]) /\ \A y \in 0..(e - 1) : g[y] = f[y]
    BY <2>3
  <2> HIDE DEF g
  <2>7. ASSUME NEW y \in 0..e
        PROVE  g[y] = IF y \in S THEN y ELSE g[next[y]]
    <3>1. y \notin S => next[y] \in 0..(e - 1)
        BY <1>0, <2>3, <2>7
    <3>2. y \notin S => g[next[y]] = f[next[y]]
        BY <2>6, <3>1
    <3>3. CASE y = e
        BY <2>6, <3>2, <3>3
    <3>4. CASE y # e
      <4>1. y \in 0..(e - 1)
        BY <2>3, <3>4
      <4> QED
        BY <2>5, <2>6, <3>2, <4>1
    <3> QED
        BY <3>3, <3>4
  <2>8. P(g, e)
    BY <2>7
  <2> QED
    BY <2>3, <2>8
<1>2. PICK f : P(f, M)
  <2>1. M \in 0..M
    OBVIOUS
  <2> QED
    BY <1>1, <2>1
<1> DEFINE h == [y \in 0..M |-> f[y]]
<1>3. h = [y \in 0..M |-> h[y]] /\ \A y \in 0..M : h[y] = f[y]
    OBVIOUS
<1> HIDE DEF h
<1>4. ASSUME NEW y \in 0..M
      PROVE  h[y] = IF y \in S THEN y ELSE h[next[y]]
  <2>1. y \notin S => next[y] \in 0..M
    BY <1>0
  <2> QED
    BY <1>2, <1>3, <2>1
<1>5. h = [y \in 0..M |-> IF y \in S THEN y ELSE h[next[y]]]
    BY <1>3, <1>4
<1> QED
    BY <1>5 DEF Walks

(* From C the walk w goes down within C, and stops only where it is Good. *)
StaysIn(w, C, S, next, Good) ==
    /\ \A y \in C : w[y] = IF y \in S THEN y ELSE w[next[y]]
    /\ \A y \in C : y \in S => y \in Good
    /\ \A y \in C : y \notin S => next[y] \in C /\ next[y] < y

LEMMA WalkReaches ==
    ASSUME NEW M \in Nat, NEW S, NEW next, NEW w, NEW C, C \subseteq 0..M, NEW Good,
           StaysIn(w, C, S, next, Good)
    PROVE  \A y \in C : w[y] \in Good
<1>0. \A y \in C : y \in Nat
  <2>1. \A y \in 0..M : y \in Nat
    OBVIOUS
  <2> QED
    BY <2>1
<1> DEFINE Bad == {y \in C : w[y] \notin Good}
<1>1. Bad = {}
  <2> SUFFICES ASSUME Bad # {} PROVE FALSE
    OBVIOUS
  <2>1. Bad \subseteq Nat
    BY <1>0
  <2>2. PICK e \in Bad : \A l \in Bad : e <= l
    <3> HIDE DEF Bad
    <3> QED
        BY <2>1, HasLeast
  <2>3. e \in C /\ w[e] \notin Good
    BY <2>2
  <2>4. e \notin S /\ w[e] = w[next[e]]
    BY <2>3 DEF StaysIn
  <2>5. next[e] \in C /\ next[e] < e /\ next[e] \in Nat /\ e \in Nat
    BY <1>0, <2>3, <2>4 DEF StaysIn
  <2>6. ~(e <= next[e])
    BY <2>5
  <2>7. next[e] \in Bad
    BY <2>3, <2>4, <2>5
  <2> QED
    BY <2>2, <2>6, <2>7
<1> QED
    BY <1>1

LEMMA GreatestOfSome ==
    ASSUME NEW S, NEW e \in S, \A l \in S : l <= e
    PROVE  Greatest(S) \in S /\ \A l \in S : l <= Greatest(S)
<1>1. Greatest(S) = CHOOSE k \in S : \A l \in S : l <= k
    BY DEF Greatest
<1> QED
    BY <1>1, Zenon

LEMMA GreatestIs ==
    ASSUME NEW n \in Nat, NEW S, S \subseteq 0..n
    PROVE  /\ Greatest(S) \in 0..n
           /\ S = {} => Greatest(S) = 0
           /\ S # {} => Greatest(S) \in S /\ \A l \in S : l <= Greatest(S)
<1>1. CASE S = {}
    BY <1>1 DEF Greatest
<1>2. CASE S # {}
  <2>1. PICK e \in S : \A l \in S : l <= e
    BY <1>2, HasGreatest
  <2>2. Greatest(S) \in S /\ \A l \in S : l <= Greatest(S)
    BY <2>1, GreatestOfSome
  <2> QED
    BY <1>2, <2>2
<1> QED
    BY <1>1, <1>2

-----------------------------------------------------------------------------
(* Names in the hash tables *)

LEMMA HashIsNat ==
    ASSUME SymbolTypes, NEW k \in Numbers, k # 0
    PROVE  /\ get_symbol(k) = symbols[k + 1]
           /\ elf_hash[symbols[k + 1].name] \in Nat /\ elf_gnu_hash[symbols[k + 1].name] \in Nat
<1>1. get_symbol(k) \in Symbol
    BY SymbolsAre
<1>2. get_symbol(k).name \in Names /\ get_symbol(k) = symbols[k + 1]
    BY <1>1 DEF Symbol, get_symbol
<1> QED
    BY <1>2, HashAssumption

Bucket(k) == elf_hash[symbols[k + 1].name] % Chaining
InChain(b, below) == {k \in 1..(below - 1) : Bucket(k) = b}

LEMMA SysvIs ==
    /\ SysvTable(symbols).kind = "sysv" /\ SysvTable(symbols).nchain = num
    /\ SysvTable(symbols).buckets
           = [b \in 0..(Chaining - 1) |-> Greatest(InChain(b, num))]
    /\ SysvTable(symbols).chains
           = [k \in 0..(num - 1) |-> IF k = 0 THEN 0 ELSE Greatest(InChain(Bucket(k), k))]
BY DEF SysvTable, InChain, Bucket, num

LEMMA WalkIs ==
    ASSUME NEW name
    PROVE  Walk(name) = CHOOSE walk : walk = [y \in 0..MaxSymbols |->
                   IF HasSymbol(y, name) \/ y = 0 \/ y >= hash.nchain THEN y
                   ELSE walk[hash.chains[y]]]
BY DEF Walk

(* A symbol of the name is at the end of the way down from any symbol behind it in its
   chain. *)
LEMMA SysvFinds ==
    ASSUME SymbolsInv, hash = SysvTable(symbols), NEW name \in Names, NEW k \in Numbers,
           HasSymbol(k, name)
    PROVE  hash_lookup(name) # 0
<1>1. SymbolTypes
    BY DEF SymbolsInv
<1>2. PICK n \in Nat : n = num /\ Numbers = 0..(n - 1) /\ n <= MaxSymbols
    BY <1>1, SymbolsAre
<1>3. MaxSymbols \in Nat /\ Chaining \in Nat \ {0}
    BY InfoAssumption, TableAssumption
<1>4. k \in 1..(n - 1)
  <2>1. k \in Numbers /\ k # 0
    BY <1>1, NamedIsNot0
  <2> QED
    BY <1>2, <2>1
<1>5. \A y \in 1..(n - 1) : Bucket(y) \in 0..(Chaining - 1)
  <2> SUFFICES ASSUME NEW y \in 1..(n - 1) PROVE Bucket(y) \in 0..(Chaining - 1)
    OBVIOUS
  <2>1. y \in Numbers /\ y # 0
    BY <1>2
  <2>2. PICK h \in Nat : h = elf_hash[symbols[y + 1].name]
    BY <1>1, <2>1, HashIsNat
  <2>3. h % Chaining \in 0..(Chaining - 1)
    BY <1>3
  <2> QED
    BY <2>2, <2>3 DEF Bucket
<1>6. PICK b \in 0..(Chaining - 1) : b = Bucket(k) /\ b = elf_hash[name] % Chaining
  <2>1. symbols[k + 1].name = name
    BY DEF HasSymbol, get_symbol
  <2>2. Bucket(k) = elf_hash[name] % Chaining
    BY <2>1 DEF Bucket
  <2> QED
    BY <1>4, <1>5, <2>2
<1> DEFINE S == {y \in 0..MaxSymbols : HasSymbol(y, name) \/ y = 0 \/ y >= n}
           next == [y \in 0..MaxSymbols |-> Greatest(InChain(Bucket(y), y))]
           C == {y \in 1..(n - 1) : k <= y /\ Bucket(y) = b}
           Good == {y \in 0..MaxSymbols : HasSymbol(y, name)}
<1>7. ASSUME NEW y \in 1..n, NEW c \in 0..(Chaining - 1)
      PROVE  /\ Greatest(InChain(c, y)) \in 0..(y - 1)
             /\ InChain(c, y) # {} =>
                    /\ Greatest(InChain(c, y)) \in InChain(c, y)
                    /\ \A l \in InChain(c, y) : l <= Greatest(InChain(c, y))
  <2>1. PICK m \in Nat : m = y - 1
    BY <1>2
  <2>2. InChain(c, y) \subseteq 0..m
    BY <2>1 DEF InChain
  <2> QED
    BY <2>1, <2>2, GreatestIs
<1>8. ASSUME NEW y \in 1..n, InChain(b, y) # {}, \A l \in InChain(b, y) : l <= Greatest(InChain(b, y)),
             k < y, Greatest(InChain(b, y)) \in InChain(b, y)
      PROVE  Greatest(InChain(b, y)) \in C /\ Greatest(InChain(b, y)) < y
  <2>1. PICK g : g = Greatest(InChain(b, y))
    OBVIOUS
  <2>2. k \in InChain(b, y)
    <3>1. k \in 1..(y - 1)
        BY <1>4, <1>8
    <3> QED
        BY <1>6, <3>1 DEF InChain
  <2>3. g \in 1..(y - 1) /\ Bucket(g) = b /\ k <= g
    BY <1>8, <2>1, <2>2 DEF InChain
  <2>4. g \in 1..(n - 1) /\ g < y
    BY <2>3
  <2> QED
    BY <2>1, <2>3, <2>4
<1>9. ASSUME NEW y \in 1..n, k < y
      PROVE  Greatest(InChain(b, y)) \in C /\ Greatest(InChain(b, y)) < y
  <2>1. k \in InChain(b, y)
    <3>1. k \in 1..(y - 1)
        BY <1>4, <1>9
    <3> QED
        BY <1>6, <3>1 DEF InChain
  <2> QED
    BY <1>7, <1>8, <1>9, <2>1
<1>10. ASSUME NEW y \in 0..MaxSymbols, y \notin S
       PROVE  /\ y \in 1..(n - 1) /\ next[y] \in 0..(y - 1)
              /\ next[y] = Greatest(InChain(Bucket(y), y)) /\ next[y] = hash.chains[y]
  <2>1. y # 0 /\ ~(y >= n)
    BY <1>10
  <2>2. y \in 1..(n - 1) /\ y \in 1..n /\ y \in 0..(n - 1)
    BY <1>2, <1>10, <2>1
  <2>3. next[y] = Greatest(InChain(Bucket(y), y))
    OBVIOUS
  <2>4. next[y] \in 0..(y - 1)
    BY <1>5, <1>7, <2>2, <2>3
  <2>5. hash.chains[y] = Greatest(InChain(Bucket(y), y))
    <3>1. hash.chains
            = [l \in 0..(n - 1) |-> IF l = 0 THEN 0 ELSE Greatest(InChain(Bucket(l), l))]
        BY <1>2, SysvIs
    <3> QED
        BY <2>1, <2>2, <3>1
  <2> QED
    BY <2>2, <2>3, <2>4, <2>5
<1>11. PICK w : w = Walk(name)
    OBVIOUS
<1>12. w = [y \in 0..MaxSymbols |->
                   IF HasSymbol(y, name) \/ y = 0 \/ y >= hash.nchain THEN y
                   ELSE w[hash.chains[y]]]
  <2>1. \A y \in 0..MaxSymbols : y \notin S => next[y] \in 0..(y - 1)
    BY <1>10
  <2>2. \A y \in 0..MaxSymbols :
            y \in S <=> HasSymbol(y, name) \/ y = 0 \/ y >= hash.nchain
    BY <1>2, SysvIs
  <2>3. \A y \in 0..MaxSymbols : y \notin S => next[y] = hash.chains[y]
    BY <1>10
  <2> HIDE DEF S, next
  <2>4. PICK f : f = [y \in 0..MaxSymbols |-> IF y \in S THEN y ELSE f[next[y]]]
    <3>1. PICK M, T, down : M = MaxSymbols /\ T = S /\ down = next
        OBVIOUS
    <3>2. M \in Nat /\ Descends(M, T, down)
        BY <1>3, <2>1, <3>1 DEF Descends
    <3>3. PICK f : Walks(f, M, T, down)
        BY <3>2, WalkExists
    <3>4. f = [y \in 0..M |-> IF y \in T THEN y ELSE f[down[y]]]
        BY <3>3 DEF Walks
    <3>5. f = [y \in 0..MaxSymbols |-> IF y \in S THEN y ELSE f[next[y]]]
        BY <3>1, <3>4
    <3> QED
        BY <3>5
  <2>5. f = [y \in 0..MaxSymbols |->
                   IF HasSymbol(y, name) \/ y = 0 \/ y >= hash.nchain THEN y
                   ELSE f[hash.chains[y]]]
    BY <2>2, <2>3, <2>4
  <2> QED
    BY <1>11, <2>5, WalkIs, Zenon
<1>13. \A y \in C : w[y] \in Good
  <2>1. C \subseteq 0..MaxSymbols
    BY <1>2, <1>3
  <2>2. ASSUME NEW y \in C
        PROVE  w[y] = IF y \in S THEN y ELSE w[next[y]]
    <3>1. y \in 0..MaxSymbols
        BY <2>1
    <3>2. w[y] = IF HasSymbol(y, name) \/ y = 0 \/ y >= hash.nchain THEN y
                 ELSE w[hash.chains[y]]
        BY <1>12, <3>1
    <3>3. y \in S <=> HasSymbol(y, name) \/ y = 0 \/ y >= hash.nchain
        BY <1>2, <3>1, SysvIs
    <3>4. y \notin S => next[y] = hash.chains[y]
        BY <1>10, <3>1
    <3> HIDE DEF S, next, C
    <3> QED
        BY <3>2, <3>3, <3>4
  <2>3. ASSUME NEW y \in C, y \in S
        PROVE  y \in Good
    BY <1>2, <1>3, <2>3
  <2>4. ASSUME NEW y \in C, y \notin S
        PROVE  next[y] \in C /\ next[y] < y
    <3>1. y \in 0..MaxSymbols /\ y \in 1..n /\ k <= y /\ Bucket(y) = b
        BY <2>1
    <3>2. k # y
        BY <2>4, <3>1
    <3>3. k < y
        BY <1>4, <3>1, <3>2
    <3>4. Greatest(InChain(b, y)) \in C /\ Greatest(InChain(b, y)) < y
        BY <1>9, <3>1, <3>3
    <3>5. next[y] = Greatest(InChain(b, y))
        BY <1>10, <2>4, <3>1
    <3> HIDE DEF C, next
    <3> QED
        BY <3>4, <3>5
  <2> HIDE DEF S, next, C, Good
  <2>5. \A y \in C : w[y] = IF y \in S THEN y ELSE w[next[y]]
    BY <2>2
  <2>6. \A y \in C : y \in S => y \in Good
    BY <2>3
  <2>7. \A y \in C : y \notin S => next[y] \in C /\ next[y] < y
    BY <2>4
  <2>8. PICK M, T, down, D, G : M = MaxSymbols /\ T = S /\ down = next /\ D = C /\ G = Good
    OBVIOUS
  <2>9. M \in Nat /\ D \subseteq 0..M
    BY <1>3, <2>1, <2>8
  <2>10. StaysIn(w, D, T, down, G)
    BY <2>5, <2>6, <2>7, <2>8 DEF StaysIn
  <2>11. \A y \in D : w[y] \in G
    BY <2>9, <2>10, WalkReaches
  <2> QED
    BY <2>8, <2>11
<1>14. PICK y : y = hash.buckets[elf_hash[name] % Chaining] /\ y \in C
  <2>1. hash.buckets[b] = Greatest(InChain(b, n))
    <3>1. hash.buckets = [c \in 0..(Chaining - 1) |-> Greatest(InChain(c, n))]
        BY <1>2, SysvIs
    <3> QED
        BY <3>1
  <2>2. n \in 1..n /\ k < n
    BY <1>4
  <2>3. Greatest(InChain(b, n)) \in C
    BY <1>9, <2>2
  <2> HIDE DEF C
  <2> QED
    BY <1>6, <2>1, <2>3
<1>15. HasSymbol(w[y], name)
    BY <1>13, <1>14
<1>16. w[y] # 0
    BY <1>1, <1>15, NamedIsNot0
<1>17. hash_lookup(name) = w[y]
    BY <1>11, <1>14, <1>15 DEF hash_lookup
<1> QED
    BY <1>16, <1>17

(* The symbols of the name that gnu_hash_lookup comes to. *)
GnuMatches(name) ==
    LET h == elf_gnu_hash[name]
        start == hash.buckets[h % Chaining]
        Stops == {k \in DOMAIN hash.chains : k >= start /\ hash.chains[k].last}
        reached == {k \in DOMAIN hash.chains : k >= start /\ \A l \in Stops : k <= l}
    IN {k \in reached : hash.chains[k].hash \div 2 = h \div 2 /\ HasSymbol(k, name)}

FilteredOut(name) ==
    \E bit \in Bits(elf_gnu_hash[name]) : <<Word(elf_gnu_hash[name]), bit>> \notin hash.bloom

LEMMA GnuIs ==
    ASSUME NEW name
    PROVE  gnu_hash_lookup(name) =
               IF FilteredOut(name) THEN 0
               ELSE IF hash.buckets[elf_gnu_hash[name] % Chaining] < FirstHashed
                       \/ GnuMatches(name) = {} THEN 0
               ELSE Least(GnuMatches(name))
BY DEF gnu_hash_lookup, GnuMatches, FilteredOut

LEMMA LeastIs ==
    ASSUME NEW S, S \subseteq Nat, S # {}
    PROVE  Least(S) \in S /\ \A l \in S : Least(S) <= l
<1>1. \E e \in S : \A l \in S : e <= l
    BY HasLeast
<1> QED
    BY <1>1, Zenon DEF Least

(* What is found in a GNU table is a symbol of the name; and one is, if the filter lets the
   name pass and a symbol of it is come to. *)
LEMMA GnuRight ==
    ASSUME HashListed, hash.kind = "gnu", NEW name
    PROVE  /\ gnu_hash_lookup(name) # 0 => HasSymbol(gnu_hash_lookup(name), name)
           /\ /\ ~FilteredOut(name) /\ GnuMatches(name) # {}
              /\ ~(hash.buckets[elf_gnu_hash[name] % Chaining] < FirstHashed)
              => gnu_hash_lookup(name) # 0
<1>1. PICK S : S = GnuMatches(name)
    OBVIOUS
<1>2. S \subseteq Nat \ {0} /\ \A k \in S : HasSymbol(k, name)
  <2>1. GnuMatches(name) \subseteq DOMAIN hash.chains
    BY DEF GnuMatches
  <2>2. \A k \in GnuMatches(name) : HasSymbol(k, name)
    BY DEF GnuMatches
  <2> QED
    BY <1>1, <2>1, <2>2 DEF HashListed
<1>3. PICK c : c = Least(S)
    OBVIOUS
<1>4. S # {} => c \in S
  <2>1. S \subseteq Nat
    BY <1>2
  <2> QED
    BY <1>3, <2>1, LeastIs
<1>5. gnu_hash_lookup(name) =
          IF FilteredOut(name) THEN 0
          ELSE IF hash.buckets[elf_gnu_hash[name] % Chaining] < FirstHashed \/ S = {} THEN 0
          ELSE c
    BY <1>1, <1>3, GnuIs
<1> QED
    BY <1>1, <1>2, <1>4, <1>5

GnuHash(k) == elf_gnu_hash[symbols[k + 1].name]
GnuIn(b) == {k \in FirstHashed..(num - 1) : GnuHash(k) % Chaining = b}

LEMMA GnuTableIs ==
    /\ GnuTable(symbols).kind = "gnu"
    /\ GnuTable(symbols).bloom
          = UNION {{<<Word(GnuHash(k)), bit>> : bit \in Bits(GnuHash(k))} :
                      k \in FirstHashed..(num - 1)}
    /\ GnuTable(symbols).buckets
          = [b \in 0..(Chaining - 1) |->
                IF GnuIn(b) = {} THEN 0 ELSE Least(GnuIn(b))]
    /\ GnuTable(symbols).chains
          = [k \in FirstHashed..(num - 1) |->
                [hash |-> GnuHash(k), last |-> \A l \in GnuIn(GnuHash(k) % Chaining) : l <= k]]
BY DEF GnuTable, GnuHash, GnuIn, num

LEMMA GnuFinds ==
    ASSUME SymbolsInv, GnuSorted(symbols), hash = GnuTable(symbols), NEW name \in Names,
           NEW k \in FirstHashed..(num - 1), HasSymbol(k, name)
    PROVE  gnu_hash_lookup(name) # 0
<1>1. SymbolTypes /\ HashListed
    BY DEF SymbolsInv
<1>2. PICK n \in Nat : n = num /\ n = Len(symbols) /\ Numbers = 0..(n - 1)
    BY <1>1, SymbolsAre
<1>3. FirstHashed \in Nat \ {0} /\ Chaining \in Nat \ {0}
    BY TableAssumption
<1>4. PICK h \in Nat : h = GnuHash(k) /\ h = elf_gnu_hash[name]
  <2>1. symbols[k + 1].name = name
    BY DEF HasSymbol, get_symbol
  <2> QED
    BY <2>1, HashAssumption DEF GnuHash
<1>5. PICK b \in 0..(Chaining - 1) : b = h % Chaining
    BY <1>3
<1>6. PICK start : start = hash.buckets[b]
    OBVIOUS
<1>7. GnuIn(b) \subseteq Nat /\ k \in GnuIn(b)
  <2>1. FirstHashed..(num - 1) \subseteq Nat
    BY <1>2, <1>3
  <2> QED
    BY <1>4, <1>5, <2>1 DEF GnuIn
<1>8. start \in GnuIn(b) /\ \A l \in GnuIn(b) : start <= l
  <2>1. hash.buckets
          = [c \in 0..(Chaining - 1) |-> IF GnuIn(c) = {} THEN 0 ELSE Least(GnuIn(c))]
    BY GnuTableIs
  <2>2. start = Least(GnuIn(b))
    BY <1>6, <1>7, <2>1
  <2> QED
    BY <1>7, <2>2, LeastIs
<1>9. DOMAIN hash.chains = FirstHashed..(n - 1)
    BY <1>2, GnuTableIs
<1>10. \A j \in FirstHashed..(n - 1) :
           /\ hash.chains[j].hash = GnuHash(j)
           /\ hash.chains[j].last <=> \A l \in GnuIn(GnuHash(j) % Chaining) : l <= j
  <2>1. hash.chains
          = [j \in FirstHashed..(n - 1) |->
                [hash |-> GnuHash(j), last |-> \A l \in GnuIn(GnuHash(j) % Chaining) : l <= j]]
    BY <1>2, GnuTableIs
  <2> QED
    BY <2>1
<1>11. ~FilteredOut(name)
  <2>1. ASSUME NEW bit \in Bits(h)
        PROVE  <<Word(h), bit>> \in hash.bloom
    <3>1. <<Word(h), bit>> \in {<<Word(GnuHash(k)), x>> : x \in Bits(GnuHash(k))}
        BY <1>4
    <3> QED
        BY <3>1, GnuTableIs
  <2> QED
    BY <1>4, <2>1 DEF FilteredOut
<1>12. start <= k /\ start \in FirstHashed..(n - 1) /\ GnuHash(start) % Chaining = b
  <2>1. start \in FirstHashed..(n - 1) /\ GnuHash(start) % Chaining = b
    BY <1>2, <1>8 DEF GnuIn
  <2> QED
    BY <1>7, <1>8, <2>1
<1>13. k \in FirstHashed..(n - 1) /\ GnuHash(k) % Chaining = b
    BY <1>2, <1>4, <1>5
<1>14. ASSUME NEW l \in FirstHashed..(n - 1), NEW m \in FirstHashed..(n - 1), l < m
       PROVE  GnuHash(l) % Chaining <= GnuHash(m) % Chaining
  <2>1. PICK i, j \in (FirstHashed + 1)..Len(symbols) : i = l + 1 /\ j = m + 1
    BY <1>2, <1>3
  <2>2. i < j
    BY <1>2, <1>3, <1>14, <2>1
  <2>3. elf_gnu_hash[symbols[i].name] % Chaining <= elf_gnu_hash[symbols[j].name] % Chaining
    BY <2>1, <2>2 DEF GnuSorted
  <2> QED
    BY <2>1, <2>3 DEF GnuHash
<1>15. \A l \in FirstHashed..(n - 1) : GnuHash(l) % Chaining \in Int
  <2> SUFFICES ASSUME NEW l \in FirstHashed..(n - 1) PROVE GnuHash(l) % Chaining \in Int
    OBVIOUS
  <2>1. l \in Numbers /\ l # 0
    BY <1>2, <1>3
  <2>2. GnuHash(l) \in Nat
    BY <1>1, <2>1, HashIsNat DEF GnuHash
  <2> QED
    BY <1>3, <2>2
<1>16. ASSUME NEW l \in FirstHashed..(n - 1), l >= start, hash.chains[l].last
       PROVE  k <= l
  <2>1. l \in Int /\ k \in Int /\ start \in Int
    BY <1>2, <1>3, <1>12, <1>13
  <2>2. CASE l < k
    <3>1. GnuHash(l) % Chaining <= b
        BY <1>13, <1>14, <2>2
    <3>2. b <= GnuHash(l) % Chaining
      <4>1. CASE start = l
        BY <1>12, <1>15, <4>1
      <4>2. CASE start # l
        <5>1. start < l
            BY <1>16, <2>1, <4>2
        <5> QED
            BY <1>12, <1>14, <5>1
      <4> QED
        BY <4>1, <4>2
    <3>3. GnuHash(l) % Chaining = b
        BY <1>15, <3>1, <3>2
    <3> QED
        BY <1>7, <1>10, <1>16, <3>3
  <2>3. CASE ~(l < k)
    BY <2>1, <2>3
  <2> QED
    BY <2>2, <2>3
<1>17. k \in GnuMatches(name)
  <2>1. k >= start /\ k \in DOMAIN hash.chains
    BY <1>2, <1>3, <1>9, <1>12, <1>13
  <2>2. \A l \in DOMAIN hash.chains : l >= start /\ hash.chains[l].last => k <= l
    BY <1>9, <1>16
  <2>3. hash.chains[k].hash = elf_gnu_hash[name]
    BY <1>4, <1>10, <1>13
  <2>4. start = hash.buckets[elf_gnu_hash[name] % Chaining]
    BY <1>4, <1>5, <1>6
  <2> QED
    BY <2>1, <2>2, <2>3, <2>4 DEF GnuMatches
<1>18. ~(start < FirstHashed)
    BY <1>2, <1>3, <1>12
<1>19. hash.kind = "gnu"
    BY GnuTableIs
<1> QED
    BY <1>1, <1>4, <1>5, <1>6, <1>11, <1>17, <1>18, <1>19, GnuRight

(* What a hash table finds is a symbol of the name, be the table as old as it may. *)
LEMMA HashedRight ==
    ASSUME SymbolsInv, NEW name \in Names, Hashed(name) # 0
    PROVE  HasSymbol(Hashed(name), name)
<1>1. HashListed
    BY DEF SymbolsInv
<1>2. CASE hash.kind = "none"
    BY <1>2 DEF Hashed
<1>3. CASE hash.kind = "sysv"
  <2>1. Hashed(name) = hash_lookup(name)
    BY <1>3 DEF Hashed
  <2> QED
    BY <2>1 DEF hash_lookup
<1>4. CASE hash.kind = "gnu"
  <2>1. Hashed(name) = gnu_hash_lookup(name)
    BY <1>4 DEF Hashed
  <2> QED
    BY <1>1, <1>4, <2>1, GnuRight
<1> QED
    BY <1>1, <1>2, <1>3, <1>4 DEF HashListed

LEMMA FreshFinds ==
    ASSUME SymbolsInv, NEW name \in Names,
           NEW k \in (IF hash.kind = "gnu" THEN FirstHashed ELSE 1)..(num - 1), HasSymbol(k, name),
           \/ hash.kind = "sysv" /\ hash = SysvTable(symbols)
           \/ hash.kind = "gnu" /\ GnuSorted(symbols) /\ hash = GnuTable(symbols)
    PROVE  Hashed(name) # 0
<1>1. CASE hash.kind = "sysv" /\ hash = SysvTable(symbols)
  <2>1. k \in Numbers
    BY DEF HasSymbol
  <2>2. hash_lookup(name) # 0
    BY <1>1, <2>1, SysvFinds
  <2> QED
    BY <1>1, <2>2 DEF Hashed
<1>2. CASE hash.kind = "gnu" /\ GnuSorted(symbols) /\ hash = GnuTable(symbols)
  <2>1. k \in FirstHashed..(num - 1)
    BY <1>2
  <2>2. gnu_hash_lookup(name) # 0
    BY <1>2, <2>1, GnuFinds
  <2> QED
    BY <1>2, <2>2 DEF Hashed
<1> QED
    BY <1>1, <1>2

LEMMA LookupRight ==
    ASSUME SymbolsInv, NEW name \in Names
    PROVE  /\ (\E k \in Numbers : HasSymbol(k, name)) => HasSymbol(Lookup(name), name)
           /\ Lookup(name) # 0 => HasSymbol(Lookup(name), name)
<1> DEFINE found == {k \in Numbers : HasSymbol(k, name)}
<1>1. found \subseteq Nat
  <2>1. SymbolTypes
    BY DEF SymbolsInv
  <2>2. PICK n \in Nat : Numbers = 0..(n - 1)
    BY <2>1, SymbolsAre
  <2> QED
    BY <2>2
<1>2. CASE Hashed(name) # 0
  <2>1. Lookup(name) = Hashed(name)
    BY <1>2 DEF Lookup
  <2> QED
    BY <1>2, <2>1, HashedRight
<1>3. CASE Hashed(name) = 0 /\ found = {}
  <2>1. Lookup(name) = 0
    BY <1>3 DEF Lookup
  <2> QED
    BY <1>3, <2>1
<1>4. CASE Hashed(name) = 0 /\ found # {}
  <2>1. Lookup(name) = Least(found)
    BY <1>4 DEF Lookup
  <2>2. Least(found) \in found
    <3> HIDE DEF found
    <3> QED
        BY <1>1, <1>4, LeastIs
  <2> QED
    BY <2>1, <2>2
<1> QED
    BY <1>2, <1>3, <1>4

(* For any names and hashes, and symbols added and moved after a hash table was written: a
   name is found if and only if a symbol has it, and then one that has it; in a table that
   is up to date, without a look at all symbols. *)
THEOREM NamesAreFound == Spec => []LookupFindsName
<1>1. SymbolsInv => LookupFindsName
  <2> SUFFICES ASSUME SymbolsInv, NEW name \in Names
               PROVE  /\ HasSymbol(Lookup(name), name) <=> \E k \in Numbers : HasSymbol(k, name)
                      /\ Lookup(name) # 0 => HasSymbol(Lookup(name), name)
                      /\ LET listed == IF hash.kind = "gnu" THEN FirstHashed ELSE 1
                             fresh == \/ hash.kind = "sysv" /\ hash = SysvTable(symbols)
                                      \/ /\ hash.kind = "gnu" /\ GnuSorted(symbols)
                                         /\ hash = GnuTable(symbols)
                         IN fresh /\ (\E k \in listed..(num - 1) : HasSymbol(k, name))
                                => Hashed(name) # 0
    BY DEF LookupFindsName
  <2>1. HasSymbol(Lookup(name), name) => \E k \in Numbers : HasSymbol(k, name)
    BY DEF HasSymbol
  <2>2. /\ (\E k \in Numbers : HasSymbol(k, name)) => HasSymbol(Lookup(name), name)
        /\ Lookup(name) # 0 => HasSymbol(Lookup(name), name)
    BY LookupRight
  <2> QED
    BY <2>1, <2>2, FreshFinds
<1> QED
    BY <1>1, SymbolsInvariant, PTL

-----------------------------------------------------------------------------
(* The tables: numbers *)

(* Induction over a set of numbers, in place of an operator. *)
LEMMA AllNumbers ==
    ASSUME NEW P, 0 \in P, \A n \in Nat : n \in P => n + 1 \in P
    PROVE  \A n \in Nat : n \in P
<1> DEFINE Bad == Nat \ P
<1>1. SUFFICES ASSUME Bad # {} PROVE FALSE
    OBVIOUS
<1>2. PICK e \in Bad : \A l \in Bad : e <= l
    <2>1. Bad \subseteq Nat
        OBVIOUS
    <2> HIDE DEF Bad
    <2> QED
        BY <1>1, <2>1, HasLeast
<1>3. e \in Nat /\ e \notin P /\ e # 0
    BY <1>2
<1>4. e - 1 \in Nat /\ ~(e <= e - 1) /\ (e - 1) + 1 = e
    BY <1>3
<1>5. e - 1 \in P
    BY <1>2, <1>4
<1> QED
    BY <1>3, <1>4, <1>5

LEMMA LowestIs ==
    ASSUME NEW T, T \subseteq Nat, T # {}
    PROVE  Lowest(T) \in T /\ \A l \in T : Lowest(T) <= l
BY HasLeast DEF Lowest

-----------------------------------------------------------------------------
(* The tables: the dynamic section *)

(* The provers do not know that a string as it is written is in STRING. *)
Text    == STRING \cup {"", NoString}
DynType == [tag : STRING \cup StringTags, value : Nat]
AskedType == [entry : DynType, string : Text]

DynamicTypes ==
    /\ dynamic \in [data : Seq(DynType), size : Nat, sized : BOOLEAN, num : Nat]
    /\ Len(dynamic.data) <= dynamic.size
    /\ strtab \in Seq(STRING) /\ verneed.chain \in Seq(STRING)
    /\ \A k \in DOMAIN dynamic.data :
           dynamic.data[k].tag = "VERNEEDNUM" => dynamic.data[k].value = Len(verneed.chain)

DynamicHeld ==
    /\ dynamic.size = Len(dynamic.data)
    /\ asked.entries \in Seq(AskedType)
    /\ Len(asked.entries) = Len(dynamic.data)
    /\ \A k \in DOMAIN dynamic.data :
           /\ Bare(dynamic.data[k]) = asked.entries[k].entry
           /\ asked.entries[k].string \in {NoString, DynString(strtab, asked.entries[k].entry)}

LEMMA BareIs ==
    ASSUME NEW e \in DynType
    PROVE  /\ Bare(e) \in DynType /\ Bare(e).tag = e.tag
           /\ e.tag = "VERNEEDNUM" => Bare(e).value = e.value
           /\ e.tag \in StringTags => Bare(e) = e
           /\ Bare(Bare(e)) = Bare(e)
<1>1. /\ e.tag \in STRING \cup StringTags /\ e.value \in Nat
      /\ [e EXCEPT !.value = 0] = [tag |-> e.tag, value |-> 0]
    BY DEF DynType
<1>2. CASE e.tag \in BareTags
    <2>1. Bare(e) = [tag |-> e.tag, value |-> 0]
        BY <1>1, <1>2 DEF Bare
    <2>2. Bare(e) \in DynType /\ Bare(e).tag = e.tag /\ Bare(e).value = 0
        BY <1>1, <2>1 DEF DynType
    <2>3. [Bare(e) EXCEPT !.value = 0] = Bare(e)
        BY <2>1
    <2>4. e.tag # "VERNEEDNUM" /\ e.tag \notin StringTags
        BY <1>2 DEF BareTags, StringTags
    <2>5. Bare(Bare(e)) = Bare(e)
        BY <2>2, <2>3 DEF Bare
    <2> QED
        BY <2>2, <2>4, <2>5
<1>3. CASE e.tag \notin BareTags
    BY <1>3 DEF Bare
<1> QED
    BY <1>2, <1>3

(* Where the entries end. *)
Ends(d) == {k \in 1..d.size : DynEntry(d, k).tag = "NULL"}

LEMMA CountIs ==
    ASSUME NEW d, d.size \in Nat, d.sized \in BOOLEAN
    PROVE  /\ DynCount(d) \in 0..d.size
           /\ ~d.sized => DynCount(d) = 0
           /\ d.sized /\ Ends(d) = {} => DynCount(d) = d.size
           /\ d.sized /\ Ends(d) # {} => /\ DynCount(d) \in Ends(d)
                                         /\ \A l \in Ends(d) : DynCount(d) <= l
<1>1. DynCount(d) = IF ~d.sized THEN 0 ELSE IF Ends(d) = {} THEN d.size ELSE Lowest(Ends(d))
    BY DEF DynCount, Ends
<1>2. Ends(d) \subseteq 1..d.size /\ Ends(d) \subseteq Nat
    BY DEF Ends
<1>3. Ends(d) # {} => Lowest(Ends(d)) \in Ends(d) /\ \A l \in Ends(d) : Lowest(Ends(d)) <= l
    BY <1>2, LowestIs
<1> QED
    BY <1>1, <1>2, <1>3

(* An entry more does not make the count smaller. *)
LEMMA CountGrows ==
    ASSUME NEW d, NEW h, d.size \in Nat, d.sized \in BOOLEAN,
           h.size = d.size + 1, h.sized = d.sized,
           \A k \in 1..d.size : DynEntry(h, k) = DynEntry(d, k)
    PROVE  DynCount(d) <= DynCount(h)
<1>1. h.size \in Nat /\ h.sized \in BOOLEAN
    OBVIOUS
<1>2. /\ DynCount(d) \in 0..d.size /\ DynCount(h) \in 0..h.size
      /\ d.sized /\ Ends(d) # {} => \A l \in Ends(d) : DynCount(d) <= l
      /\ d.sized /\ Ends(h) # {} => DynCount(h) \in Ends(h)
      /\ ~d.sized => DynCount(d) = 0
      /\ d.sized /\ Ends(h) = {} => DynCount(h) = h.size
    <2>1. /\ DynCount(d) \in 0..d.size
          /\ d.sized /\ Ends(d) # {} => \A l \in Ends(d) : DynCount(d) <= l
          /\ ~d.sized => DynCount(d) = 0
        BY CountIs
    <2>2. /\ DynCount(h) \in 0..h.size
          /\ h.sized /\ Ends(h) # {} => DynCount(h) \in Ends(h)
          /\ h.sized /\ Ends(h) = {} => DynCount(h) = h.size
        BY <1>1, CountIs
    <2> QED
        BY <2>1, <2>2
<1>3. CASE ~d.sized
    BY <1>2, <1>3
<1>4. CASE d.sized /\ Ends(h) = {}
    BY <1>2, <1>4
<1>5. CASE d.sized /\ Ends(h) # {}
    <2>1. DynCount(h) \in Ends(h)
        BY <1>2, <1>5
    <2>2. CASE DynCount(h) <= d.size
        <3>1. DynCount(h) \in Ends(d)
            BY <2>1, <2>2 DEF Ends
        <3> QED
            BY <1>2, <1>5, <3>1
    <2>3. CASE ~(DynCount(h) <= d.size)
        BY <1>2, <2>3
    <2> QED
        BY <2>2, <2>3
<1> QED
    BY <1>3, <1>4, <1>5

LEMMA StringStays ==
    ASSUME NEW e \in DynType, NEW s, strtab \in Seq(STRING), NEW str \in STRING,
           strtab' = strtab \/ strtab' = Append(strtab, str),
           s \in {NoString, DynString(strtab, e)}
    PROVE  s \in {NoString, DynString(strtab', e)}
<1>1. CASE e.tag \notin StringTags
    BY <1>1 DEF DynString
<1>2. CASE e.tag \in StringTags /\ strtab' = Append(strtab, str)
    <2>1. /\ Len(strtab) \in Nat /\ DOMAIN strtab = 1..Len(strtab)
          /\ DOMAIN strtab' = 1..(Len(strtab) + 1) /\ strtab' # << >>
          /\ \A k \in DOMAIN strtab : strtab'[k] = strtab[k]
        BY <1>2
    <2>2. CASE e.value = 0 /\ strtab # << >>
        BY <1>2, <2>1, <2>2 DEF DynString
    <2>3. CASE e.value \in DOMAIN strtab
        <3>1. e.value # 0 /\ e.value \in DOMAIN strtab'
            BY <2>1, <2>3
        <3> QED
            BY <1>2, <2>1, <2>3, <3>1 DEF DynString
    <2>4. CASE ~(e.value = 0 /\ strtab # << >>) /\ e.value \notin DOMAIN strtab
        <3>1. DynString(strtab, e) = NoString
            BY <1>2, <2>4 DEF DynString
        <3> QED
            BY <3>1
    <2> QED
        BY <2>2, <2>3, <2>4
<1>3. CASE strtab' = strtab
    BY <1>3 DEF DynString
<1> QED
    BY <1>1, <1>2, <1>3

LEMMA DynStringIs ==
    ASSUME NEW e \in DynType, NEW strings \in Seq(STRING)
    PROVE  DynString(strings, e) \in Text /\ DynString(strings, Bare(e)) = DynString(strings, e)
<1>1. DynString(strings, e) \in Text
    <2>1. \A k \in DOMAIN strings : strings[k] \in Text
        <3>1. \A k \in DOMAIN strings : strings[k] \in STRING
            OBVIOUS
        <3> QED
            BY <3>1 DEF Text
    <2>2. CASE e.tag \notin StringTags
        BY <2>2 DEF DynString, Text
    <2>3. CASE e.tag \in StringTags /\ e.value = 0 /\ strings # << >>
        BY <2>3 DEF DynString, Text
    <2>4. CASE e.tag \in StringTags /\ ~(e.value = 0 /\ strings # << >>) /\ e.value \in DOMAIN strings
        BY <2>1, <2>4 DEF DynString
    <2>5. CASE e.tag \in StringTags /\ ~(e.value = 0 /\ strings # << >>) /\ e.value \notin DOMAIN strings
        BY <2>5 DEF DynString, Text
    <2> QED
        BY <2>2, <2>3, <2>4, <2>5
<1>2. DynString(strings, Bare(e)) = DynString(strings, e)
    <2>1. Bare(e).tag = e.tag /\ (e.tag \in StringTags => Bare(e) = e)
        BY BareIs
    <2>2. CASE e.tag \in StringTags
        BY <2>1, <2>2
    <2>3. CASE e.tag \notin StringTags
        BY <2>1, <2>3 DEF DynString
    <2> QED
        BY <2>2, <2>3
<1> QED
    BY <1>1, <1>2

(* What an entry more does to the section. *)
LEMMA DynamicWithIs ==
    ASSUME DynamicTypes, NEW e \in DynType, NEW h, h = DynamicWith(e)
    PROVE  /\ h \in [data : Seq(DynType), size : Nat, sized : BOOLEAN, num : Nat]
           /\ Len(h.data) <= h.size
           /\ h.num = dynamic.num /\ h.sized = dynamic.sized
           /\ DynCount(dynamic) <= DynCount(h)
           /\ h = dynamic \/ (h.size = dynamic.size + 1 /\ h.data = Append(dynamic.data, Bare(e)))
           /\ dynamic.size = Len(dynamic.data) =>
                  h.size = dynamic.size + 1 /\ h.data = Append(dynamic.data, Bare(e))
<1>1. /\ dynamic \in [data : Seq(DynType), size : Nat, sized : BOOLEAN, num : Nat]
      /\ Len(dynamic.data) <= dynamic.size /\ Len(dynamic.data) \in Nat
      /\ dynamic.size \in Nat /\ dynamic.sized \in BOOLEAN
    BY DEF DynamicTypes
<1>2. CASE dynamic.size > Len(dynamic.data)
    <2>1. h = dynamic
        BY <1>2 DEF DynamicWith
    <2>2. DynCount(dynamic) \in Nat
        BY <1>1, CountIs
    <2> QED
        BY <1>1, <1>2, <2>1, <2>2
<1>3. CASE ~(dynamic.size > Len(dynamic.data))
    <2>1. dynamic.size = Len(dynamic.data)
        BY <1>1, <1>3
    <2>2. Bare(e) \in DynType
        BY BareIs
    <2>3. h = [dynamic EXCEPT !.data = Append(@, Bare(e)), !.size = @ + 1]
        BY <1>3 DEF DynamicWith
    <2>4. /\ h.data = Append(dynamic.data, Bare(e)) /\ h.size = dynamic.size + 1
          /\ h.sized = dynamic.sized /\ h.num = dynamic.num
          /\ h \in [data : Seq(DynType), size : Nat, sized : BOOLEAN, num : Nat]
        <3>1. /\ h.data = Append(dynamic.data, Bare(e)) /\ h.size = dynamic.size + 1
              /\ h.sized = dynamic.sized /\ h.num = dynamic.num
            BY <1>1, <2>3
        <3>2. Append(dynamic.data, Bare(e)) \in Seq(DynType)
            BY <1>1, <2>2
        <3>3. dynamic.size + 1 \in Nat
            BY <1>1
        <3>4. h \in [data : Seq(DynType), size : Nat, sized : BOOLEAN, num : Nat]
            BY <1>1, <2>3, <3>2, <3>3
        <3> QED
            BY <3>1, <3>4
    <2>5. \A k \in 1..dynamic.size : DynEntry(h, k) = DynEntry(dynamic, k)
        <3>1. /\ DOMAIN dynamic.data = 1..dynamic.size
              /\ \A k \in 1..dynamic.size : k \in DOMAIN h.data /\ h.data[k] = dynamic.data[k]
            BY <1>1, <2>1, <2>2, <2>4
        <3> QED
            BY <3>1 DEF DynEntry
    <2>6. DynCount(dynamic) <= DynCount(h)
        BY <1>1, <2>4, <2>5, CountGrows
    <2>7. Len(h.data) = h.size
        BY <1>1, <2>1, <2>2, <2>4
    <2> QED
        BY <2>1, <2>4, <2>6, <2>7
<1> QED
    BY <1>2, <1>3

LEMMA DynamicAdded ==
    ASSUME DynamicTypes, NEW e \in DynType, e.tag # "VERNEEDNUM", NEW str \in STRING,
           dynamic' = DynamicWith(e), verneed' = verneed,
           strtab' = strtab \/ strtab' = Append(strtab, str)
    PROVE  /\ DynamicTypes'
           /\ dynamic.num <= DynCount(dynamic) => dynamic'.num <= DynCount(dynamic')
<1>1. /\ dynamic' \in [data : Seq(DynType), size : Nat, sized : BOOLEAN, num : Nat]
      /\ Len(dynamic'.data) <= dynamic'.size
      /\ dynamic'.num = dynamic.num /\ dynamic'.sized = dynamic.sized
      /\ DynCount(dynamic) <= DynCount(dynamic')
      /\ dynamic' = dynamic \/ dynamic'.data = Append(dynamic.data, Bare(e))
    BY DynamicWithIs
<1>2. /\ dynamic.data \in Seq(DynType) /\ dynamic.size \in Nat /\ dynamic.num \in Nat
      /\ dynamic.sized \in BOOLEAN /\ dynamic'.size \in Nat
    BY <1>1 DEF DynamicTypes
<1>3. Bare(e) \in DynType /\ Bare(e).tag # "VERNEEDNUM"
    BY BareIs
<1>4. \A k \in DOMAIN dynamic'.data : \/ k \in DOMAIN dynamic.data /\ dynamic'.data[k] = dynamic.data[k]
                                      \/ dynamic'.data[k] = Bare(e)
    <2>1. CASE dynamic' = dynamic
        BY <2>1
    <2>2. CASE dynamic'.data = Append(dynamic.data, Bare(e))
        <3>1. /\ DOMAIN dynamic'.data = 1..(Len(dynamic.data) + 1)
              /\ DOMAIN dynamic.data = 1..Len(dynamic.data) /\ Len(dynamic.data) \in Nat
              /\ \A k \in 1..Len(dynamic.data) : dynamic'.data[k] = dynamic.data[k]
              /\ dynamic'.data[Len(dynamic.data) + 1] = Bare(e)
            BY <1>2, <1>3, <2>2
        <3> QED
            BY <3>1
    <2> QED
        BY <1>1, <2>1, <2>2
<1>5. strtab' \in Seq(STRING) /\ verneed'.chain \in Seq(STRING)
    <2>1. strtab \in Seq(STRING) /\ verneed.chain \in Seq(STRING)
        BY DEF DynamicTypes
    <2>2. CASE strtab' = Append(strtab, str)
        BY <2>1, <2>2
    <2>3. CASE strtab' = strtab
        BY <2>1, <2>3
    <2> QED
        BY <2>1, <2>2, <2>3
<1>6. DynamicTypes'
    BY <1>1, <1>3, <1>4, <1>5 DEF DynamicTypes
<1>7. DynCount(dynamic) \in Nat /\ DynCount(dynamic') \in Nat
    BY <1>1, <1>2, CountIs
<1> QED
    BY <1>1, <1>2, <1>6, <1>7

LEMMA DynamicHolds ==
    ASSUME DynamicTypes, DynamicHeld, NEW e \in DynType, NEW str \in STRING, NEW s \in Text,
           dynamic' = DynamicWith(e),
           strtab' = strtab \/ strtab' = Append(strtab, str),
           asked'.entries = Append(asked.entries, [entry |-> Bare(e), string |-> s]),
           s = DynString(strtab', Bare(e))
    PROVE  DynamicHeld'
<1>1. /\ dynamic.data \in Seq(DynType) /\ Len(dynamic.data) \in Nat
      /\ DOMAIN dynamic.data = 1..Len(dynamic.data) /\ strtab \in Seq(STRING)
    BY DEF DynamicTypes
<1>2. Bare(e) \in DynType
    BY BareIs
<1>3. dynamic'.size = dynamic.size + 1 /\ dynamic'.data = Append(dynamic.data, Bare(e))
    BY DynamicWithIs DEF DynamicHeld
<1>4. /\ Len(dynamic'.data) = Len(dynamic.data) + 1 /\ dynamic'.size = Len(dynamic'.data)
      /\ DOMAIN dynamic'.data = 1..(Len(dynamic.data) + 1)
      /\ \A k \in 1..Len(dynamic.data) : dynamic'.data[k] = dynamic.data[k]
      /\ dynamic'.data[Len(dynamic.data) + 1] = Bare(e)
    BY <1>1, <1>2, <1>3 DEF DynamicHeld
<1>5. /\ asked.entries \in Seq(AskedType) /\ Len(asked.entries) = Len(dynamic.data)
      /\ asked'.entries \in Seq(AskedType)
      /\ Len(asked'.entries) = Len(dynamic.data) + 1
      /\ \A k \in 1..Len(dynamic.data) : /\ asked'.entries[k] = asked.entries[k]
                                         /\ asked.entries[k].entry \in DynType
      /\ asked'.entries[Len(dynamic.data) + 1] = [entry |-> Bare(e), string |-> s]
    <2>1. /\ asked.entries \in Seq(AskedType) /\ Len(asked.entries) = Len(dynamic.data)
          /\ [entry |-> Bare(e), string |-> s] \in AskedType
        BY <1>2 DEF DynamicHeld, AskedType
    <2>2. \A k \in 1..Len(dynamic.data) : asked.entries[k] \in AskedType
        BY <2>1
    <2> QED
        BY <1>1, <2>1, <2>2 DEF AskedType
<1>6. ASSUME NEW k \in 1..(Len(dynamic.data) + 1)
      PROVE  /\ Bare(dynamic'.data[k]) = asked'.entries[k].entry
             /\ asked'.entries[k].string \in {NoString, DynString(strtab', asked'.entries[k].entry)}
    <2>1. CASE k \in 1..Len(dynamic.data)
        <3>1. /\ Bare(dynamic.data[k]) = asked.entries[k].entry
              /\ asked.entries[k].string \in {NoString, DynString(strtab, asked.entries[k].entry)}
            BY <1>1, <2>1 DEF DynamicHeld
        <3>2. PICK held \in DynType : held = asked.entries[k].entry
            BY <1>5, <2>1
        <3>3. asked.entries[k].string \in {NoString, DynString(strtab, held)}
            BY <3>1, <3>2
        <3>4. asked.entries[k].string \in {NoString, DynString(strtab', held)}
            BY <1>1, <3>3, StringStays
        <3> QED
            BY <1>4, <1>5, <2>1, <3>1, <3>2, <3>4
    <2>2. CASE k = Len(dynamic.data) + 1
        <3>1. dynamic'.data[k] = Bare(e) /\ asked'.entries[k] = [entry |-> Bare(e), string |-> s]
            BY <1>4, <1>5, <2>2
        <3>2. Bare(Bare(e)) = Bare(e)
            BY BareIs
        <3>3. Bare(dynamic'.data[k]) = Bare(e)
            BY <3>1, <3>2
        <3>4. asked'.entries[k].entry = Bare(e) /\ asked'.entries[k].string = s
            BY <1>5, <2>2
        <3> QED
            BY <3>3, <3>4
    <2>3. k \in 1..Len(dynamic.data) \/ k = Len(dynamic.data) + 1
        <3>1. Len(dynamic.data) \in Nat
            BY <1>1
        <3> DEFINE n == Len(dynamic.data)
        <3>2. k \in 1..(n + 1) /\ n \in Nat
            BY <3>1
        <3> HIDE DEF n
        <3>3. k \in 1..n \/ k = n + 1
            BY <3>2
        <3> QED
            BY <3>3 DEF n
    <2> QED
        BY <2>1, <2>2, <2>3, Zenon
<1> QED
    BY <1>4, <1>5, <1>6 DEF DynamicHeld

LEMMA NeedIs ==
    ASSUME NEW d, NEW n \in Nat,
           d.data \in Seq(DynType), d.size \in Nat, d.sized \in BOOLEAN,
           \A k \in DOMAIN d.data : d.data[k].tag = "VERNEEDNUM" => d.data[k].value = n
    PROVE  NeedNum(d) \in {0, n}
<1> DEFINE found == {k \in 1..DynCount(d) : DynEntry(d, k).tag = "VERNEEDNUM"}
<1>1. DynCount(d) \in Nat
    BY CountIs
<1>2. CASE found = {}
    BY <1>2 DEF NeedNum
<1>3. CASE found # {}
    <2>1. Lowest(found) \in found
        <3>1. found \subseteq Nat
            BY <1>1
        <3> HIDE DEF found
        <3> QED
            BY <1>3, <3>1, LowestIs
    <2>2. PICK k \in 1..DynCount(d) : k = Lowest(found) /\ DynEntry(d, k).tag = "VERNEEDNUM"
        BY <1>1, <2>1
    <2>3. k \in DOMAIN d.data
        BY <2>2 DEF DynEntry
    <2>4. d.data[k] \in DynType /\ DynEntry(d, k) = Bare(d.data[k])
        BY <2>3 DEF DynEntry
    <2>5. d.data[k].tag = "VERNEEDNUM" /\ Bare(d.data[k]).value = d.data[k].value
        BY <2>2, <2>4, BareIs
    <2>6. DynEntry(d, k).value = n
        BY <2>3, <2>4, <2>5
    <2> QED
        BY <1>3, <2>2, <2>6 DEF NeedNum
<1> QED
    BY <1>2, <1>3

LEMMA NeedReads ==
    ASSUME verneed.chain \in Seq(STRING), verneed.num \in {0, Len(verneed.chain)}
    PROVE  {NeedEntry(no) : no \in 0..(verneed.num - 1)} \in {{}, Range(verneed.chain)}
<1> DEFINE n == Len(verneed.chain)
           read == {NeedEntry(no) : no \in 0..(verneed.num - 1)}
<1>1. n \in Nat /\ DOMAIN verneed.chain = 1..n
    OBVIOUS
<1>2. CASE verneed.num = 0
    <2>1. 0..(verneed.num - 1) = {}
        BY <1>2
    <2> QED
        BY <2>1
<1>3. CASE verneed.num = n
    <2>1. \A no \in 0..(verneed.num - 1) : no + 1 \in 1..n /\ NeedEntry(no) = verneed.chain[no + 1]
        BY <1>1, <1>3 DEF NeedEntry
    <2>2. \A k \in 1..n : k - 1 \in 0..(verneed.num - 1) /\ NeedEntry(k - 1) = verneed.chain[k]
        BY <1>1, <1>3 DEF NeedEntry
    <2>3. \A x : x \in read <=> \E k \in 1..n : x = verneed.chain[k]
        <3>1. ASSUME NEW x \in read PROVE \E k \in 1..n : x = verneed.chain[k]
            <4>1. PICK no \in 0..(verneed.num - 1) : x = NeedEntry(no)
                OBVIOUS
            <4> HIDE DEF n
            <4> QED
                BY <2>1, <4>1
        <3>2. ASSUME NEW k \in 1..n PROVE verneed.chain[k] \in read
            BY <2>2
        <3> QED
            BY <3>1, <3>2
    <2>4. \A x : x \in Range(verneed.chain) <=> \E k \in 1..n : x = verneed.chain[k]
        BY <1>1 DEF Range
    <2>5. read = Range(verneed.chain)
        <3> HIDE DEF read, n
        <3> QED
            BY <2>3, <2>4
    <2> QED
        BY <2>5
<1> QED
    BY <1>2, <1>3

(* What was asked for is read. *)
LEMMA DynamicReads ==
    ASSUME DynamicTypes, DynamicHeld, dynamic.sized
    PROVE  /\ DynCount(dynamic) = Len(Listed)
           /\ \A k \in DOMAIN Listed :
                  /\ Listed[k].entry = DynEntry(dynamic, k)
                  /\ Listed[k].string \in {NoString, DynString(strtab, DynEntry(dynamic, k))}
<1> DEFINE n == Len(dynamic.data)
           ends == {k \in DOMAIN asked.entries : asked.entries[k].entry.tag = "NULL"}
<1>1. /\ n \in Nat /\ DOMAIN dynamic.data = 1..n /\ dynamic.size = n /\ dynamic.size \in Nat
      /\ asked.entries \in Seq(AskedType) /\ DOMAIN asked.entries = 1..n
      /\ Len(asked.entries) = n /\ dynamic.sized \in BOOLEAN
    BY DEF DynamicTypes, DynamicHeld
<1>2. \A k \in 1..n : /\ asked.entries[k].entry = DynEntry(dynamic, k)
                      /\ asked.entries[k].string \in {NoString, DynString(strtab, DynEntry(dynamic, k))}
    BY <1>1 DEF DynamicHeld, DynEntry
<1>3. ends = Ends(dynamic)
    BY <1>1, <1>2 DEF Ends
<1>4. Listed = IF ends = {} THEN asked.entries ELSE SubSeq(asked.entries, 1, Lowest(ends))
    BY DEF Listed
<1>5. DynCount(dynamic) = IF ends = {} THEN n ELSE Lowest(ends)
    BY <1>1, <1>3 DEF DynCount, Ends
<1> HIDE DEF ends, n
<1>6. CASE ends = {}
    BY <1>1, <1>2, <1>4, <1>5, <1>6
<1>7. CASE ends # {}
    <2>1. Lowest(ends) \in 1..n
        <3>1. Ends(dynamic) \subseteq 1..n /\ Ends(dynamic) \subseteq Nat
            BY <1>1 DEF Ends
        <3> QED
            BY <1>3, <1>7, <3>1, LowestIs
    <2>2. PICK m \in 1..n : m = Lowest(ends)
        BY <2>1
    <2>3. Listed = SubSeq(asked.entries, 1, m) /\ DynCount(dynamic) = m
        BY <1>4, <1>5, <1>7, <2>2
    <2>4. /\ Len(Listed) = m /\ DOMAIN Listed = 1..m
          /\ \A k \in 1..m : Listed[k] = asked.entries[k] /\ k \in 1..n
        BY <1>1, <2>2, <2>3
    <2> QED
        BY <1>2, <2>3, <2>4
<1> QED
    BY <1>6, <1>7

-----------------------------------------------------------------------------
(* The tables: notes *)

(* The notes of list lie one behind the other, at the places of starts. *)
Strung(at, size, starts, list) ==
    /\ size \in Nat
    /\ list \in Seq(NoteHeader) /\ starts \in Seq(Nat) /\ Len(starts) = Len(list)
    /\ IF starts = << >> THEN size = 0 ELSE starts[1] = 0
    /\ \A j \in 1..Len(list) :
           /\ starts[j] + NoteSize(list[j]) <= size
           /\ starts[j] + NoteSize(list[j]) =
                  IF j = Len(list) THEN size ELSE starts[j + 1]
           /\ at[starts[j]] = list[j]
    /\ \A p : p \in DOMAIN at <=> \E j \in 1..Len(list) : p = starts[j]

LEMMA PadIs ==
    ASSUME NEW n \in Nat
    PROVE  Pad(n) \in Nat /\ n <= Pad(n)
<1>1. PICK q \in Nat, r \in 0..3 : n + 3 = 4 * q + r /\ q = (n + 3) \div 4
    <2>1. (n + 3) \div 4 \in Nat /\ (n + 3) % 4 \in 0..3
          /\ n + 3 = 4 * ((n + 3) \div 4) + ((n + 3) % 4)
        OBVIOUS
    <2> QED
        BY <2>1
<1>2. Pad(n) = q * 4
    BY <1>1 DEF Pad
<1> QED
    BY <1>1, <1>2

LEMMA NoteSizeIs ==
    ASSUME NEW note \in NoteHeader
    PROVE  /\ NoteSize(note) \in Nat /\ note.namesz \in Nat /\ note.descsz \in Nat
           /\ note.namesz + note.descsz + 12 <= NoteSize(note)
<1>1. note.namesz \in Nat /\ note.descsz \in Nat
    BY DEF NoteHeader
<1>2. /\ Pad(note.namesz) \in Nat /\ note.namesz <= Pad(note.namesz)
      /\ Pad(note.descsz) \in Nat /\ note.descsz <= Pad(note.descsz)
    BY <1>1, PadIs
<1> QED
    BY <1>1, <1>2 DEF NoteSize

LEMMA InsideNote ==
    ASSUME NEW p \in Nat, NEW namesz \in Nat, NEW descsz \in Nat, NEW m \in Nat, NEW size \in Nat,
           namesz + descsz + 12 <= m, p + m <= size
    PROVE  /\ ~(p + 12 > size) /\ namesz < size /\ descsz < size
           /\ namesz + descsz <= size - p
OBVIOUS

LEMMA LastPiece ==
    ASSUME NEW s \in Seq(Nat), Len(s) # 0
    PROVE  SubSeq(s, Len(s), Len(s)) = <<s[Len(s)]>>
<1>1. PICK n \in Nat : n = Len(s) /\ n >= 1 /\ s[n] \in Nat
    OBVIOUS
<1> DEFINE one == SubSeq(s, n, n)
           two == <<s[n]>>
<1>2. one \in Seq(Nat) /\ Len(one) = 1 /\ one[1] = s[n]
    BY <1>1
<1>3. two \in Seq(Nat) /\ Len(two) = 1 /\ two[1] = s[n]
    BY <1>1
<1> HIDE DEF one, two
<1>4. one = [j \in 1..1 |-> one[j]] /\ two = [j \in 1..1 |-> two[j]]
    BY <1>2, <1>3
<1>5. \A j \in 1..1 : one[j] = two[j]
    BY <1>2, <1>3
<1>6. one = two
    BY <1>4, <1>5
<1> QED
    BY <1>1, <1>6 DEF one, two

LEMMA OneMoreNote ==
    ASSUME NEW at, NEW size, NEW starts, NEW list, Strung(at, size, starts, list),
           NEW note \in NoteHeader, NEW at2, NEW size2, size2 = size + NoteSize(note),
           at2 = [p \in DOMAIN at \cup {size} |-> IF p = size THEN note ELSE at[p]]
    PROVE  Strung(at2, size2, Append(starts, size), Append(list, note))
<1> DEFINE n == Len(list)
           more == Append(starts, size)
           longer == Append(list, note)
<1>1. /\ n \in Nat /\ size \in Nat /\ list \in Seq(NoteHeader) /\ starts \in Seq(Nat)
      /\ Len(starts) = n
    BY DEF Strung
<1>2. NoteSize(note) \in Nat /\ 12 <= NoteSize(note)
    <2>1. /\ NoteSize(note) \in Nat /\ note.namesz \in Nat /\ note.descsz \in Nat
          /\ note.namesz + note.descsz + 12 <= NoteSize(note)
        BY NoteSizeIs
    <2> QED
        BY <2>1
<1>3. \A j \in 1..n : /\ list[j] \in NoteHeader /\ starts[j] \in Nat
                      /\ NoteSize(list[j]) \in Nat /\ 12 <= NoteSize(list[j])
                      /\ starts[j] + NoteSize(list[j]) <= size
                      /\ starts[j] + NoteSize(list[j]) = IF j = n THEN size ELSE starts[j + 1]
                      /\ at[starts[j]] = list[j]
    <2>1. \A j \in 1..n : list[j] \in NoteHeader /\ starts[j] \in Nat
        BY <1>1
    <2>2. ASSUME NEW j \in 1..n PROVE NoteSize(list[j]) \in Nat /\ 12 <= NoteSize(list[j])
        <3>1. /\ NoteSize(list[j]) \in Nat /\ list[j].namesz \in Nat /\ list[j].descsz \in Nat
              /\ list[j].namesz + list[j].descsz + 12 <= NoteSize(list[j])
            BY <2>1, NoteSizeIs
        <3> QED
            BY <3>1
    <2> QED
        BY <2>1, <2>2 DEF Strung
<1>4. /\ Len(more) = n + 1 /\ Len(longer) = n + 1
      /\ more \in Seq(Nat) /\ longer \in Seq(NoteHeader)
      /\ \A j \in 1..n : more[j] = starts[j] /\ longer[j] = list[j]
      /\ more[n + 1] = size /\ longer[n + 1] = note
    BY <1>1
<1>5. IF starts = << >> THEN size = 0 ELSE starts[1] = 0
    BY DEF Strung
<1>6. more[1] = 0
    <2>1. CASE starts = << >>
        BY <1>1, <1>4, <1>5, <2>1
    <2>2. CASE starts # << >>
        BY <1>1, <1>4, <1>5, <2>2
    <2> QED
        BY <2>1, <2>2
<1>7. size2 \in Nat /\ size <= size2
    BY <1>1, <1>2
<1>8. ASSUME NEW p
      PROVE  p \in DOMAIN at2 <=> \E j \in 1..(n + 1) : p = more[j]
    <2>1. p \in DOMAIN at2 <=> p \in DOMAIN at \/ p = size
        OBVIOUS
    <2>2. p \in DOMAIN at <=> \E j \in 1..n : p = starts[j]
        BY DEF Strung
    <2> HIDE DEF more
    <2>3. ASSUME NEW j \in 1..n, p = starts[j] PROVE \E l \in 1..(n + 1) : p = more[l]
        <3>1. j \in 1..(n + 1)
            BY <1>1
        <3>2. p = more[j]
            BY <1>4, <2>3
        <3> QED
            BY <3>1, <3>2
    <2>4. ASSUME p = size PROVE \E l \in 1..(n + 1) : p = more[l]
        <3>1. n + 1 \in 1..(n + 1)
            BY <1>1
        <3>2. p = more[n + 1]
            BY <1>4, <2>4
        <3> QED
            BY <3>1, <3>2
    <2>5. ASSUME NEW l \in 1..(n + 1), p = more[l]
          PROVE  p = size \/ \E j \in 1..n : p = starts[j]
        <3>1. CASE l = n + 1
            BY <1>4, <2>5, <3>1
        <3>2. CASE l # n + 1
            <4>1. l \in 1..n
                BY <1>1, <3>2
            <4> QED
                BY <1>4, <2>5, <4>1
        <3> QED
            BY <3>1, <3>2
    <2> QED
        BY <2>1, <2>2, <2>3, <2>4, <2>5
<1>9. ASSUME NEW j \in 1..(n + 1)
      PROVE  /\ more[j] + NoteSize(longer[j]) <= size2
             /\ more[j] + NoteSize(longer[j]) = IF j = n + 1 THEN size2 ELSE more[j + 1]
             /\ at2[more[j]] = longer[j]
    <2>1. CASE j = n + 1
        <3>1. at2[size] = note
            OBVIOUS
        <3> QED
            BY <1>4, <1>7, <2>1, <3>1
    <2>2. CASE j # n + 1
        <3>1. j \in 1..n
            BY <1>1, <2>2
        <3>2. starts[j] # size /\ starts[j] + NoteSize(list[j]) <= size2
            BY <1>1, <1>3, <1>7, <3>1
        <3>3. starts[j] \in DOMAIN at
            BY <3>1 DEF Strung
        <3>4. at2[starts[j]] = list[j]
            BY <1>3, <3>1, <3>2, <3>3
        <3>5. starts[j] + NoteSize(list[j]) = more[j + 1]
            <4>1. CASE j = n
                BY <1>3, <1>4, <3>1, <4>1
            <4>2. CASE j # n
                <5>1. j + 1 \in 1..n
                    BY <1>1, <3>1, <4>2
                <5> QED
                    BY <1>3, <1>4, <3>1, <4>2, <5>1
            <4> QED
                BY <4>1, <4>2
        <3> QED
            BY <1>4, <2>2, <3>1, <3>2, <3>4, <3>5
    <2> QED
        BY <2>1, <2>2
<1>10. more # << >> /\ Len(longer) = n + 1
    <2>1. Len(more) # 0
        BY <1>1, <1>4
    <2> HIDE DEF more, longer
    <2>2. more # << >>
        BY <2>1
    <2> QED
        BY <1>4, <2>2
<1>11. /\ Len(more) = Len(longer) /\ 1..Len(longer) = 1..(n + 1)
       /\ IF more = << >> THEN size2 = 0 ELSE more[1] = 0
    BY <1>4, <1>6, <1>10
<1>12. \A j \in 1..Len(longer) :
           /\ more[j] + NoteSize(longer[j]) <= size2
           /\ more[j] + NoteSize(longer[j]) = IF j = Len(longer) THEN size2 ELSE more[j + 1]
           /\ at2[more[j]] = longer[j]
    BY <1>9, <1>10
<1>13. \A p : p \in DOMAIN at2 <=> \E j \in 1..Len(longer) : p = more[j]
    BY <1>8, <1>10
<1> HIDE DEF more, longer, n
<1>14. Strung(at2, size2, more, longer)
    BY <1>4, <1>7, <1>11, <1>12, <1>13 DEF Strung
<1> QED
    BY <1>14 DEF more, longer

(* The accessor finds them all. *)
LEMMA NotesFound ==
    ASSUME NEW n, NEW starts, NEW list, Strung(n.at, n.size, starts, list)
    PROVE  ProcessNotes(n) = starts
<1> DEFINE len == Len(list)
           Reads(p, g) ==
               IF p + 12 > n.size \/ p \notin DOMAIN n.at THEN << >>
               ELSE LET note == n.at[p]
                        next == p + NoteSize(note)
                    IN IF note.namesz < n.size /\ note.descsz < n.size /\ next <= n.size
                       THEN <<p>> \o g[next]
                       ELSE << >>
           From(j) == SubSeq(starts, j, len)
           index == [p \in DOMAIN n.at |-> CHOOSE j \in 1..len : p = starts[j]]
           g == [p \in 0..n.size |-> IF p \in DOMAIN n.at THEN From(index[p]) ELSE << >>]
           found == CHOOSE h : h = [p \in 0..n.size |-> Reads(p, h)]
<1>1. /\ len \in Nat /\ n.size \in Nat /\ list \in Seq(NoteHeader) /\ starts \in Seq(Nat)
      /\ Len(starts) = len
    BY DEF Strung
<1>2. \A j \in 1..len :
          /\ list[j] \in NoteHeader /\ starts[j] \in Nat
          /\ NoteSize(list[j]) \in Nat
          /\ list[j].namesz \in Nat /\ list[j].descsz \in Nat
          /\ list[j].namesz + list[j].descsz + 12 <= NoteSize(list[j])
          /\ starts[j] + NoteSize(list[j]) <= n.size
          /\ starts[j] + NoteSize(list[j]) = IF j = len THEN n.size ELSE starts[j + 1]
          /\ starts[j] \in DOMAIN n.at /\ n.at[starts[j]] = list[j]
    <2>1. \A j \in 1..len : list[j] \in NoteHeader /\ starts[j] \in Nat
        BY <1>1
    <2>2. \A j \in 1..len : /\ NoteSize(list[j]) \in Nat
                            /\ list[j].namesz \in Nat /\ list[j].descsz \in Nat
                            /\ list[j].namesz + list[j].descsz + 12 <= NoteSize(list[j])
        BY <2>1, NoteSizeIs
    <2>3. \A j \in 1..len : starts[j] \in DOMAIN n.at
        BY DEF Strung
    <2> QED
        BY <2>1, <2>2, <2>3 DEF Strung
<1>3. \A p \in DOMAIN n.at : index[p] \in 1..len /\ p = starts[index[p]]
    <2>1. \A p \in DOMAIN n.at : \E j \in 1..len : p = starts[j]
        BY DEF Strung
    <2> QED
        BY <2>1
<1>4. n.size \notin DOMAIN n.at
    <2> SUFFICES ASSUME n.size \in DOMAIN n.at PROVE FALSE
        OBVIOUS
    <2>1. PICK j \in 1..len : n.size = starts[j]
        BY <1>3
    <2>2. /\ starts[j] \in Nat /\ NoteSize(list[j]) \in Nat
          /\ list[j].namesz \in Nat /\ list[j].descsz \in Nat
          /\ list[j].namesz + list[j].descsz + 12 <= NoteSize(list[j])
          /\ starts[j] + NoteSize(list[j]) <= n.size
        BY <1>2
    <2>3. 12 <= NoteSize(list[j])
        BY <2>2
    <2> QED
        BY <1>1, <2>1, <2>2, <2>3
<1>17. \A j \in 1..len : j # len =>
           j + 1 \in 1..len /\ starts[j + 1] \in Nat /\ starts[j] < starts[j + 1]
    <2> SUFFICES ASSUME NEW j \in 1..len, j # len
                 PROVE  j + 1 \in 1..len /\ starts[j + 1] \in Nat /\ starts[j] < starts[j + 1]
        OBVIOUS
    <2>1. j + 1 \in 1..len
        BY <1>1
    <2>2. /\ starts[j] \in Nat /\ NoteSize(list[j]) \in Nat
          /\ list[j].namesz \in Nat /\ list[j].descsz \in Nat
          /\ list[j].namesz + list[j].descsz + 12 <= NoteSize(list[j])
          /\ starts[j] + NoteSize(list[j]) = starts[j + 1]
        BY <1>2
    <2>3. starts[j + 1] \in Nat
        BY <1>2, <2>1
    <2>4. 12 <= NoteSize(list[j])
        BY <2>2
    <2> QED
        BY <2>1, <2>2, <2>3, <2>4
(* Of one place there is one note. *)
<1>5. \A j, k \in 1..len : starts[j] = starts[k] => j = k
    <2>1. ASSUME NEW j \in 1..len PROVE \A k \in 1..len : j < k => starts[j] < starts[k]
        <3> DEFINE P == {m \in Nat : j + 1 + m \in 1..len => starts[j] < starts[j + 1 + m]}
        <3>1. 0 \in P
            <4>1. ASSUME j + 1 \in 1..len PROVE starts[j] < starts[j + 1]
                <5>1. j # len
                    BY <1>1, <4>1
                <5> QED
                    BY <1>17, <5>1
            <4> QED
                BY <4>1
        <3>2. ASSUME NEW m \in Nat, m \in P PROVE m + 1 \in P
            <4>1. ASSUME j + 1 + (m + 1) \in 1..len PROVE starts[j] < starts[j + 1 + (m + 1)]
                <5>1. PICK k \in 1..len : k = j + 1 + m /\ k # len /\ k + 1 = j + 1 + (m + 1)
                    BY <1>1, <4>1
                <5>2. starts[j] < starts[k]
                    BY <3>2, <5>1
                <5>3. starts[k] < starts[k + 1] /\ k + 1 \in 1..len
                    BY <1>17, <5>1
                <5>4. starts[j] \in Nat /\ starts[k] \in Nat /\ starts[k + 1] \in Nat
                    BY <1>2, <5>3
                <5> QED
                    BY <5>1, <5>2, <5>3, <5>4
            <4> QED
                BY <4>1
        <3>3. \A m \in Nat : m \in P
            <4> HIDE DEF P
            <4> QED
                BY <3>1, <3>2, AllNumbers
        <3>4. ASSUME NEW k \in 1..len, j < k PROVE starts[j] < starts[k]
            <4>1. PICK m \in Nat : m = k - (j + 1) /\ j + 1 + m = k
                BY <1>1, <3>4
            <4>2. m \in P
                BY <3>3
            <4> QED
                BY <4>1, <4>2
        <3> QED
            BY <3>4
    <2>2. ASSUME NEW j \in 1..len, NEW k \in 1..len, starts[j] = starts[k], j # k PROVE FALSE
        <3>1. starts[j] \in Nat
            BY <1>2
        <3>2. j < k \/ k < j
            BY <1>1, <2>2
        <3> QED
            BY <2>1, <2>2, <3>1, <3>2
    <2> QED
        BY <2>2
<1>6. \A j \in 1..len : index[starts[j]] = j
    BY <1>2, <1>3, <1>5
(* What is found from a place is found behind it too. *)
<1>7. ASSUME NEW h, NEW j \in 1..len,
             j = len => h[n.size] = << >>, j # len => h[starts[j + 1]] = From(j + 1)
      PROVE  Reads(starts[j], h) = From(j)
    <2>1. /\ ~(starts[j] + 12 > n.size) /\ starts[j] \in DOMAIN n.at
          /\ list[j].namesz < n.size /\ list[j].descsz < n.size
          /\ n.at[starts[j]] = list[j] /\ starts[j] + NoteSize(list[j]) <= n.size
        <3>1. /\ starts[j] \in Nat /\ NoteSize(list[j]) \in Nat
              /\ list[j].namesz \in Nat /\ list[j].descsz \in Nat
              /\ list[j].namesz + list[j].descsz + 12 <= NoteSize(list[j])
              /\ starts[j] + NoteSize(list[j]) <= n.size
              /\ starts[j] \in DOMAIN n.at /\ n.at[starts[j]] = list[j]
            BY <1>2
        <3>2. /\ ~(starts[j] + 12 > n.size)
              /\ list[j].namesz < n.size /\ list[j].descsz < n.size
            <4> HIDE DEF Reads, From
            <4> QED
                BY <1>1, <3>1, InsideNote
        <3> QED
            BY <3>1, <3>2
    <2>2. Reads(starts[j], h) = <<starts[j]>> \o h[starts[j] + NoteSize(list[j])]
        BY <2>1
    <2> HIDE DEF Reads
    <2>3. CASE j = len
        <3>1. Reads(starts[j], h) = <<starts[j]>> \o << >>
            BY <1>2, <1>7, <2>2, <2>3
        <3>2. From(j) = <<starts[j]>>
            BY <1>1, <2>3, LastPiece
        <3>3. <<starts[j]>> \o << >> = <<starts[j]>>
            OBVIOUS
        <3> QED
            BY <3>1, <3>2, <3>3
    <2>4. CASE j # len
        <3>1. j + 1 \in 1..len
            BY <1>1, <2>4
        <3>2. Reads(starts[j], h) = <<starts[j]>> \o From(j + 1)
            BY <1>2, <1>7, <2>2, <2>4
        <3>3. <<starts[j]>> \o From(j + 1) = From(j)
            BY <1>1, <3>1
        <3> QED
            BY <3>2, <3>3
    <2> QED
        BY <2>3, <2>4
<1>8. g = [p \in 0..n.size |-> Reads(p, g)]
    <2>1. ASSUME NEW p \in 0..n.size PROVE g[p] = Reads(p, g)
        <3>1. CASE p \notin DOMAIN n.at
            BY <3>1
        <3>2. CASE p \in DOMAIN n.at
            <4>1. PICK j \in 1..len : p = starts[j] /\ j = index[p]
                BY <1>3, <3>2
            <4>2. g[p] = From(j)
                BY <3>2, <4>1
            <4>3. j = len => g[n.size] = << >>
                BY <1>1, <1>4
            <4>4. j # len => g[starts[j + 1]] = From(j + 1)
                <5> SUFFICES ASSUME j # len PROVE g[starts[j + 1]] = From(j + 1)
                    OBVIOUS
                <5>1. j + 1 \in 1..len
                    BY <1>1
                <5>2. starts[j + 1] \in 0..n.size
                    BY <1>1, <1>2, <5>1
                <5>3. starts[j + 1] \in DOMAIN n.at /\ index[starts[j + 1]] = j + 1
                    BY <1>2, <1>6, <5>1
                <5> HIDE DEF index, From
                <5> QED
                    BY <5>2, <5>3
            <4> HIDE DEF g, Reads, From
            <4> QED
                BY <1>7, <4>1, <4>2, <4>3, <4>4
        <3> QED
            BY <3>1, <3>2
    <2> HIDE DEF Reads
    <2>2. g = [p \in 0..n.size |-> g[p]]
        OBVIOUS
    <2> HIDE DEF g
    <2> QED
        BY <2>1, <2>2
<1>9. found = [p \in 0..n.size |-> Reads(p, found)]
    <2> HIDE DEF g, Reads
    <2> QED
        BY <1>8
<1>10. ProcessNotes(n) = found[0]
    BY DEF ProcessNotes
<1>11. found[n.size] = << >>
    <2> HIDE DEF found
    <2> QED
        BY <1>1, <1>4, <1>9
<1> HIDE DEF found, g, index
<1> DEFINE Q == {m \in Nat : m < len => found[starts[len - m]] = From(len - m)}
<1>12. 0 \in Q
    <2> SUFFICES ASSUME 0 < len PROVE found[starts[len]] = From(len)
        BY <1>1
    <2>1. len \in 1..len /\ starts[len] \in 0..n.size
        BY <1>1, <1>2
    <2>2. Reads(starts[len], found) = From(len)
        BY <1>7, <1>11, <2>1
    <2> HIDE DEF Reads, From
    <2> QED
        BY <1>9, <2>1, <2>2
<1>13. ASSUME NEW m \in Nat, m \in Q PROVE m + 1 \in Q
    <2> SUFFICES ASSUME m + 1 < len PROVE found[starts[len - (m + 1)]] = From(len - (m + 1))
        BY <1>1
    <2> DEFINE j == len - (m + 1)
    <2>1. j \in 1..len /\ j # len /\ j + 1 = len - m
        BY <1>1
    <2> HIDE DEF j
    <2>2. found[starts[j + 1]] = From(j + 1)
        <3>1. m < len => found[starts[len - m]] = From(len - m)
            BY <1>13
        <3>2. m < len
            BY <1>1
        <3> HIDE DEF From
        <3> QED
            BY <2>1, <3>1, <3>2
    <2>3. starts[j] \in 0..n.size
        <3>1. starts[j] \in Nat /\ NoteSize(list[j]) \in Nat /\ starts[j] + NoteSize(list[j]) <= n.size
            BY <1>2, <2>1
        <3> QED
            BY <1>1, <3>1
    <2>4. Reads(starts[j], found) = From(j)
        BY <1>7, <2>1, <2>2
    <2>5. found[starts[j]] = From(j)
        <3> HIDE DEF Reads, From
        <3> QED
            BY <1>9, <2>3, <2>4
    <2> QED
        BY <2>5 DEF j
<1>14. \A m \in Nat : m \in Q
    <2> HIDE DEF Q
    <2> QED
        BY <1>12, <1>13, AllNumbers
<1>15. CASE len = 0
    <2>1. starts = << >> /\ n.size = 0
        BY <1>1, <1>15 DEF Strung
    <2> QED
        BY <1>10, <1>11, <2>1
<1>16. CASE len # 0
    <2>1. len - 1 \in Nat /\ len - 1 < len /\ len - (len - 1) = 1
        BY <1>1, <1>16
    <2>2. found[starts[1]] = From(1)
        <3>1. len - 1 \in Q
            BY <1>14, <2>1
        <3> QED
            BY <2>1, <3>1
    <2>3. starts[1] = 0
        BY <1>1, <1>16 DEF Strung
    <2>4. From(1) = starts
        BY <1>1
    <2> QED
        BY <1>10, <2>2, <2>3, <2>4
<1> QED
    BY <1>15, <1>16

MoreAt(at, size, note) == [p \in DOMAIN at \cup {size} |-> IF p = size THEN note ELSE at[p]]

NotesRecord(n) == n.size \in Nat /\ n = [at |-> n.at, size |-> n.size, starts |-> n.starts]

LEMMA PutIs ==
    ASSUME NEW n, NotesRecord(n), NEW note \in NoteHeader
    PROVE  /\ PutNote(n, note).at = MoreAt(n.at, n.size, note)
           /\ PutNote(n, note).size = n.size + NoteSize(note)
           /\ PutNote(n, note).starts = n.starts
           /\ NotesRecord(PutNote(n, note))
<1> DEFINE more == MoreAt(n.at, n.size, note)
<1>1. n.size \in Nat /\ n = [at |-> n.at, size |-> n.size, starts |-> n.starts]
    BY DEF NotesRecord
<1>2. PutNote(n, note) = [n EXCEPT !.at = more, !.size = @ + NoteSize(note)]
    BY DEF PutNote, MoreAt
<1>3. NoteSize(note) \in Nat
    BY NoteSizeIs
<1> HIDE DEF more
<1>4. PutNote(n, note) = [at |-> more, size |-> n.size + NoteSize(note), starts |-> n.starts]
    BY <1>1, <1>2
<1>5. /\ PutNote(n, note).at = more /\ PutNote(n, note).size = n.size + NoteSize(note)
      /\ PutNote(n, note).starts = n.starts
    BY <1>4
<1>6. NotesRecord(PutNote(n, note))
    BY <1>1, <1>3, <1>4, <1>5 DEF NotesRecord
<1> QED
    BY <1>5, <1>6 DEF more

(* So do the notes of a file lie. *)
Putting(g, list, m) ==
    /\ g = [j \in 0..m |-> g[j]]
    /\ g[0] = [at |-> << >>, size |-> 0, starts |-> << >>]
    /\ \A j \in 1..m : g[j] = PutNote(g[j - 1], list[j])

LEMMA PuttingIs ==
    ASSUME NEW list
    PROVE  \A n \in Nat : \E g : Putting(g, list, n)
<1> DEFINE P == {m \in Nat : \E g : Putting(g, list, m)}
<1>1. 0 \in P
    <2> DEFINE g == [j \in 0..0 |-> [at |-> << >>, size |-> 0, starts |-> << >>]]
    <2>1. Putting(g, list, 0)
        BY DEF Putting
    <2> QED
        BY <2>1
<1>2. ASSUME NEW m \in Nat, m \in P PROVE m + 1 \in P
    <2>1. PICK g : Putting(g, list, m)
        BY <1>2
    <2> DEFINE h == [j \in 0..(m + 1) |-> IF j = m + 1 THEN PutNote(g[m], list[m + 1]) ELSE g[j]]
    <2>2. h[m + 1] = PutNote(g[m], list[m + 1]) /\ \A j \in 0..m : h[j] = g[j]
        OBVIOUS
    <2>3. h = [j \in 0..(m + 1) |-> h[j]]
        OBVIOUS
    <2> HIDE DEF h
    <2>4. ASSUME NEW j \in 1..(m + 1) PROVE h[j] = PutNote(h[j - 1], list[j])
        <3>1. CASE j = m + 1
            <4>1. j - 1 = m /\ m \in 0..m
                BY <3>1
            <4> QED
                BY <2>2, <3>1, <4>1
        <3>2. CASE j # m + 1
            <4>1. j \in 1..m /\ j \in 0..m /\ j - 1 \in 0..m
                BY <3>2
            <4>2. g[j] = PutNote(g[j - 1], list[j])
                BY <2>1, <4>1 DEF Putting
            <4> QED
                BY <2>2, <4>1, <4>2
        <3> QED
            BY <3>1, <3>2
    <2>5. h[0] = g[0] /\ g[0] = [at |-> << >>, size |-> 0, starts |-> << >>]
        BY <2>1, <2>2 DEF Putting
    <2>6. Putting(h, list, m + 1)
        BY <2>3, <2>4, <2>5 DEF Putting
    <2> QED
        BY <2>6
<1>3. \A m \in Nat : m \in P
    <2> HIDE DEF P
    <2> QED
        BY <1>1, <1>2, AllNumbers
<1> QED
    BY <1>3

LEMMA OneMore ==
    ASSUME NEW T, NEW s \in Seq(T), NEW n \in Nat, n + 1 <= Len(s)
    PROVE  SubSeq(s, 1, n + 1) = Append(SubSeq(s, 1, n), s[n + 1])
<1> DEFINE one == SubSeq(s, 1, n + 1)
           two == Append(SubSeq(s, 1, n), s[n + 1])
<1>1. /\ one \in Seq(T) /\ Len(one) = n + 1
      /\ \A j \in 1..(n + 1) : one[j] = s[j]
    OBVIOUS
<1>2. /\ two \in Seq(T) /\ Len(two) = n + 1
      /\ \A j \in 1..(n + 1) : two[j] = s[j]
    <2> DEFINE front == SubSeq(s, 1, n)
    <2>1. /\ front \in Seq(T) /\ Len(front) = n /\ s[n + 1] \in T
          /\ \A j \in 1..n : front[j] = s[j]
        OBVIOUS
    <2> HIDE DEF front
    <2>2. /\ Append(front, s[n + 1]) \in Seq(T) /\ Len(Append(front, s[n + 1])) = n + 1
          /\ \A j \in 1..n : Append(front, s[n + 1])[j] = front[j]
          /\ Append(front, s[n + 1])[n + 1] = s[n + 1]
        BY <2>1
    <2> QED
        BY <2>1, <2>2 DEF front
<1> HIDE DEF one, two
<1>3. one = [j \in 1..(n + 1) |-> one[j]] /\ two = [j \in 1..(n + 1) |-> two[j]]
    BY <1>1, <1>2
<1>4. one = two
    BY <1>1, <1>2, <1>3
<1> QED
    BY <1>4 DEF one, two

LEMMA NotesFiled ==
    ASSUME NEW list \in Seq(NoteHeader)
    PROVE  /\ NotesRecord(FiledNotes(list)) /\ FiledNotes(list).starts = << >>
           /\ \E starts : Strung(FiledNotes(list).at, FiledNotes(list).size, starts, list)
<1> DEFINE none == [at |-> << >>, size |-> 0, starts |-> << >>]
           len == Len(list)
           put == CHOOSE g : g = [j \in 0..len |->
                      IF j = 0 THEN none ELSE PutNote(g[j - 1], list[j])]
           Prefix(m) == SubSeq(list, 1, m)
           Right(m) == /\ NotesRecord(put[m]) /\ put[m].starts = << >>
                       /\ \E starts : Strung(put[m].at, put[m].size, starts, Prefix(m))
           P == {m \in Nat : m <= len => Right(m)}
<1>1. len \in Nat /\ \A j \in 1..len : list[j] \in NoteHeader
    OBVIOUS
<1>2. FiledNotes(list) = put[len]
    BY DEF FiledNotes
<1>3. /\ put[0] = none
      /\ \A j \in 1..len : put[j] = PutNote(put[j - 1], list[j])
    <2>1. PICK g : Putting(g, list, len)
        BY <1>1, PuttingIs
    <2>2. g = [j \in 0..len |-> IF j = 0 THEN none ELSE PutNote(g[j - 1], list[j])]
        <3>1. ASSUME NEW j \in 0..len
              PROVE  g[j] = IF j = 0 THEN none ELSE PutNote(g[j - 1], list[j])
            <4>1. CASE j = 0
                BY <2>1, <4>1 DEF Putting
            <4>2. CASE j # 0
                <5>1. j \in 1..len
                    BY <1>1, <4>2
                <5> QED
                    BY <2>1, <4>2, <5>1 DEF Putting
            <4> QED
                BY <4>1, <4>2
        <3>2. g = [j \in 0..len |-> g[j]]
            BY <2>1 DEF Putting
        <3> HIDE DEF none, len
        <3> QED
            BY <3>1, <3>2
    <2>3. put = [j \in 0..len |-> IF j = 0 THEN none ELSE PutNote(put[j - 1], list[j])]
        <3> HIDE DEF none, len
        <3> QED
            BY <2>2
    <2> HIDE DEF put, none
    <2>4. 0 \in 0..len /\ \A j \in 1..len : j \in 0..len /\ j # 0
        BY <1>1
    <2> HIDE DEF len
    <2> QED
        BY <2>3, <2>4
<1> HIDE DEF put
<1>4. 0 \in P
    <2>1. /\ NotesRecord(put[0]) /\ put[0].starts = << >>
          /\ put[0].at = << >> /\ put[0].size = 0
        BY <1>3 DEF NotesRecord
    <2>2. Prefix(0) = << >>
        OBVIOUS
    <2>3. Strung(<< >>, 0, << >>, << >>)
        BY DEF Strung
    <2> QED
        BY <2>1, <2>2, <2>3
<1>5. ASSUME NEW m \in Nat, m \in P PROVE m + 1 \in P
    <2> SUFFICES ASSUME m + 1 <= len PROVE Right(m + 1)
        OBVIOUS
    <2>1. m <= len /\ m + 1 \in 1..len /\ (m + 1) - 1 = m
        BY <1>1
    <2>2. NotesRecord(put[m]) /\ put[m].starts = << >>
        BY <1>5, <2>1
    <2>3. PICK starts : Strung(put[m].at, put[m].size, starts, Prefix(m))
        BY <1>5, <2>1
    <2> DEFINE note == list[m + 1]
    <2>4. note \in NoteHeader /\ put[m + 1] = PutNote(put[m], note)
        BY <1>1, <1>3, <2>1
    <2>5. Prefix(m + 1) = Append(Prefix(m), note)
        BY <2>1, OneMore
    <2> HIDE DEF Prefix, note, P, Right
    <2>6. /\ put[m + 1].at = MoreAt(put[m].at, put[m].size, note)
          /\ put[m + 1].size = put[m].size + NoteSize(note)
          /\ put[m + 1].starts = << >> /\ NotesRecord(put[m + 1])
        BY <2>2, <2>4, PutIs
    <2>7. Strung(put[m + 1].at, put[m + 1].size, Append(starts, put[m].size), Append(Prefix(m), note))
        BY <2>3, <2>4, <2>6, OneMoreNote DEF MoreAt
    <2>8. Right(m + 1)
        BY <2>5, <2>6, <2>7 DEF Right
    <2> QED
        BY <2>8
<1>6. \A m \in Nat : m \in P
    <2> HIDE DEF P
    <2> QED
        BY <1>4, <1>5, AllNumbers
<1>7. Right(len)
    BY <1>1, <1>6
<1>8. Prefix(len) = list
    OBVIOUS
<1> QED
    BY <1>2, <1>7, <1>8

-----------------------------------------------------------------------------
(* The tables: module information *)

Words == STRING \cup {EQ, NUL}

(* What attributes are read as. *)
ReadAs == {Attribute(s) : s \in Seq(Words)}

LEMMA AttributeIs ==
    ASSUME NEW field \in Seq(STRING \ {EQ, NUL}), NEW value \in Seq(STRING \ {NUL})
    PROVE  /\ Attribute(field \o <<EQ>> \o value) = <<field, value>>
           /\ field \o <<EQ>> \o value \in Seq(Words \ {NUL})
           /\ Len(field \o <<EQ>> \o value) >= 1
<1> DEFINE s == field \o <<EQ>> \o value
           n == Len(field)
           signs == {p \in DOMAIN s : s[p] = EQ}
<1>1. /\ n \in Nat /\ Len(value) \in Nat
      /\ Len(s) = n + 1 + Len(value)
      /\ \A p \in 1..n : s[p] = field[p]
      /\ s[n + 1] = EQ
      /\ \A p \in 1..Len(value) : s[n + 1 + p] = value[p]
    OBVIOUS
<1>2. s \in Seq(Words \ {NUL})
    <2>1. EQ # NUL
        BY DEF EQ, NUL
    <2> DEFINE T == Words \ {NUL}
    <2>2. field \in Seq(T) /\ value \in Seq(T) /\ <<EQ>> \in Seq(T)
        <3>1. STRING \ {EQ, NUL} \subseteq T /\ STRING \ {NUL} \subseteq T /\ EQ \in T
            BY <2>1 DEF Words
        <3> HIDE DEF T
        <3> QED
            BY <3>1
    <2> HIDE DEF T
    <2>3. s \in Seq(T)
        BY <2>2
    <2> QED
        BY <2>3 DEF T
<1>3. DOMAIN s = 1..(n + 1 + Len(value)) /\ s = [p \in 1..(n + 1 + Len(value)) |-> s[p]]
    BY <1>1, <1>2
<1> HIDE DEF s
<1>4. n + 1 \in signs /\ \A l \in signs : n + 1 <= l
    <2>1. n + 1 \in signs
        BY <1>1, <1>3
    <2>2. ASSUME NEW l \in signs, ~(n + 1 <= l) PROVE FALSE
        <3>1. l \in 1..n /\ s[l] = EQ
            BY <1>1, <1>3, <2>2
        <3>2. s[l] = field[l] /\ field[l] # EQ
            BY <1>1, <3>1
        <3> QED
            BY <3>1, <3>2
    <2> QED
        BY <2>1, <2>2
<1>5. signs \subseteq Nat /\ signs # {}
    BY <1>1, <1>3, <1>4
<1>6. Lowest(signs) = n + 1
    <2> HIDE DEF signs
    <2>1. Lowest(signs) \in signs /\ \A l \in signs : Lowest(signs) <= l
        BY <1>5, LowestIs
    <2>2. Lowest(signs) <= n + 1 /\ n + 1 <= Lowest(signs) /\ Lowest(signs) \in Nat
        BY <1>4, <1>5, <2>1
    <2> QED
        BY <1>1, <2>2
<1>7. SubSeq(s, 1, n) = field
    <2>1. SubSeq(s, 1, n) = [p \in 1..n |-> s[p]]
        BY <1>1, <1>2
    <2>2. field = [p \in 1..n |-> field[p]]
        OBVIOUS
    <2> HIDE DEF n
    <2> QED
        BY <1>1, <2>1, <2>2
<1>8. SubSeq(s, n + 2, Len(s)) = value
    <2> DEFINE rest == SubSeq(s, n + 2, Len(s))
               k == Len(value)
    <2>1. rest \in Seq(Words) /\ Len(rest) = k /\ \A p \in 1..k : rest[p] = s[n + 1 + p]
        BY <1>1, <1>2
    <2>2. value = [p \in 1..k |-> value[p]]
        OBVIOUS
    <2> HIDE DEF rest, k
    <2>3. rest = [p \in 1..k |-> rest[p]]
        BY <2>1
    <2>4. \A p \in 1..k : rest[p] = value[p]
        BY <1>1, <2>1 DEF k
    <2>5. rest = value
        BY <2>2, <2>3, <2>4
    <2> QED
        BY <2>5 DEF rest
<1>9. Attribute(s) = <<SubSeq(s, 1, Lowest(signs) - 1), SubSeq(s, Lowest(signs) + 1, Len(s))>>
    BY <1>5 DEF Attribute
<1>10. (n + 1) - 1 = n /\ (n + 1) + 1 = n + 2
    BY <1>1
<1>11. Attribute(s) = <<field, value>>
    BY <1>6, <1>7, <1>8, <1>9, <1>10
<1>12. Len(s) >= 1
    BY <1>1
<1> QED
    BY <1>2, <1>11, <1>12 DEF s

(* A string ends at one place. *)
LEMMA StringEnds ==
    ASSUME NEW data \in Seq(Words), NEW i \in 1..Len(data), data[i] # NUL
    PROVE  /\ \E end \in i..Len(data) : EndsAt(data, i, end)
           /\ \A end, other \in i..Len(data) :
                  EndsAt(data, i, end) /\ EndsAt(data, i, other) => end = other
<1>1. Len(data) \in Nat /\ i \in Nat
    OBVIOUS
<1>2. ASSUME NEW end \in i..Len(data), NEW other \in i..Len(data),
             EndsAt(data, i, end), EndsAt(data, i, other), end < other
      PROVE  FALSE
    <2>1. end # Len(data) /\ end + 1 \in i..other
        BY <1>1, <1>2
    <2>2. data[end + 1] = NUL
        BY <1>2, <2>1 DEF EndsAt
    <2>3. data[end + 1] # NUL
        BY <1>2, <2>1 DEF EndsAt
    <2> QED
        BY <2>2, <2>3
<1>3. \A end, other \in i..Len(data) :
          EndsAt(data, i, end) /\ EndsAt(data, i, other) => end = other
    <2>1. \A end, other \in i..Len(data) : end < other \/ other < end \/ end = other
        BY <1>1
    <2> QED
        BY <1>2, <2>1
<1> DEFINE T == {p \in i..Len(data) : data[p] = NUL}
<1>4. CASE T = {}
    <2>1. EndsAt(data, i, Len(data))
        BY <1>4 DEF EndsAt
    <2>2. Len(data) \in i..Len(data)
        BY <1>1
    <2> QED
        BY <1>3, <2>1, <2>2
<1>5. CASE T # {}
    <2>1. T \subseteq Nat
        BY <1>1
    <2>2. PICK e \in T : \A l \in T : e <= l
        <3> HIDE DEF T
        <3> QED
            BY <1>5, <2>1, HasLeast
    <2>3. e \in i..Len(data) /\ data[e] = NUL /\ e # i
        BY <2>2
    <2>4. e - 1 \in i..Len(data) /\ (e - 1) + 1 = e
        BY <1>1, <2>3
    <2>5. \A l \in i..(e - 1) : data[l] # NUL
        <3> SUFFICES ASSUME NEW l \in i..(e - 1), data[l] = NUL PROVE FALSE
            OBVIOUS
        <3>1. l \in T /\ ~(e <= l)
            BY <1>1, <2>3
        <3> QED
            BY <2>2, <3>1
    <2>6. EndsAt(data, i, e - 1)
        BY <2>3, <2>4, <2>5 DEF EndsAt
    <2> QED
        BY <1>3, <2>4, <2>6
<1> QED
    BY <1>4, <1>5

StringAt(data, i) == SubSeq(data, i, CHOOSE end \in i..Len(data) : EndsAt(data, i, end))

LEMMA StringAtIs ==
    ASSUME NEW data \in Seq(Words), NEW i \in 1..Len(data), data[i] # NUL,
           NEW end \in i..Len(data), EndsAt(data, i, end)
    PROVE  StringAt(data, i) = SubSeq(data, i, end)
<1> DEFINE e == CHOOSE end2 \in i..Len(data) : EndsAt(data, i, end2)
<1>1. e \in i..Len(data) /\ EndsAt(data, i, e)
    OBVIOUS
<1> HIDE DEF e
<1>2. e = end
    BY <1>1, StringEnds
<1> QED
    BY <1>2 DEF e, StringAt

LEMMA AttributeAtIs ==
    ASSUME NEW data \in Seq(Words), NEW i \in 1..Len(data)
    PROVE  /\ AttributeAt(data, i) = IF data[i] # NUL /\ (i = 1 \/ data[i - 1] = NUL)
                                     THEN <<Attribute(StringAt(data, i))>> ELSE << >>
           /\ AttributeAt(data, i) \in Seq(ReadAs)
<1>1. AttributeAt(data, i) = IF data[i] # NUL /\ (i = 1 \/ data[i - 1] = NUL)
                             THEN <<Attribute(StringAt(data, i))>> ELSE << >>
    BY DEF AttributeAt, StringAt
<1>2. CASE data[i] # NUL /\ (i = 1 \/ data[i - 1] = NUL)
    <2>1. PICK end \in i..Len(data) : EndsAt(data, i, end)
        BY <1>2, StringEnds
    <2>2. StringAt(data, i) = SubSeq(data, i, end)
        BY <1>2, <2>1, StringAtIs
    <2>3. SubSeq(data, i, end) \in Seq(Words)
        BY <2>1
    <2>4. Attribute(StringAt(data, i)) \in ReadAs
        BY <2>2, <2>3 DEF ReadAs
    <2> QED
        BY <1>1, <1>2, <2>4
<1>3. CASE ~(data[i] # NUL /\ (i = 1 \/ data[i - 1] = NUL))
    BY <1>1, <1>3
<1> QED
    BY <1>1, <1>2, <1>3

(* g collects the attributes that start at the first m places. *)
Collects(g, data, m) ==
    /\ g = [i \in 0..m |-> g[i]]
    /\ g[0] = << >>
    /\ \A i \in 1..m : g[i] = g[i - 1] \o AttributeAt(data, i)

LEMMA CollectsIs ==
    ASSUME NEW data
    PROVE  \A n \in Nat : \E g : Collects(g, data, n)
<1> DEFINE P == {m \in Nat : \E g : Collects(g, data, m)}
<1>1. 0 \in P
    <2> DEFINE g == [j \in 0..0 |-> << >>]
    <2>1. Collects(g, data, 0)
        BY DEF Collects
    <2> QED
        BY <2>1
<1>2. ASSUME NEW m \in Nat, m \in P PROVE m + 1 \in P
    <2>1. PICK g : Collects(g, data, m)
        BY <1>2
    <2> DEFINE last == g[m] \o AttributeAt(data, m + 1)
               h == [j \in 0..(m + 1) |-> IF j = m + 1 THEN last ELSE g[j]]
    <2> HIDE DEF last
    <2>2. h[m + 1] = last /\ \A j \in 0..m : h[j] = g[j]
        OBVIOUS
    <2>3. h = [j \in 0..(m + 1) |-> h[j]]
        OBVIOUS
    <2> HIDE DEF h
    <2>4. ASSUME NEW j \in 1..(m + 1) PROVE h[j] = h[j - 1] \o AttributeAt(data, j)
        <3>1. CASE j = m + 1
            <4>1. j - 1 = m /\ m \in 0..m
                BY <3>1
            <4> QED
                BY <2>2, <3>1, <4>1 DEF last
        <3>2. CASE j # m + 1
            <4>1. j \in 1..m /\ j \in 0..m /\ j - 1 \in 0..m
                BY <3>2
            <4>2. g[j] = g[j - 1] \o AttributeAt(data, j)
                BY <2>1, <4>1 DEF Collects
            <4> QED
                BY <2>2, <4>1, <4>2
        <3> QED
            BY <3>1, <3>2
    <2>5. h[0] = << >>
        BY <2>1, <2>2 DEF Collects
    <2>6. Collects(h, data, m + 1)
        BY <2>3, <2>4, <2>5 DEF Collects
    <2> QED
        BY <2>6
<1>3. \A m \in Nat : m \in P
    <2> HIDE DEF P
    <2> QED
        BY <1>1, <1>2, AllNumbers
<1> QED
    BY <1>3

(* The code collects so. *)
LEMMA InfoCollected ==
    ASSUME NEW data \in Seq(Words)
    PROVE  \E g : Collects(g, data, Len(data)) /\ ProcessInfo(data) = g[Len(data)]
<1> DEFINE len == Len(data)
           content == CHOOSE g : g = [i \in 0..len |->
                          IF i = 0 THEN << >> ELSE g[i - 1] \o AttributeAt(data, i)]
<1>1. len \in Nat
    OBVIOUS
<1>2. PICK g : Collects(g, data, len)
    BY <1>1, CollectsIs
<1>3. g = [i \in 0..len |-> IF i = 0 THEN << >> ELSE g[i - 1] \o AttributeAt(data, i)]
    <2>1. ASSUME NEW i \in 0..len
          PROVE  g[i] = IF i = 0 THEN << >> ELSE g[i - 1] \o AttributeAt(data, i)
        <3>1. CASE i = 0
            BY <1>2, <3>1 DEF Collects
        <3>2. CASE i # 0
            <4>1. i \in 1..len
                BY <1>1, <3>2
            <4> QED
                BY <1>2, <3>2, <4>1 DEF Collects
        <3> QED
            BY <3>1, <3>2
    <2>2. g = [i \in 0..len |-> g[i]]
        BY <1>2 DEF Collects
    <2> HIDE DEF len
    <2> QED
        BY <2>1, <2>2
<1>4. content = [i \in 0..len |-> IF i = 0 THEN << >> ELSE content[i - 1] \o AttributeAt(data, i)]
    <2> HIDE DEF len
    <2> QED
        BY <1>3
<1>5. ProcessInfo(data) = content[len]
    BY DEF ProcessInfo
<1> HIDE DEF content, len
<1>6. Collects(content, data, len)
    <2>1. 0 \in 0..len /\ \A i \in 1..len : i \in 0..len /\ i # 0
        BY <1>1
    <2>2. content[0] = << >> /\ \A i \in 1..len : content[i] = content[i - 1] \o AttributeAt(data, i)
        BY <1>4, <2>1
    <2>3. content = [i \in 0..len |-> content[i]]
        <3> DEFINE v == [i \in 0..len |-> IF i = 0 THEN << >> ELSE content[i - 1] \o AttributeAt(data, i)]
        <3>1. v = [i \in 0..len |-> v[i]]
            OBVIOUS
        <3>2. content = v
            BY <1>4
        <3> HIDE DEF v
        <3> QED
            BY <3>1, <3>2
    <2> QED
        BY <2>2, <2>3 DEF Collects
<1> QED
    BY <1>5, <1>6 DEF len

LEMMA CollectsType ==
    ASSUME NEW data \in Seq(Words), NEW g, Collects(g, data, Len(data))
    PROVE  \A i \in 0..Len(data) : g[i] \in Seq(ReadAs)
<1> DEFINE P == {m \in Nat : m <= Len(data) => g[m] \in Seq(ReadAs)}
<1>1. 0 \in P
    BY DEF Collects
<1>2. ASSUME NEW m \in Nat, m \in P PROVE m + 1 \in P
    <2> SUFFICES ASSUME m + 1 <= Len(data) PROVE g[m + 1] \in Seq(ReadAs)
        OBVIOUS
    <2>1. m + 1 \in 1..Len(data) /\ m <= Len(data) /\ (m + 1) - 1 = m
        OBVIOUS
    <2>2. g[m + 1] = g[m] \o AttributeAt(data, m + 1)
        BY <2>1 DEF Collects
    <2>3. g[m] \in Seq(ReadAs)
        BY <1>2, <2>1
    <2>4. AttributeAt(data, m + 1) \in Seq(ReadAs)
        BY <2>1, AttributeAtIs
    <2> QED
        BY <2>2, <2>3, <2>4
<1>3. \A m \in Nat : m \in P
    <2> HIDE DEF P
    <2> QED
        BY <1>1, <1>2, AllNumbers
<1>4. \A i \in 0..Len(data) : i \in Nat /\ i <= Len(data)
    OBVIOUS
<1> QED
    BY <1>3, <1>4

LEMMA PieceIs ==
    ASSUME NEW T, NEW t \in Seq(T), NEW i \in Nat, NEW k \in Nat, i + k <= Len(t)
    PROVE  SubSeq(t, i + 1, i + k) = [j \in 1..k |-> t[i + j]]
<1>1. SubSeq(t, i + 1, i + k) = [j \in 1..((i + k) - (i + 1) + 1) |-> t[(i + 1) + j - 1]]
    OBVIOUS
<1>2. (i + k) - (i + 1) + 1 = k /\ \A j \in 1..k : (i + 1) + j - 1 = i + j
    OBVIOUS
<1> QED
    BY <1>1, <1>2

(* An attribute behind the others. *)
LEMMA InfoAdded ==
    ASSUME NEW data \in Seq(Words), data = << >> \/ data[Len(data)] = NUL,
           NEW w \in Seq(Words \ {NUL}), Len(w) >= 1, NEW more, more = data \o w \o <<NUL>>
    PROVE  /\ ProcessInfo(more) = Append(ProcessInfo(data), Attribute(w))
           /\ more \in Seq(Words) /\ more # << >> /\ more[Len(more)] = NUL
<1> DEFINE n == Len(data)
           k == Len(w)
<1>1. /\ n \in Nat /\ k \in Nat /\ k >= 1 /\ w \in Seq(Words) /\ \A p \in 1..k : w[p] # NUL
      /\ data # << >> => n >= 1
    BY DEF Words
<1>2. more \in Seq(Words) /\ Len(more) = n + k + 1
    <2>1. NUL \in Words
        BY DEF Words
    <2> QED
        BY <1>1, <2>1
<1>3. /\ \A p \in 1..n : more[p] = data[p]
      /\ \A p \in 1..k : more[n + p] = w[p]
      /\ more[n + k + 1] = NUL
    BY <1>1
<1>4. more # << >> /\ more[Len(more)] = NUL
    <2> HIDE DEF n, k
    <2>1. Len(more) # 0
        BY <1>1, <1>2
    <2>2. more # << >>
        BY <2>1
    <2> QED
        BY <1>2, <1>3, <2>2
<1> HIDE DEF n, k
<1>5. PICK g : Collects(g, data, n) /\ ProcessInfo(data) = g[n]
    BY InfoCollected DEF n
<1>6. PICK h : Collects(h, more, n + k + 1) /\ ProcessInfo(more) = h[n + k + 1]
    BY <1>2, InfoCollected
<1>7. \A i \in 0..n : g[i] \in Seq(ReadAs)
    BY <1>5, CollectsType DEF n
<1>8. ASSUME NEW i \in 1..n PROVE AttributeAt(more, i) = AttributeAt(data, i)
    <2>1. i \in 1..Len(data) /\ i \in 1..Len(more)
        BY <1>1, <1>2 DEF n
    <2>2. more[i] = data[i] /\ (i # 1 => more[i - 1] = data[i - 1])
        <3>1. i # 1 => i - 1 \in 1..n
            BY <1>1
        <3> QED
            BY <1>3, <3>1
    <2>3. ASSUME data[i] # NUL PROVE StringAt(more, i) = StringAt(data, i)
        <3>1. PICK end \in i..n : EndsAt(data, i, end)
            BY <2>1, <2>3, StringEnds DEF n
        <3>2. end # n
            <4>1. data[n] = NUL
                BY <1>1 DEF n
            <4>2. ASSUME end = n PROVE data[n] # NUL
                <5>1. n \in i..end
                    BY <1>1, <4>2
                <5> QED
                    BY <3>1, <5>1 DEF EndsAt
            <4> QED
                BY <4>1, <4>2
        <3>3. end + 1 \in 1..n /\ end \in i..Len(more) /\ \A l \in i..end : l \in 1..n
            BY <1>1, <1>2, <3>1, <3>2
        <3>4. data[end + 1] = NUL
            BY <3>1, <3>2 DEF EndsAt, n
        <3>5. EndsAt(more, i, end)
            BY <1>3, <3>1, <3>3, <3>4 DEF EndsAt
        <3>6. StringAt(data, i) = SubSeq(data, i, end)
            BY <2>1, <2>3, <3>1, StringAtIs DEF n
        <3>7. StringAt(more, i) = SubSeq(more, i, end)
            BY <1>2, <2>1, <2>2, <2>3, <3>3, <3>5, StringAtIs
        <3>8. SubSeq(more, i, end) = SubSeq(data, i, end)
            <4>1. \A j \in 1..(end - i + 1) : i + j - 1 \in 1..n
                BY <1>1, <3>3
            <4>2. \A j \in 1..(end - i + 1) : more[i + j - 1] = data[i + j - 1]
                BY <1>3, <4>1
            <4>3. SubSeq(more, i, end) = [j \in 1..(end - i + 1) |-> more[i + j - 1]]
                BY <1>2, <2>1, <3>3
            <4>4. SubSeq(data, i, end) = [j \in 1..(end - i + 1) |-> data[i + j - 1]]
                BY <2>1, <3>1, <1>1 DEF n
            <4> QED
                BY <4>2, <4>3, <4>4
        <3> QED
            BY <3>6, <3>7, <3>8
    <2>4. AttributeAt(more, i) = IF more[i] # NUL /\ (i = 1 \/ more[i - 1] = NUL)
                                 THEN <<Attribute(StringAt(more, i))>> ELSE << >>
        BY <1>2, <2>1, AttributeAtIs
    <2>5. AttributeAt(data, i) = IF data[i] # NUL /\ (i = 1 \/ data[i - 1] = NUL)
                                 THEN <<Attribute(StringAt(data, i))>> ELSE << >>
        BY <2>1, AttributeAtIs
    <2> QED
        BY <2>2, <2>3, <2>4, <2>5
<1>9. h[n] = g[n]
    <2> DEFINE P == {m \in Nat : m <= n => h[m] = g[m]}
    <2>1. 0 \in P
        BY <1>5, <1>6 DEF Collects
    <2>2. ASSUME NEW m \in Nat, m \in P PROVE m + 1 \in P
        <3> SUFFICES ASSUME m + 1 <= n PROVE h[m + 1] = g[m + 1]
            OBVIOUS
        <3>1. m + 1 \in 1..n /\ m + 1 \in 1..(n + k + 1) /\ m <= n /\ (m + 1) - 1 = m
            BY <1>1
        <3>2. h[m + 1] = h[m] \o AttributeAt(more, m + 1)
            BY <1>6, <3>1 DEF Collects
        <3>3. g[m + 1] = g[m] \o AttributeAt(data, m + 1)
            BY <1>5, <3>1 DEF Collects
        <3>4. h[m] = g[m]
            BY <2>2, <3>1
        <3> QED
            BY <1>8, <3>1, <3>2, <3>3, <3>4
    <2>3. \A m \in Nat : m \in P
        <3> HIDE DEF P
        <3> QED
            BY <2>1, <2>2, AllNumbers
    <2> QED
        BY <1>1, <2>3
<1>10. AttributeAt(more, n + 1) = <<Attribute(w)>>
    <2>1. n + 1 \in 1..Len(more)
        BY <1>1, <1>2
    <2>2. more[n + 1] # NUL
        <3>1. 1 \in 1..k
            BY <1>1
        <3> QED
            BY <1>1, <1>3, <3>1
    <2>3. n + 1 = 1 \/ more[(n + 1) - 1] = NUL
        <3>1. CASE data = << >>
            <4>1. n = 0
                BY <3>1 DEF n
            <4> QED
                BY <4>1
        <3>2. CASE data # << >>
            <4>1. data[n] = NUL /\ n \in 1..n /\ (n + 1) - 1 = n
                BY <1>1, <3>2 DEF n
            <4> QED
                BY <1>3, <4>1
        <3> QED
            BY <3>1, <3>2
    <2>4. EndsAt(more, n + 1, n + k) /\ n + k \in (n + 1)..Len(more)
        <3>1. \A l \in (n + 1)..(n + k) : l - n \in 1..k /\ n + (l - n) = l
            BY <1>1
        <3>2. ASSUME NEW l \in (n + 1)..(n + k) PROVE more[l] # NUL
            <4>1. more[n + (l - n)] = w[l - n] /\ w[l - n] # NUL
                BY <1>1, <1>3, <3>1
            <4> QED
                BY <3>1, <4>1
        <3> QED
            BY <1>1, <1>2, <1>3, <3>2 DEF EndsAt
    <2>5. StringAt(more, n + 1) = SubSeq(more, n + 1, n + k)
        BY <1>2, <2>1, <2>2, <2>4, StringAtIs
    <2>6. SubSeq(more, n + 1, n + k) = w
        <3> DEFINE s == SubSeq(more, n + 1, n + k)
        <3>1. s = [j \in 1..k |-> more[n + j]]
            <4>1. n + k <= Len(more)
                BY <1>1, <1>2
            <4> QED
                BY <1>1, <1>2, <4>1, PieceIs
        <3>2. w = [j \in 1..k |-> w[j]]
            BY DEF k
        <3> HIDE DEF s
        <3>3. s = w
            BY <1>3, <3>1, <3>2
        <3> QED
            BY <3>3 DEF s
    <2>7. AttributeAt(more, n + 1) = <<Attribute(StringAt(more, n + 1))>>
        BY <1>2, <2>1, <2>2, <2>3, AttributeAtIs
    <2> QED
        BY <2>5, <2>6, <2>7
<1>11. \A i \in (n + 2)..(n + k + 1) : AttributeAt(more, i) = << >>
    <2> SUFFICES ASSUME NEW i \in (n + 2)..(n + k + 1) PROVE AttributeAt(more, i) = << >>
        OBVIOUS
    <2>1. i \in 1..Len(more) /\ i # 1 /\ i - 1 - n \in 1..k /\ n + (i - 1 - n) = i - 1
        BY <1>1, <1>2
    <2>2. more[i - 1] # NUL
        BY <1>1, <1>3, <2>1
    <2> QED
        BY <1>2, <2>1, <2>2, AttributeAtIs
<1>12. h[n + 1] = g[n] \o <<Attribute(w)>>
    <2>1. n + 1 \in 1..(n + k + 1) /\ (n + 1) - 1 = n
        BY <1>1
    <2>2. h[n + 1] = h[n] \o AttributeAt(more, n + 1)
        BY <1>6, <2>1 DEF Collects
    <2> QED
        BY <1>9, <1>10, <2>2
<1>13. Attribute(w) \in ReadAs /\ g[n] \in Seq(ReadAs)
    <2>1. n \in 0..n
        BY <1>1
    <2>2. g[n] \in Seq(ReadAs)
        BY <1>7, <2>1
    <2>3. Attribute(w) \in ReadAs
        BY <1>1 DEF ReadAs
    <2> QED
        BY <2>2, <2>3
<1>14. g[n] \o <<Attribute(w)>> = Append(g[n], Attribute(w)) /\ Append(g[n], Attribute(w)) \in Seq(ReadAs)
    BY <1>13
<1>15. h[n + k + 1] = h[n + 1]
    <2> DEFINE P == {m \in Nat : m <= k => h[n + 1 + m] = h[n + 1]}
    <2>1. 0 \in P
        BY <1>1
    <2>2. ASSUME NEW m \in Nat, m \in P PROVE m + 1 \in P
        <3> SUFFICES ASSUME m + 1 <= k PROVE h[n + 1 + (m + 1)] = h[n + 1]
            OBVIOUS
        <3> DEFINE i == n + 1 + (m + 1)
        <3>1. i \in 1..(n + k + 1) /\ i \in (n + 2)..(n + k + 1) /\ i - 1 = n + 1 + m /\ m <= k
            BY <1>1
        <3> HIDE DEF i
        <3>2. h[i] = h[i - 1] \o AttributeAt(more, i)
            BY <1>6, <3>1 DEF Collects
        <3>3. h[i - 1] = h[n + 1]
            BY <2>2, <3>1
        <3>4. h[i] = h[n + 1] \o << >>
            BY <1>11, <3>1, <3>2, <3>3
        <3>5. h[n + 1] \in Seq(ReadAs)
            BY <1>12, <1>14
        <3>6. h[i] = h[n + 1]
            BY <3>4, <3>5
        <3> QED
            BY <3>6 DEF i
    <2>3. \A m \in Nat : m \in P
        <3> HIDE DEF P
        <3> QED
            BY <2>1, <2>2, AllNumbers
    <2>4. n + 1 + k = n + k + 1
        BY <1>1
    <2>5. k \in P
        BY <1>1, <2>3
    <2>6. h[n + 1 + k] = h[n + 1]
        BY <1>1, <2>5
    <2> QED
        BY <2>4, <2>6
<1>16. ProcessInfo(more) = Append(ProcessInfo(data), Attribute(w))
    BY <1>5, <1>6, <1>12, <1>14, <1>15
<1> QED
    BY <1>2, <1>4, <1>16

-----------------------------------------------------------------------------
(* The tables: what the sections hold *)

Records ==
    /\ asked = [entries |-> asked.entries, notes |-> asked.notes]
    /\ versym = [data |-> versym.data, num |-> versym.num]

NotesHeld == NotesRecord(notes) /\ Strung(notes.at, notes.size, notes.starts, asked.notes)

InfoHeld ==
    /\ modinfo.data \in Seq(Words)
    /\ modinfo.data = << >> \/ modinfo.data[Len(modinfo.data)] = NUL
    /\ modinfo.content = ProcessInfo(modinfo.data)

VersionsHeld == versym.data \in Seq(Nat) /\ versym.num = Len(versym.data)

(* The sections hold what the file had and what was added, one entry behind the other,
   and the accessors have read all of it; of the count of the dynamic section, which is not
   raised by what is added, only that it is not too large. *)
TablesInv ==
    /\ DynamicTypes /\ Records
    /\ dynamic.num <= DynCount(dynamic)
    /\ verneed.num \in {0, Len(verneed.chain)}
    /\ whole => DynamicHeld /\ NotesHeld /\ InfoHeld /\ VersionsHeld

LEMMA StrungReads ==
    ASSUME NEW n, NEW list, Strung(n.at, n.size, n.starts, list)
    PROVE  /\ n.starts = ProcessNotes(n)
           /\ [j \in DOMAIN n.starts |-> n.at[n.starts[j]]] = list
           /\ \A c \in Range(n.starts) : n.at[c].namesz >= 1 => NoteIsRead(n, c)
<1>1. /\ n.size \in Nat /\ list \in Seq(NoteHeader) /\ n.starts \in Seq(Nat)
      /\ Len(n.starts) = Len(list) /\ Len(list) \in Nat
    BY DEF Strung
<1>2. \A j \in 1..Len(list) :
          /\ list[j] \in NoteHeader /\ n.starts[j] \in Nat
          /\ n.starts[j] + NoteSize(list[j]) <= n.size /\ n.at[n.starts[j]] = list[j]
    <2>1. \A j \in 1..Len(list) : list[j] \in NoteHeader /\ n.starts[j] \in Nat
        BY <1>1
    <2> QED
        BY <2>1 DEF Strung
<1>3. DOMAIN n.starts = 1..Len(list) /\ list = [j \in 1..Len(list) |-> list[j]]
    BY <1>1
<1>4. [j \in DOMAIN n.starts |-> n.at[n.starts[j]]] = list
    <2>1. [j \in DOMAIN n.starts |-> n.at[n.starts[j]]] = [j \in 1..Len(list) |-> list[j]]
        BY <1>2, <1>3
    <2> QED
        BY <1>3, <2>1
<1>5. ASSUME NEW c \in Range(n.starts), n.at[c].namesz >= 1 PROVE NoteIsRead(n, c)
    <2>1. PICK j \in 1..Len(list) : c = n.starts[j]
        BY <1>3 DEF Range
    <2>2. /\ NoteSize(list[j]) \in Nat /\ list[j].namesz \in Nat /\ list[j].descsz \in Nat
          /\ list[j].namesz + list[j].descsz + 12 <= NoteSize(list[j])
        BY <1>2, NoteSizeIs
    <2>3. c \in Nat /\ c + NoteSize(list[j]) <= n.size /\ n.at[c] = list[j]
        BY <1>2, <2>1
    <2>4. list[j].namesz + list[j].descsz <= n.size - c
        BY <1>1, <2>2, <2>3, InsideNote
    <2> QED
        BY <1>5, <2>3, <2>4 DEF NoteIsRead
<1>6. n.starts = ProcessNotes(n)
    BY NotesFound
<1> QED
    BY <1>4, <1>5, <1>6

LEMMA InvReads == ASSUME TablesInv PROVE TablesReadBack
<1>1. DynamicTypes /\ dynamic.num <= DynCount(dynamic)
    BY DEF TablesInv
<1>2. {NeedEntry(no) : no \in 0..(verneed.num - 1)} \in {{}, Range(verneed.chain)}
    BY NeedReads DEF TablesInv, DynamicTypes
<1>3. ASSUME whole
      PROVE  DynamicHeld /\ NotesHeld /\ InfoHeld /\ VersionsHeld
    BY <1>3 DEF TablesInv
<1>4. ASSUME whole, dynamic.sized
      PROVE  /\ DynCount(dynamic) = Len(Listed)
             /\ \A k \in DOMAIN Listed :
                    LET e == DynEntry(dynamic, k)
                    IN Listed[k].entry = e /\ Listed[k].string \in {NoString, DynString(strtab, e)}
    BY <1>1, <1>3, <1>4, DynamicReads
<1>5. ASSUME whole
      PROVE  /\ notes.starts = ProcessNotes(notes)
             /\ [j \in DOMAIN notes.starts |-> notes.at[notes.starts[j]]] = asked.notes
             /\ \A c \in Range(notes.starts) : notes.at[c].namesz >= 1 => NoteIsRead(notes, c)
    <2>1. Strung(notes.at, notes.size, notes.starts, asked.notes)
        BY <1>3, <1>5 DEF NotesHeld
    <2> QED
        BY <2>1, StrungReads
<1>6. ASSUME whole
      PROVE  modinfo.content = ProcessInfo(modinfo.data) /\ versym.num = Len(versym.data)
    BY <1>3, <1>6 DEF InfoHeld, VersionsHeld
<1> QED
    BY <1>1, <1>2, <1>4, <1>5, <1>6 DEF TablesReadBack

LEMMA TablesStart == TablesInit => TablesInv
<1> SUFFICES ASSUME TablesInit PROVE TablesInv
    OBVIOUS
<1> USE DEF TablesInit
<1>1. DynamicTypes
    BY DEF DynamicTypes
<1>2. dynamic.num <= DynCount(dynamic)
    <2>1. dynamic.size \in Nat /\ dynamic.sized \in BOOLEAN /\ dynamic.num = 0
        OBVIOUS
    <2>2. DynCount(dynamic) \in 0..dynamic.size
        BY <2>1, CountIs
    <2> QED
        BY <2>1, <2>2
<1>3. DynamicHeld
    BY DEF DynamicHeld
<1>4. NotesHeld
    BY DEF NotesHeld, NotesRecord, Strung
<1>5. InfoHeld
    <2>1. << >> \in Seq(Words)
        OBVIOUS
    <2>2. PICK g : Collects(g, << >>, Len(<< >>)) /\ ProcessInfo(<< >>) = g[Len(<< >>)]
        BY <2>1, InfoCollected
    <2>3. Len(<< >>) = 0
        OBVIOUS
    <2>4. ProcessInfo(<< >>) = << >>
        BY <2>2, <2>3 DEF Collects
    <2>5. modinfo.data = << >> /\ modinfo.content = << >>
        OBVIOUS
    <2> QED
        BY <2>1, <2>4, <2>5 DEF InfoHeld
<1>6. VersionsHeld
    BY DEF VersionsHeld
<1>7. Records
    BY DEF Records
<1>8. verneed.num \in {0, Len(verneed.chain)}
    OBVIOUS
<1> QED
    BY <1>1, <1>2, <1>3, <1>4, <1>5, <1>6, <1>7, <1>8 DEF TablesInv

LEMMA StringsAre == DynamicEntry \subseteq DynType /\ STRING \subseteq Text /\ STRING \subseteq Words
BY DEF DynamicEntry, DynType, Text, Words

LEMMA SeqOfMore ==
    ASSUME NEW S, NEW T, S \subseteq T, NEW s \in Seq(S)
    PROVE  s \in Seq(T)
OBVIOUS

LEMMA CountSame ==
    ASSUME NEW d, NEW h, d.size = h.size, d.sized = h.sized, d.data = h.data
    PROVE  DynCount(d) = DynCount(h)
<1>1. \A k : DynEntry(d, k) = DynEntry(h, k)
    BY DEF DynEntry
<1> QED
    BY <1>1 DEF DynCount

(* The dynamic section is that of the file. *)
LEMMA OpenDynamic ==
    ASSUME NEW f \in TableFiles, OpenTables(f)
    PROVE  /\ DynamicTypes'
           /\ dynamic'.num <= DynCount(dynamic')
           /\ verneed'.num \in {0, Len(verneed'.chain)}
           /\ whole' => DynamicHeld'
<1> DEFINE D == IF f.filed THEN f.entries ELSE << >>
<1>1. /\ f.entries \in Seq(DynType) /\ f.sized \in BOOLEAN /\ f.filed \in BOOLEAN
      /\ \A k \in DOMAIN f.entries :
             f.entries[k].tag = "VERNEEDNUM" => f.entries[k].value = Len(f.chain)
      /\ f.strings \in Seq(STRING) /\ f.chain \in Seq(STRING)
    BY TableFilesAssumption, StringsAre
<1>2. /\ D \in Seq(DynType) /\ Len(D) <= Len(f.entries)
      /\ Len(D) \in Nat /\ Len(f.entries) \in Nat /\ Len(f.chain) \in Nat
      /\ \A k \in DOMAIN D : D[k].tag = "VERNEEDNUM" => D[k].value = Len(f.chain)
      /\ f.filed => D = f.entries
    BY <1>1
<1> HIDE DEF D
<1>3. /\ dynamic' = [data |-> D, size |-> Len(f.entries), sized |-> f.sized, num |-> 0]
      /\ strtab' = f.strings
      /\ verneed' = [chain |-> f.chain, num |-> NeedNum(dynamic')]
    BY DEF OpenTables, D
<1>4. /\ dynamic' \in [data : Seq(DynType), size : Nat, sized : BOOLEAN, num : Nat]
      /\ dynamic'.data = D /\ dynamic'.size = Len(f.entries) /\ dynamic'.sized = f.sized
      /\ dynamic'.num = 0
      /\ verneed'.chain = f.chain /\ verneed'.num = NeedNum(dynamic')
    BY <1>1, <1>2, <1>3
<1>5. DynamicTypes'
    BY <1>1, <1>2, <1>3, <1>4 DEF DynamicTypes
<1>6. dynamic'.num <= DynCount(dynamic')
    <2>1. DynCount(dynamic') \in 0..dynamic'.size
        BY <1>1, <1>2, <1>4, CountIs
    <2> QED
        BY <1>2, <1>4, <2>1
<1>7. verneed'.num \in {0, Len(verneed'.chain)}
    <2>1. NeedNum(dynamic') \in {0, Len(f.chain)}
        BY <1>1, <1>2, <1>4, NeedIs
    <2> QED
        BY <1>4, <2>1
<1>8. ASSUME whole' PROVE DynamicHeld'
    <2> DEFINE Asked(k) == [entry |-> Bare(f.entries[k]), string |-> DynString(f.strings, f.entries[k])]
               n == Len(f.entries)
    <2>1. f.filed /\ asked'.entries = [k \in DOMAIN f.entries |-> Asked(k)]
        BY <1>3, <1>8 DEF OpenTables
    <2>2. DOMAIN f.entries = 1..n /\ n \in Nat
        BY <1>1
    <2>3. ASSUME NEW k \in 1..n
          PROVE  /\ Asked(k) \in AskedType
                 /\ Asked(k).entry = Bare(f.entries[k])
                 /\ Asked(k).string = DynString(f.strings, Asked(k).entry)
        <3>1. f.entries[k] \in DynType
            BY <1>1, <2>2
        <3>2. Bare(f.entries[k]) \in DynType
            BY <3>1, BareIs
        <3>3. /\ DynString(f.strings, f.entries[k]) \in Text
              /\ DynString(f.strings, Bare(f.entries[k])) = DynString(f.strings, f.entries[k])
            BY <1>1, <3>1, DynStringIs
        <3> QED
            BY <3>2, <3>3 DEF AskedType
    <2> HIDE DEF Asked, n
    <2>4. /\ asked'.entries \in Seq(AskedType) /\ Len(asked'.entries) = n
          /\ \A k \in 1..n : asked'.entries[k] = Asked(k)
        <3>1. asked'.entries = [k \in 1..n |-> Asked(k)]
            BY <2>1, <2>2
        <3> QED
            BY <2>2, <2>3, <3>1
    <2>5. dynamic'.data = f.entries /\ dynamic'.size = n /\ Len(dynamic'.data) = n
        BY <1>2, <1>4, <2>1 DEF n
    <2>6. \A k \in DOMAIN dynamic'.data :
              /\ Bare(dynamic'.data[k]) = asked'.entries[k].entry
              /\ asked'.entries[k].string = DynString(strtab', asked'.entries[k].entry)
        BY <1>3, <2>2, <2>3, <2>4, <2>5
    <2> QED
        BY <2>4, <2>5, <2>6 DEF DynamicHeld
<1> QED
    BY <1>5, <1>6, <1>7, <1>8

LEMMA OpenKeeps ==
    ASSUME NEW f \in TableFiles, OpenTables(f)
    PROVE  TablesInv'
<1>1. /\ DynamicTypes' /\ dynamic'.num <= DynCount(dynamic')
      /\ verneed'.num \in {0, Len(verneed'.chain)} /\ (whole' => DynamicHeld')
    BY OpenDynamic
<1>2. /\ f.notes \in Seq(NoteHeader) /\ f.info \in Seq(STRING) /\ f.versions \in Seq(Nat)
    BY TableFilesAssumption
<1>3. Records'
    BY DEF Records, OpenTables
<1>4. ASSUME whole' PROVE NotesHeld'
    <2> DEFINE n == FiledNotes(f.notes)
    <2>1. NotesRecord(n) /\ n.starts = << >>
        BY <1>2, NotesFiled
    <2>2. PICK starts : Strung(n.at, n.size, starts, f.notes)
        BY <1>2, NotesFiled
    <2> HIDE DEF n
    <2>3. n.size \in Nat /\ n = [at |-> n.at, size |-> n.size, starts |-> << >>]
        BY <2>1 DEF NotesRecord
    <2>4. [n EXCEPT !.size = @ - f.cut] = n
        <3>1. f.cut = 0
            BY <1>4 DEF OpenTables
        <3>2. n.size - 0 = n.size
            BY <2>3
        <3> QED
            BY <2>3, <3>1, <3>2
    <2>5. notes' = [n EXCEPT !.starts = ProcessNotes(n)]
        BY <2>4 DEF OpenTables, n
    <2>6. Strung(n.at, n.size, ProcessNotes(n), f.notes)
        BY <2>2, NotesFound
    <2>7. notes' = [at |-> n.at, size |-> n.size, starts |-> ProcessNotes(n)]
        BY <2>3, <2>5
    <2>8. notes'.at = n.at /\ notes'.size = n.size /\ notes'.starts = ProcessNotes(n)
          /\ notes' = [at |-> notes'.at, size |-> notes'.size, starts |-> notes'.starts]
        BY <2>7
    <2>9. asked'.notes = f.notes
        BY DEF OpenTables
    <2> QED
        BY <2>3, <2>6, <2>8, <2>9 DEF NotesHeld, NotesRecord
<1>5. ASSUME whole' PROVE InfoHeld'
    <2>1. f.info = << >> \/ f.info[Len(f.info)] = NUL
        BY <1>5 DEF OpenTables, Last
    <2>2. modinfo'.data = f.info /\ modinfo'.content = ProcessInfo(f.info)
        BY DEF OpenTables
    <2>3. f.info \in Seq(Words)
        BY <1>2, StringsAre, SeqOfMore
    <2> QED
        BY <2>1, <2>2, <2>3 DEF InfoHeld
<1>6. VersionsHeld'
    BY <1>2 DEF VersionsHeld, OpenTables
<1> QED
    BY <1>1, <1>3, <1>4, <1>5, <1>6 DEF TablesInv

LEMMA CountKeeps ==
    ASSUME TablesInv, CountDynamic
    PROVE  TablesInv'
<1>1. /\ DynamicTypes /\ dynamic.num <= DynCount(dynamic) /\ whole' = whole
      /\ dynamic \in [data : Seq(DynType), size : Nat, sized : BOOLEAN, num : Nat]
      /\ DynCount(dynamic) \in Nat
    <2>1. /\ DynamicTypes /\ dynamic.num <= DynCount(dynamic) /\ whole' = whole
          /\ dynamic \in [data : Seq(DynType), size : Nat, sized : BOOLEAN, num : Nat]
        BY DEF TablesInv, CountDynamic, Call, DynamicTypes
    <2>2. DynCount(dynamic) \in 0..dynamic.size /\ dynamic.size \in Nat
        BY <2>1, CountIs
    <2> QED
        BY <2>1, <2>2
<1>2. get_entries_num(dynamic) \in Nat /\ get_entries_num(dynamic) <= DynCount(dynamic)
    BY <1>1 DEF get_entries_num
<1>3. /\ dynamic' \in [data : Seq(DynType), size : Nat, sized : BOOLEAN, num : Nat]
      /\ dynamic'.data = dynamic.data /\ dynamic'.size = dynamic.size
      /\ dynamic'.sized = dynamic.sized /\ dynamic'.num = get_entries_num(dynamic)
    BY <1>1, <1>2 DEF CountDynamic
<1>4. dynamic'.num <= DynCount(dynamic')
    <2>1. DynCount(dynamic') = DynCount(dynamic)
        BY <1>3, CountSame
    <2> QED
        BY <1>2, <1>3, <2>1
<1>5. /\ strtab' = strtab /\ notes' = notes /\ modinfo' = modinfo
      /\ versym' = versym /\ verneed' = verneed /\ asked' = asked
    BY DEF CountDynamic
<1>6. DynamicTypes'
    BY <1>1, <1>3, <1>5 DEF DynamicTypes
<1>7. DynamicHeld => DynamicHeld'
    BY <1>3, <1>5 DEF DynamicHeld
<1>8. (NotesHeld => NotesHeld') /\ (InfoHeld => InfoHeld') /\ (VersionsHeld => VersionsHeld')
      /\ (Records => Records')
    BY <1>5 DEF NotesHeld, InfoHeld, VersionsHeld, Records
<1> QED
    BY <1>1, <1>4, <1>5, <1>6, <1>7, <1>8 DEF TablesInv

LEMMA AddDynamicKeeps ==
    ASSUME TablesInv, NEW e \in DynEntries, AddDynamic(e)
    PROVE  TablesInv'
<1>1. e \in DynType /\ e.tag \in STRING /\ e.tag # "VERNEEDNUM"
    BY AdditionsAssumption, StringsAre DEF DynamicEntry
<1>2. /\ dynamic' = DynamicWith(e) /\ strtab' = strtab /\ notes' = notes /\ modinfo' = modinfo
      /\ versym' = versym /\ verneed' = verneed /\ whole' = whole
      /\ asked' = [asked EXCEPT !.entries =
                      Append(@, [entry |-> Bare(e), string |-> DynString(strtab, e)])]
    BY DEF AddDynamic, Call
<1>3. DynamicTypes /\ strtab \in Seq(STRING) /\ Records
    BY DEF TablesInv, DynamicTypes
<1>4. DynamicTypes' /\ dynamic'.num <= DynCount(dynamic')
    <2>1. dynamic.num <= DynCount(dynamic)
        BY DEF TablesInv
    <2> QED
        BY <1>1, <1>2, <1>3, <2>1, DynamicAdded
<1>5. /\ asked'.entries = Append(asked.entries, [entry |-> Bare(e), string |-> DynString(strtab, e)])
      /\ asked'.notes = asked.notes
      /\ asked' = [entries |-> asked'.entries, notes |-> asked'.notes]
    BY <1>2, <1>3 DEF Records
<1>6. ASSUME DynamicHeld PROVE DynamicHeld'
    <2> DEFINE s == DynString(strtab, e)
    <2>1. s \in Text /\ s = DynString(strtab', Bare(e))
        BY <1>1, <1>2, <1>3, DynStringIs
    <2>2. asked'.entries = Append(asked.entries, [entry |-> Bare(e), string |-> s])
        BY <1>5
    <2> HIDE DEF s
    <2> QED
        BY <1>1, <1>2, <1>3, <1>6, <2>1, <2>2, DynamicHolds
<1>7. (NotesHeld => NotesHeld') /\ (InfoHeld => InfoHeld') /\ (VersionsHeld => VersionsHeld')
      /\ Records'
    BY <1>2, <1>3, <1>5 DEF NotesHeld, InfoHeld, VersionsHeld, Records
<1> QED
    BY <1>2, <1>4, <1>6, <1>7 DEF TablesInv

LEMMA AddDynStringKeeps ==
    ASSUME TablesInv, NEW tag \in StringTags, NEW str \in DynStrings, AddDynString(tag, str)
    PROVE  TablesInv'
<1> DEFINE e == [tag |-> tag, value |-> Len(strtab')]
<1>1. str \in STRING /\ str \in Text
    BY AdditionsAssumption, StringsAre
<1>2. /\ dynamic' = DynamicWith(e) /\ strtab' = Append(strtab, str)
      /\ notes' = notes /\ modinfo' = modinfo
      /\ versym' = versym /\ verneed' = verneed /\ whole' = whole
      /\ asked' = [asked EXCEPT !.entries = Append(@, [entry |-> e, string |-> str])]
    BY DEF AddDynString, Call
<1>3. DynamicTypes /\ strtab \in Seq(STRING) /\ Records
    BY DEF TablesInv, DynamicTypes
<1>4. /\ Len(strtab') \in Nat /\ Len(strtab') # 0 /\ Len(strtab') \in DOMAIN strtab'
      /\ strtab'[Len(strtab')] = str
    BY <1>1, <1>2, <1>3
<1>5. e \in DynType /\ e.tag = tag /\ e.value = Len(strtab') /\ e.tag # "VERNEEDNUM"
    BY <1>4 DEF DynType, StringTags
<1>6. Bare(e) = e /\ DynString(strtab', e) = str
    <2> HIDE DEF e
    <2>1. e.tag \in StringTags
        BY <1>5
    <2> QED
        BY <1>4, <1>5, <2>1, BareIs DEF DynString
<1> HIDE DEF e
<1>7. DynamicTypes' /\ dynamic'.num <= DynCount(dynamic')
    <2>1. dynamic.num <= DynCount(dynamic)
        BY DEF TablesInv
    <2> QED
        BY <1>1, <1>2, <1>3, <1>5, <2>1, DynamicAdded
<1>8. /\ asked'.entries = Append(asked.entries, [entry |-> Bare(e), string |-> str])
      /\ asked'.notes = asked.notes
      /\ asked' = [entries |-> asked'.entries, notes |-> asked'.notes]
    BY <1>2, <1>3, <1>6 DEF Records
<1>9. ASSUME DynamicHeld PROVE DynamicHeld'
    <2>1. str = DynString(strtab', Bare(e))
        BY <1>6
    <2> QED
        BY <1>1, <1>2, <1>3, <1>5, <1>8, <1>9, <2>1, DynamicHolds
<1>10. (NotesHeld => NotesHeld') /\ (InfoHeld => InfoHeld') /\ (VersionsHeld => VersionsHeld')
       /\ Records'
    BY <1>2, <1>3, <1>8 DEF NotesHeld, InfoHeld, VersionsHeld, Records
<1> QED
    BY <1>2, <1>7, <1>9, <1>10 DEF TablesInv

LEMMA AddNoteKeeps ==
    ASSUME TablesInv, NEW note \in Notes, AddNote(note)
    PROVE  TablesInv'
<1>1. note \in NoteHeader
    BY AdditionsAssumption
<1>2. /\ dynamic' = dynamic /\ strtab' = strtab /\ modinfo' = modinfo
      /\ versym' = versym /\ verneed' = verneed /\ whole' = whole
      /\ notes' = [PutNote(notes, note) EXCEPT !.starts = Append(@, notes.size)]
      /\ asked' = [asked EXCEPT !.notes = Append(@, note)]
    BY DEF AddNote, Call
<1>3. Records
    BY DEF TablesInv
<1>4. /\ asked'.entries = asked.entries /\ asked'.notes = Append(asked.notes, note)
      /\ asked' = [entries |-> asked'.entries, notes |-> asked'.notes]
    BY <1>2, <1>3 DEF Records
<1>5. ASSUME NotesHeld PROVE NotesHeld'
    <2>1. NotesRecord(notes) /\ Strung(notes.at, notes.size, notes.starts, asked.notes)
        BY <1>5 DEF NotesHeld
    <2> DEFINE n == PutNote(notes, note)
    <2>2. /\ n.at = MoreAt(notes.at, notes.size, note) /\ n.size = notes.size + NoteSize(note)
          /\ n.starts = notes.starts /\ NotesRecord(n)
        BY <1>1, <2>1, PutIs
    <2>3. notes' = [n EXCEPT !.starts = Append(@, notes.size)]
        BY <1>2
    <2> HIDE DEF n
    <2>4. Strung(n.at, n.size, Append(notes.starts, notes.size), Append(asked.notes, note))
        BY <1>1, <2>1, <2>2, OneMoreNote DEF MoreAt
    <2>5. notes' = [at |-> n.at, size |-> n.size, starts |-> Append(notes.starts, notes.size)]
        BY <2>2, <2>3 DEF NotesRecord
    <2>6. /\ notes'.at = n.at /\ notes'.size = n.size
          /\ notes'.starts = Append(notes.starts, notes.size)
          /\ notes' = [at |-> notes'.at, size |-> notes'.size, starts |-> notes'.starts]
        BY <2>5
    <2>7. notes'.size \in Nat
        BY <2>2, <2>6 DEF NotesRecord
    <2> QED
        BY <1>4, <2>4, <2>6, <2>7 DEF NotesHeld, NotesRecord
<1>6. /\ DynamicTypes => DynamicTypes'
      /\ DynamicHeld => DynamicHeld'
    BY <1>2, <1>4 DEF DynamicTypes, DynamicHeld
<1>7. (InfoHeld => InfoHeld') /\ (VersionsHeld => VersionsHeld') /\ Records'
    BY <1>2, <1>3, <1>4 DEF InfoHeld, VersionsHeld, Records
<1> QED
    BY <1>2, <1>5, <1>6, <1>7 DEF TablesInv

LEMMA AddAttributeKeeps ==
    ASSUME TablesInv, NEW attribute \in Attributes, AddAttribute(attribute[1], attribute[2])
    PROVE  TablesInv'
<1> DEFINE field == attribute[1]
           value == attribute[2]
           w == field \o <<EQ>> \o value
<1>1. field \in Seq(STRING \ {EQ, NUL}) /\ value \in Seq(STRING \ {NUL})
    BY AdditionsAssumption
<1>2. /\ dynamic' = dynamic /\ strtab' = strtab /\ notes' = notes
      /\ versym' = versym /\ verneed' = verneed /\ whole' = whole /\ asked' = asked
      /\ modinfo' = [data |-> modinfo.data \o w \o <<NUL>>,
                     content |-> Append(modinfo.content, <<field, value>>)]
    BY DEF AddAttribute, Call
<1> HIDE DEF field, value
<1>3. ASSUME InfoHeld PROVE InfoHeld'
    <2>1. Attribute(w) = <<field, value>> /\ w \in Seq(Words \ {NUL}) /\ Len(w) >= 1
        BY <1>1, AttributeIs
    <2> HIDE DEF w
    <2>2. /\ modinfo.data \in Seq(Words)
          /\ modinfo.data = << >> \/ modinfo.data[Len(modinfo.data)] = NUL
          /\ modinfo.content = ProcessInfo(modinfo.data)
        BY <1>3 DEF InfoHeld
    <2>3. modinfo'.data = modinfo.data \o w \o <<NUL>>
          /\ modinfo'.content = Append(modinfo.content, <<field, value>>)
        BY <1>2
    <2>4. /\ ProcessInfo(modinfo'.data) = Append(ProcessInfo(modinfo.data), Attribute(w))
          /\ modinfo'.data \in Seq(Words) /\ modinfo'.data[Len(modinfo'.data)] = NUL
        BY <2>1, <2>2, <2>3, InfoAdded
    <2> QED
        BY <2>1, <2>2, <2>3, <2>4 DEF InfoHeld
<1>4. /\ DynamicTypes => DynamicTypes'
      /\ DynamicHeld => DynamicHeld'
      /\ NotesHeld => NotesHeld'
    BY <1>2 DEF DynamicTypes, DynamicHeld, NotesHeld
<1>5. (VersionsHeld => VersionsHeld') /\ (Records => Records')
    BY <1>2 DEF VersionsHeld, Records
<1> QED
    BY <1>2, <1>3, <1>4, <1>5 DEF TablesInv

LEMMA VersionKeeps ==
    ASSUME TablesInv,
           \/ \E v \in Versions : AddVersion(v)
           \/ \E no \in 0..MaxCalls, v \in Versions : ModifyVersion(no, v)
    PROVE  TablesInv'
<1>1. /\ dynamic' = dynamic /\ strtab' = strtab /\ notes' = notes /\ modinfo' = modinfo
      /\ verneed' = verneed /\ whole' = whole /\ asked' = asked
    BY DEF AddVersion, ModifyVersion, Call
<1>2. versym = [data |-> versym.data, num |-> versym.num]
    BY DEF TablesInv, Records
<1>3. ASSUME VersionsHeld PROVE VersionsHeld'
    <2>1. versym.data \in Seq(Nat) /\ versym.num = Len(versym.data)
        BY <1>3 DEF VersionsHeld
    <2>2. ASSUME NEW v \in Versions, AddVersion(v) PROVE VersionsHeld'
        BY <2>1, <2>2, AdditionsAssumption DEF AddVersion, VersionsHeld
    <2>3. ASSUME NEW no \in 0..MaxCalls, NEW v \in Versions, ModifyVersion(no, v)
          PROVE  VersionsHeld'
        <3>1. CASE no < versym.num
            <4>1. versym' = [versym EXCEPT !.data[no + 1] = v]
                BY <2>3, <3>1 DEF ModifyVersion
            <4>2. versym'.data = [versym.data EXCEPT ![no + 1] = v] /\ versym'.num = versym.num
                BY <1>2, <4>1
            <4>3. v \in Nat
                BY AdditionsAssumption
            <4>4. versym'.data \in Seq(Nat) /\ Len(versym'.data) = Len(versym.data)
                <5> DEFINE s == versym.data
                           t == [s EXCEPT ![no + 1] = v]
                           n == Len(versym.data)
                <5>1. n \in Nat /\ s \in [1..n -> Nat]
                    BY <2>1
                <5>2. t \in [1..n -> Nat]
                    <6> HIDE DEF s, n
                    <6> QED
                        BY <4>3, <5>1
                <5>3. versym'.data = t
                    BY <4>2
                <5> HIDE DEF t, n
                <5>4. t \in Seq(Nat) /\ Len(t) = n
                    BY <5>1, <5>2
                <5> QED
                    BY <5>3, <5>4 DEF n
            <4> QED
                BY <2>1, <4>2, <4>4 DEF VersionsHeld
        <3>2. CASE ~(no < versym.num)
            <4>1. versym' = versym
                BY <2>3, <3>2 DEF ModifyVersion
            <4> QED
                BY <2>1, <4>1 DEF VersionsHeld
        <3> QED
            BY <3>1, <3>2
    <2> QED
        BY <2>2, <2>3
<1>4. Records'
    <2>1. Records
        BY DEF TablesInv
    <2>2. ASSUME NEW v \in Versions, AddVersion(v) PROVE Records'
        BY <1>1, <2>1, <2>2 DEF AddVersion, Records
    <2>3. ASSUME NEW no \in 0..MaxCalls, NEW v \in Versions, ModifyVersion(no, v)
          PROVE  Records'
        <3>1. versym' = [versym EXCEPT !.data[no + 1] = v] \/ versym' = versym
            BY <2>3 DEF ModifyVersion
        <3> QED
            BY <1>1, <1>2, <2>1, <3>1 DEF Records
    <2> QED
        BY <2>2, <2>3
<1>5. /\ DynamicTypes => DynamicTypes'
      /\ DynamicHeld => DynamicHeld'
      /\ NotesHeld => NotesHeld'
      /\ InfoHeld => InfoHeld'
    BY <1>1 DEF DynamicTypes, DynamicHeld, NotesHeld, InfoHeld
<1> QED
    BY <1>1, <1>3, <1>4, <1>5 DEF TablesInv

LEMMA NewAccessorsKeep ==
    ASSUME TablesInv, NewAccessors
    PROVE  TablesInv'
<1>1. /\ dynamic' = [dynamic EXCEPT !.num = 0] /\ strtab' = strtab /\ asked' = asked
      /\ notes' = [notes EXCEPT !.starts = ProcessNotes(notes)]
      /\ modinfo' = [modinfo EXCEPT !.content = ProcessInfo(modinfo.data)]
      /\ versym' = [versym EXCEPT !.num = Len(versym.data)]
      /\ verneed' = [verneed EXCEPT !.num = NeedNum(dynamic)]
      /\ whole' = whole
    BY DEF NewAccessors, Call
<1>2. /\ dynamic \in [data : Seq(DynType), size : Nat, sized : BOOLEAN, num : Nat]
      /\ DynamicTypes /\ Records
    BY DEF TablesInv, DynamicTypes
<1>3. /\ dynamic' \in [data : Seq(DynType), size : Nat, sized : BOOLEAN, num : Nat]
      /\ dynamic'.data = dynamic.data /\ dynamic'.size = dynamic.size
      /\ dynamic'.sized = dynamic.sized /\ dynamic'.num = 0
    BY <1>1, <1>2
<1>4. dynamic'.num <= DynCount(dynamic')
    <2>1. DynCount(dynamic') \in 0..dynamic'.size
        BY <1>3, CountIs
    <2> QED
        BY <1>3, <2>1
<1>5. verneed'.chain = verneed.chain /\ verneed'.num \in {NeedNum(dynamic), verneed.num}
    BY <1>1
<1>6. verneed'.num \in {0, Len(verneed'.chain)}
    <2>1. NeedNum(dynamic) \in {0, Len(verneed.chain)}
        <3>1. Len(verneed.chain) \in Nat
            BY <1>2 DEF DynamicTypes
        <3> QED
            BY <1>2, <3>1, NeedIs DEF DynamicTypes
    <2>2. verneed.num \in {0, Len(verneed.chain)}
        BY DEF TablesInv
    <2> QED
        BY <1>5, <2>1, <2>2
<1>7. DynamicTypes'
    BY <1>1, <1>2, <1>3, <1>5 DEF DynamicTypes
<1>8. DynamicHeld => DynamicHeld'
    BY <1>1, <1>3 DEF DynamicHeld
<1>9. ASSUME NotesHeld PROVE NotesHeld'
    <2>1. NotesRecord(notes) /\ Strung(notes.at, notes.size, notes.starts, asked.notes)
        BY <1>9 DEF NotesHeld
    <2>2. ProcessNotes(notes) = notes.starts
        BY <2>1, NotesFound
    <2>3. notes' = notes
        BY <1>1, <2>1, <2>2 DEF NotesRecord
    <2> QED
        BY <1>1, <1>9, <2>3 DEF NotesHeld
<1>10. ASSUME InfoHeld PROVE InfoHeld'
    BY <1>1, <1>10 DEF InfoHeld
<1>11. ASSUME VersionsHeld PROVE VersionsHeld'
    BY <1>1, <1>2, <1>11 DEF VersionsHeld, Records
<1>12. Records'
    BY <1>1, <1>2 DEF Records
<1> QED
    BY <1>1, <1>4, <1>6, <1>7, <1>8, <1>9, <1>10, <1>11, <1>12 DEF TablesInv

LEMMA TablesKeep == TablesInv /\ [TablesNext]_tableVars => TablesInv'
<1> SUFFICES ASSUME TablesInv, [TablesNext]_tableVars PROVE TablesInv'
    OBVIOUS
<1>1. ASSUME NEW f \in TableFiles, OpenTables(f) PROVE TablesInv'
    BY <1>1, OpenKeeps
<1>2. ASSUME CountDynamic PROVE TablesInv'
    BY <1>2, CountKeeps
<1>3. ASSUME NEW e \in DynEntries, AddDynamic(e) PROVE TablesInv'
    BY <1>3, AddDynamicKeeps
<1>4. ASSUME NEW tag \in StringTags, NEW str \in DynStrings, AddDynString(tag, str) PROVE TablesInv'
    BY <1>4, AddDynStringKeeps
<1>5. ASSUME NEW note \in Notes, AddNote(note) PROVE TablesInv'
    BY <1>5, AddNoteKeeps
<1>6. ASSUME NEW attribute \in Attributes, AddAttribute(attribute[1], attribute[2]) PROVE TablesInv'
    BY <1>6, AddAttributeKeeps
<1>7. ASSUME NEW v \in Versions, AddVersion(v) PROVE TablesInv'
    BY <1>7, VersionKeeps
<1>8. ASSUME NEW v \in Versions, NEW no \in 0..MaxCalls, ModifyVersion(no, v) PROVE TablesInv'
    BY <1>8, VersionKeeps
<1>9. ASSUME NewAccessors PROVE TablesInv'
    BY <1>9, NewAccessorsKeep
<1>10. ASSUME UNCHANGED tableVars PROVE TablesInv'
    <2>1. /\ dynamic' = dynamic /\ strtab' = strtab /\ notes' = notes /\ modinfo' = modinfo
          /\ versym' = versym /\ verneed' = verneed /\ asked' = asked /\ whole' = whole
        BY <1>10 DEF tableVars
    <2>2. /\ DynamicTypes' <=> DynamicTypes
          /\ DynamicHeld' <=> DynamicHeld
          /\ NotesHeld' <=> NotesHeld
          /\ InfoHeld' <=> InfoHeld
          /\ VersionsHeld' <=> VersionsHeld
          /\ Records' <=> Records
        BY <2>1 DEF DynamicTypes, DynamicHeld, NotesHeld, InfoHeld, VersionsHeld, Records
    <2> QED
        BY <2>1, <2>2 DEF TablesInv
<1> QED
    BY <1>1, <1>2, <1>3, <1>4, <1>5, <1>6, <1>7, <1>8, <1>9, <1>10 DEF TablesNext

(* Whatever the files hold and whatever is added to their tables, in every order of the
   calls, accessors read what the file had and what was added, each at its index: the
   counts, parsers and additions of dynamic_section_accessor, note_section_accessor,
   modinfo_section_accessor and the version accessors. *)
THEOREM TablesAreRead == TablesSpec => []TablesReadBack
<1>1. TablesInit => TablesInv
    BY TablesStart
<1>2. TablesInv /\ [TablesNext]_tableVars => TablesInv'
    BY TablesKeep
<1>3. TablesInv => TablesReadBack
    BY InvReads
<1> QED
    BY <1>1, <1>2, <1>3, PTL DEF TablesSpec

=============================================================================
