------------------------------ MODULE ElfLink ------------------------------
(***************************************************************************)
(* ElfUtils::elfLinkOne, as its two callers use it: the entries that refer *)
(* to the module itself are linked once, when it is loaded, those that     *)
(* refer to imports at every start of an application, each time over the   *)
(* instructions that the start before left. A pass ends at the first entry *)
(* that cannot be linked. The callers pass no trampolines, which is an     *)
(* empty SlotAt; what the code does with some is modelled all the same.    *)
(*                                                                         *)
(* A word is a number below Half * Half, kept in memory as two half words, *)
(* the upper one first. Half is 2^16 on the console; TLC takes less.       *)
(***************************************************************************)
EXTENDS Integers, Sequences

CONSTANTS
    Half,           \* 2^16
    Span,           \* 2^25: how far the branches of R_PPC_REL24 reach
    CtrBit,         \* 2^6: the bit of an upper half word that R_PPC_REL14 clears
    Targets,        \* the addresses of the instructions to link
    Catalog,        \* the relocation entries a module may have
    MaxEntries,     \* bound: at most this many of them
    Symbols,        \* the addresses that symbols may have
    Words,          \* what may be at a target before it is linked
    SlotAt          \* trampoline_data: the address of each slot

Types == {"NONE", "ADDR32", "DTPREL32", "DTPMOD32", "REL14", "REL24", "OTHER",
          "ADDR16_LO", "ADDR16_HI", "ADDR16_HA", "REL16_LO", "REL16_HI", "REL16_HA"}
WordTypes == {"ADDR32", "DTPREL32"}
HalfTypes == {"ADDR16_LO", "ADDR16_HI", "ADDR16_HA", "REL16_LO", "REL16_HI", "REL16_HA"}

Addresses == 0..(Half * Half - 1)
Entry == [type : Types, target : Addresses, addend : Int, import : BOOLEAN]

ASSUME WidthAssumption ==
    /\ {Half, Span, CtrBit} \subseteq Nat \ {0}
    /\ Half % 8 = 0
    /\ Span % 4 = 0
    /\ Half <= Span
    /\ (Half * Half) % (2 * Span) = 0
    /\ Half % (2 * CtrBit) = 0
ASSUME CatalogAssumption ==
    /\ Catalog \subseteq Entry
    /\ MaxEntries \in Nat
    /\ {Targets, Symbols, Words} \subseteq SUBSET Addresses
    /\ \A t \in Targets : t + 2 \in Addresses
    /\ \A e \in Catalog : \/ e.target \in Targets
                          \/ e.type \in HalfTypes /\ e.target - 2 \in Targets
    /\ SlotAt \in Seq(Addresses)

VARIABLES
    entries,        \* the entries of a module: those for itself, then the imports
    symbol,         \* symbol[j]: the address entry j is linked to
    k,              \* the entry that is next
    pc,             \* "linking", "done" or "failed"
    mem,            \* the half words at the targets
    slots           \* the trampolines: their status and where they lead

vars == <<entries, symbol, k, pc, mem, slots>>

Stored == Targets \cup {t + 2 : t \in Targets}
Slot == [status : {"FREE", "FIXED", "IMPORT_DONE"}, value : Addresses]

Init ==
    /\ \E n \in 1..MaxEntries : entries \in [1..n -> Catalog]
    /\ \A j \in DOMAIN entries : \A l \in DOMAIN entries :
          j < l /\ entries[j].import => entries[l].import
    /\ symbol \in [DOMAIN entries -> Symbols]
    /\ k = 1
    /\ pc = "linking"
    /\ \E w \in [Targets -> Words] :
          mem = [a \in Stored |-> IF a \in Targets THEN w[a] \div Half ELSE w[a - 2] % Half]
    /\ slots = [i \in DOMAIN SlotAt |-> [status |-> "FREE", value |-> 0]]

-----------------------------------------------------------------------------
(* The arithmetic of 32 bits. A difference that does not fit a signed word wraps,
   as the compiled subtraction does. *)
Wrap(x) == x % (Half * Half)
Signed(x, n) == IF x >= n \div 2 THEN x - n ELSE x

(* Mutant: no carry. *)
HaAsHi(v) == v \div Half
Ha(v) == Wrap(v + (Half \div 2)) \div Half

Hi(v) == v \div Half
Lo(v) == v % Half

cur == entries[k]
Value(j) == Wrap(symbol[j] + entries[j].addend)
RelValue(j) == Wrap(Value(j) - entries[j].target)
Distance(from, to) == Signed(Wrap(to - from), Half * Half)

InReach(d, n) == -(n - 4) <= d /\ d <= n - 4
Word(t) == mem[t] * Half + mem[t + 2]

HalfValue(j) ==
    CASE entries[j].type = "ADDR16_LO" -> Lo(Value(j))
      [] entries[j].type = "ADDR16_HI" -> Hi(Value(j))
      [] entries[j].type = "ADDR16_HA" -> Ha(Value(j))
      [] entries[j].type = "REL16_LO" -> Lo(RelValue(j))
      [] entries[j].type = "REL16_HI" -> Hi(RelValue(j))
      [] entries[j].type = "REL16_HA" -> Ha(RelValue(j))

(* Mutants: the displacement is or-ed to the one that is there; the lower two bits
   are lost. *)
Branch24Kept(w, d) == Wrap(w + (d % (2 * Span)))
Branch24Plain(w, d) == (w \div (2 * Span)) * (2 * Span) + (d % (2 * Span))

(* The displacement d in the place of the one in a branch. *)
Branch24(w, d) == (w \div (2 * Span)) * (2 * Span) + (d % (2 * Span)) + (w % 4)
Branch14Low(h, d) == (d % Half) + (h % 4)
ClearCtr(h) == IF (h \div CtrBit) % 2 = 1 THEN h - CtrBit ELSE h

-----------------------------------------------------------------------------
Linking(types) == pc = "linking" /\ k <= Len(entries) /\ cur.type \in types

Store(t, w) == [mem EXCEPT ![t] = w \div Half, ![t + 2] = w % Half]

Linked(m) ==
    /\ mem' = m
    /\ k' = k + 1
    /\ UNCHANGED <<entries, symbol, pc>>

Fail ==
    /\ pc' = "failed"
    /\ UNCHANGED <<entries, symbol, k, mem>>

(* R_PPC_DTPMOD32 is not implemented, and taken as done. *)
LinkNothing == Linking({"NONE", "DTPMOD32"}) /\ Linked(mem) /\ UNCHANGED slots

LinkWord == Linking(WordTypes) /\ Linked(Store(cur.target, Value(k))) /\ UNCHANGED slots

LinkHalf ==
    /\ Linking(HalfTypes)
    /\ Linked([mem EXCEPT ![cur.target] = HalfValue(k)])
    /\ UNCHANGED slots

Unsupported == Linking({"OTHER"}) /\ Fail /\ UNCHANGED slots

LinkRel14 ==
    /\ Linking({"REL14"})
    /\ LET d == Distance(cur.target, Value(k)) IN
          IF InReach(d, Half \div 2) /\ d % 4 = 0
          THEN Linked([mem EXCEPT ![cur.target] = ClearCtr(@),
                                  ![cur.target + 2] = Branch14Low(@, d)])
          ELSE Fail
    /\ UNCHANGED slots

(* The last part of R_PPC_REL24, for the displacement d. *)
LinkBranch(d) ==
    IF d % 4 = 0
    THEN Linked(Store(cur.target, Branch24(Word(cur.target), d)))
    ELSE Fail

Near == InReach(Distance(cur.target, Value(k)), Span)

LinkRel24 ==
    /\ Linking({"REL24"})
    /\ Near
    /\ LinkBranch(Distance(cur.target, Value(k)))
    /\ UNCHANGED slots

(* Mutant: any slot. *)
AnySlot(i) == slots[i].status \in {"FREE", "IMPORT_DONE", "FIXED"}

(* A slot that is free, or that holds the import of an earlier start. *)
Reusable(i) == slots[i].status \in {"FREE", "IMPORT_DONE"}
FirstFree(i) == Reusable(i) /\ \A l \in 1..(i - 1) : ~Reusable(l)
ToSlot(i) == Distance(cur.target, Wrap(SlotAt[i] + cur.addend))

(* A branch that does not reach leads to a slot, which jumps to the value. *)
LinkFar ==
    /\ Linking({"REL24"})
    /\ ~Near
    /\ \E i \in DOMAIN slots :
          /\ FirstFree(i)
          /\ InReach(ToSlot(i), Span)
          /\ slots' = [slots EXCEPT ![i] =
                [status |-> IF cur.import THEN "IMPORT_DONE" ELSE "FIXED", value |-> Value(k)]]
          /\ LinkBranch(ToSlot(i))

OutOfReach ==
    /\ Linking({"REL24"})
    /\ ~Near
    /\ \A i \in DOMAIN slots : FirstFree(i) => ~InReach(ToSlot(i), Span)
    /\ Fail
    /\ UNCHANGED slots

Finish ==
    /\ pc = "linking"
    /\ k > Len(entries)
    /\ pc' = "done"
    /\ UNCHANGED <<entries, symbol, k, mem, slots>>

(* The next application: its RPLs, and so the imports, are somewhere else. *)
NextStart ==
    /\ pc = "done"
    /\ \E s \in [DOMAIN entries -> Symbols] :
          symbol' = [j \in DOMAIN entries |-> IF entries[j].import THEN s[j] ELSE symbol[j]]
    /\ \E n \in 1..(Len(entries) + 1) :
          /\ \A j \in DOMAIN entries : entries[j].import <=> j >= n
          /\ k' = n
    /\ pc' = "linking"
    /\ UNCHANGED <<entries, mem, slots>>

Next ==
    \/ LinkNothing \/ LinkWord \/ LinkHalf \/ Unsupported \/ LinkRel14
    \/ LinkRel24 \/ LinkFar \/ OutOfReach \/ Finish \/ NextStart

Spec == Init /\ [][Next]_vars

-----------------------------------------------------------------------------
(* What the processor makes of the linked code. *)

Footprint(e) == IF e.type \in HalfTypes THEN {e.target} ELSE {e.target, e.target + 2}

(* Entry j is linked, and no other one is at the same place. *)
Settled(j) ==
    /\ j < k
    /\ \A l \in DOMAIN entries \ {j} :
          Footprint(entries[j]) \cap Footprint(entries[l]) = {}

(* Where the branch of entry j leads. *)
Leads(j) ==
    LET t == entries[j].target IN
    IF entries[j].type = "REL14"
    THEN Wrap(t + Signed(mem[t + 2] - (mem[t + 2] % 4), Half))
    ELSE Wrap(t + Signed((Word(t) - (Word(t) % 4)) % (2 * Span), 2 * Span))

Direct(j) == InReach(Distance(entries[j].target, Value(j)), Span)

TypeOK ==
    /\ entries \in Seq(Catalog)
    /\ symbol \in [DOMAIN entries -> Symbols]
    /\ k \in 1..(Len(entries) + 1)
    /\ pc \in {"linking", "done", "failed"}
    /\ mem \in [Stored -> 0..(Half - 1)]
    /\ slots \in [DOMAIN SlotAt -> Slot]

Pair(j, l, hi, lo) ==
    /\ Settled(j) /\ entries[j].type = hi
    /\ Settled(l) /\ entries[l].type = lo

(* Code that loads an address in two halves, by an add that extends the sign of the
   lower half (HA) or by an or (HI), gets the address; a word holds it whole. *)
AddressesMeet ==
    /\ \A j \in DOMAIN entries :
          entries[j].type \in WordTypes /\ Settled(j) => Word(entries[j].target) = Value(j)
    /\ \A j, l \in DOMAIN entries :
          LET upper == mem[entries[j].target] * Half
              lower == mem[entries[l].target] IN
          /\ Pair(j, l, "ADDR16_HA", "ADDR16_LO") /\ Value(j) = Value(l) =>
                Wrap(upper + Signed(lower, Half)) = Value(j)
          /\ Pair(j, l, "ADDR16_HI", "ADDR16_LO") /\ Value(j) = Value(l) =>
                upper + lower = Value(j)
          /\ Pair(j, l, "REL16_HA", "REL16_LO") /\ RelValue(j) = RelValue(l) =>
                Wrap(upper + Signed(lower, Half)) = RelValue(j)

(* A branch that was linked leads to its symbol, at every start again, though what
   an earlier start put into the instruction is still there. *)
BranchesReach ==
    \A j \in DOMAIN entries :
        /\ entries[j].type \in {"REL14", "REL24"}
        /\ entries[j].type = "REL24" => Direct(j)
        /\ Settled(j)
        => Leads(j) = Value(j)

(* A branch of the module to itself that is out of reach leads to a slot that jumps
   to its symbol, whatever the imports do with the other slots. *)
FixedFarReach ==
    \A j \in DOMAIN entries :
        /\ entries[j].type = "REL24"
        /\ entries[j].addend = 0
        /\ ~entries[j].import
        /\ ~Direct(j)
        /\ Settled(j)
        => \E i \in DOMAIN slots : slots[i].value = Value(j) /\ SlotAt[i] = Leads(j)

(* Linking a branch, once or again, leaves its opcode, its condition but for the one
   bit, and its lower two bits; and all that is not at its place. *)
LeavesOthers == \A a \in Stored \ Footprint(cur) : mem'[a] = mem[a]

KeepsBranch24 ==
    mem' # mem /\ cur.type = "REL24" =>
        /\ LeavesOthers
        /\ \A t \in {cur.target} :
              /\ mem[t + 2] % 4 = mem'[t + 2] % 4
              /\ Word(t) \div (2 * Span) = Word(t)' \div (2 * Span)

KeepsBranch14 ==
    mem' # mem /\ cur.type = "REL14" =>
        /\ LeavesOthers
        /\ \A t \in {cur.target} :
              /\ mem[t + 2] % 4 = mem'[t + 2] % 4
              /\ mem[t] \div (2 * CtrBit) = mem'[t] \div (2 * CtrBit)
              /\ mem[t] % CtrBit = mem'[t] % CtrBit

KeepsOtherBits == [][KeepsBranch24 /\ KeepsBranch14]_vars

(* PPC_LOW14, the mask in ElfUtils.h: of the upper half word, R_PPC_REL14 may change
   the bit that predicts a branch (CtrBit \div 2) only. So a branch that counts the
   CTR down to zero still does when it is linked. *)
CtrSet(h) == (h \div CtrBit) % 2 = 1
ConditionKept ==
    (\A w \in Words : CtrSet(w \div Half)) =>
        \A j \in DOMAIN entries :
            entries[j].type = "REL14" /\ Settled(j) => CtrSet(mem[entries[j].target])
=============================================================================
