--------------------------- MODULE ElfLinkProofs ---------------------------
(***************************************************************************)
(* What linked code does, at the widths of the console: for any entries,   *)
(* symbols, addends, trampolines and instructions.                         *)
(***************************************************************************)
EXTENDS ElfLink, TLAPS

Widths == Half = 65536 /\ Span = 33554432 /\ CtrBit = 64

Word32(v) == v \in Int /\ 0 <= v /\ v < Half * Half
HalfWord(h) == h \in Int /\ 0 <= h /\ h < Half

LEMMA Ranges ==
    ASSUME Widths
    PROVE  /\ \A v : v \in Addresses <=> Word32(v)
           /\ \A h : h \in 0..(Half - 1) <=> HalfWord(h)
<1>1. Half \in Nat /\ Half * Half \in Nat
    BY SMT DEF Widths
<1> QED
    BY <1>1 DEF Addresses, Word32, HalfWord

-----------------------------------------------------------------------------
(* The arithmetic. *)

LEMMA Wraps == ASSUME Widths, NEW x \in Int PROVE Word32(Wrap(x))
BY SMT DEF Widths, Word32, Wrap

(* The halves of a word. *)
LEMMA Halves ==
    ASSUME Widths, NEW v, Word32(v)
    PROVE  /\ HalfWord(Hi(v)) /\ HalfWord(Lo(v)) /\ HalfWord(Ha(v))
           /\ Hi(v) * Half + Lo(v) = v
           /\ Wrap(Ha(v) * Half + Signed(Lo(v), Half)) = v
BY SMT DEF Widths, Word32, HalfWord, Hi, Lo, Ha, Wrap, Signed

LEMMA Joined ==
    ASSUME Widths, NEW h, NEW l, HalfWord(h), HalfWord(l)
    PROVE  Word32(h * Half + l)
BY SMT DEF Widths, Word32, HalfWord

(* A displacement added to where it is counted from. *)
LEMMA There ==
    ASSUME Widths, NEW from, NEW to, Word32(from), Word32(to)
    PROVE  Distance(from, to) \in Int /\ Wrap(from + Distance(from, to)) = to
BY SMT DEF Widths, Word32, Distance, Wrap, Signed

(* The displacement that the processor finds in a branch is the one put there. *)
LEMMA Decode24 ==
    ASSUME Widths, NEW w, Word32(w), NEW d \in Int, InReach(d, Span), d % 4 = 0
    PROVE  LET x == Branch24(w, d) IN
           Word32(x) /\ Signed((x - (x % 4)) % (2 * Span), 2 * Span) = d
BY SMT DEF Widths, Word32, Branch24, Signed, InReach

LEMMA Decode14 ==
    ASSUME Widths, NEW h, HalfWord(h), NEW d \in Int, InReach(d, Half \div 2), d % 4 = 0
    PROVE  LET x == Branch14Low(h, d) IN
           HalfWord(x) /\ Signed(x - (x % 4), Half) = d
BY SMT DEF Widths, HalfWord, Branch14Low, Signed, InReach

LEMMA Cleared == ASSUME Widths, NEW h, HalfWord(h) PROVE HalfWord(ClearCtr(h))
BY SMT DEF Widths, HalfWord, ClearCtr

-----------------------------------------------------------------------------
(* What entry j has put into memory. *)
Written(j) ==
    LET t == entries[j].target IN
    /\ entries[j].type \in WordTypes => Word(t) = Value(j)
    /\ entries[j].type \in HalfTypes => mem[t] = HalfValue(j)
    /\ entries[j].type = "REL14" => Leads(j) = Value(j)
    /\ entries[j].type = "REL24" /\ Direct(j) => Leads(j) = Value(j)

(* Nothing undoes what is settled, and a new start finds all linked. *)
KInv ==
    /\ TypeOK
    /\ pc = "done" => k = Len(entries) + 1
    /\ \A j \in DOMAIN entries : Settled(j) => Written(j)

(* What the type invariant says of one entry. *)
LEMMA EntryFacts ==
    ASSUME Widths, TypeOK, NEW j \in DOMAIN entries
    PROVE  /\ j \in Int /\ 1 <= j /\ j <= Len(entries)
           /\ entries[j] \in Entry
           /\ Word32(entries[j].target)
           /\ entries[j].addend \in Int
           /\ Word32(symbol[j])
           /\ entries[j].target \in Stored
           /\ entries[j].type \notin HalfTypes =>
                 entries[j].target \in Targets /\ entries[j].target + 2 \in Stored
           /\ Word32(Value(j)) /\ Word32(RelValue(j))
<1>1. entries[j] \in Catalog /\ j \in 1..Len(entries) /\ Len(entries) \in Nat
    BY DEF TypeOK
<1>2. entries[j] \in Entry
    BY <1>1, CatalogAssumption
<1>3. entries[j].target \in Addresses /\ entries[j].addend \in Int
    BY <1>2 DEF Entry
<1>4. symbol[j] \in Addresses
    BY CatalogAssumption DEF TypeOK
<1>5. Word32(entries[j].target) /\ Word32(symbol[j])
    BY <1>3, <1>4, Ranges
<1>6. /\ entries[j].target \in Stored
      /\ entries[j].type \notin HalfTypes =>
            entries[j].target \in Targets /\ entries[j].target + 2 \in Stored
    <2>1. entries[j].target \in Targets \/ (entries[j].type \in HalfTypes /\ entries[j].target - 2 \in Targets)
        BY <1>1, CatalogAssumption
    <2>2. entries[j].target - 2 \in Targets => entries[j].target \in Stored
        <3>1. (entries[j].target - 2) + 2 = entries[j].target
            BY <1>5 DEF Word32
        <3> QED
            BY <3>1 DEF Stored
    <2> QED
        BY <2>1, <2>2 DEF Stored
<1>7. Word32(Value(j))
    BY <1>3, <1>5, Wraps DEF Value, Word32
<1>8. Word32(RelValue(j))
    BY <1>5, <1>7, Wraps DEF RelValue, Word32
<1> QED
    BY <1>1, <1>2, <1>3, <1>5, <1>6, <1>7, <1>8

LEMMA MemFacts ==
    ASSUME Widths, TypeOK, NEW t \in Targets
    PROVE  HalfWord(mem[t]) /\ HalfWord(mem[t + 2]) /\ Word32(Word(t))
<1>1. mem[t] \in 0..(Half - 1) /\ mem[t + 2] \in 0..(Half - 1)
    BY DEF TypeOK, Stored
<1>2. HalfWord(mem[t]) /\ HalfWord(mem[t + 2])
    BY <1>1, Ranges
<1> QED
    BY <1>2, Joined DEF Word

LEMMA Start == Widths /\ Init => KInv
<1> SUFFICES ASSUME Widths, Init PROVE KInv
    OBVIOUS
<1>1. PICK n \in 1..MaxEntries : entries \in [1..n -> Catalog]
    BY DEF Init
<1>2. entries \in Seq(Catalog) /\ Len(entries) \in Nat
    BY <1>1, CatalogAssumption
<1>3. PICK w \in [Targets -> Words] :
          mem = [a \in Stored |-> IF a \in Targets THEN w[a] \div Half ELSE w[a - 2] % Half]
    BY DEF Init
<1>4. ASSUME NEW t \in Targets
      PROVE  w[t] \div Half \in 0..(Half - 1) /\ w[t] % Half \in 0..(Half - 1)
    <2>1. Word32(w[t])
        BY CatalogAssumption, Ranges
    <2> QED
        BY <2>1, Halves, Ranges DEF Hi, Lo
<1>5. ASSUME NEW a \in Stored, a \notin Targets PROVE a - 2 \in Targets
    <2>1. PICK t \in Targets : a = t + 2
        BY <1>5 DEF Stored
    <2>2. t \in Int
        BY CatalogAssumption, Ranges DEF Word32
    <2> QED
        BY <2>1, <2>2
<1>6. mem \in [Stored -> 0..(Half - 1)]
    BY <1>3, <1>4, <1>5
<1>7. 0 \in Addresses
    <2>1. Word32(0)
        BY SMT DEF Widths, Word32
    <2> QED
        BY <2>1, Ranges
<1>8. slots \in [DOMAIN SlotAt -> Slot]
    BY <1>7 DEF Init, Slot
<1>9. TypeOK
    BY <1>2, <1>6, <1>8 DEF Init, TypeOK
<1>10. \A j \in DOMAIN entries : ~Settled(j)
    BY <1>1 DEF Init, Settled
<1> QED
    BY <1>9, <1>10 DEF Init, KInv

-----------------------------------------------------------------------------
(* A step that links entry k and stores nothing outside its footprint. *)
LEMMA LinkedStep ==
    ASSUME Widths, KInv, NEW m, Linked(m), pc = "linking", k <= Len(entries),
           NEW c, c = k,
           m \in [Stored -> 0..(Half - 1)],
           slots' \in [DOMAIN SlotAt -> Slot],
           \A a \in Stored \ Footprint(cur) : m[a] = mem[a],
           Written(c)'
    PROVE  KInv'
<1>1. /\ TypeOK /\ k \in 1..(Len(entries) + 1) /\ Len(entries) \in Nat
      /\ mem' = m /\ k' = k + 1 /\ entries' = entries /\ symbol' = symbol /\ pc' = pc
    BY DEF KInv, TypeOK, Linked
<1>2. TypeOK'
    BY <1>1 DEF TypeOK
<1>3. ASSUME NEW j \in DOMAIN entries, Settled(j)' PROVE Written(j)'
    <2>1. CASE j = c
        BY <2>1
    <2>2. CASE j # c
        <3>1. j \in Int
            BY <1>1, EntryFacts
        <3>2. k \in Int /\ k \in DOMAIN entries
            BY <1>1 DEF TypeOK
        <3>3. /\ j < k + 1
              /\ \A l \in DOMAIN entries \ {j} :
                    Footprint(entries[j]) \cap Footprint(entries[l]) = {}
            BY <1>1, <1>3 DEF Settled, Footprint
        <3>4. Settled(j) /\ Footprint(entries[j]) \cap Footprint(cur) = {}
            BY <2>2, <3>1, <3>2, <3>3 DEF Settled, cur
        <3>5. Written(j)
            BY <3>4 DEF KInv
        <3>6. /\ entries[j].target \in Stored
              /\ entries[j].type \notin HalfTypes => entries[j].target + 2 \in Stored
            BY <1>1, Widths, EntryFacts
        <3>7. /\ mem'[entries[j].target] = mem[entries[j].target]
              /\ entries[j].type \notin HalfTypes =>
                    mem'[entries[j].target + 2] = mem[entries[j].target + 2]
            BY <1>1, <3>4, <3>6 DEF Footprint
        <3>8. /\ Value(j)' = Value(j) /\ HalfValue(j)' = HalfValue(j) /\ Direct(j)' = Direct(j)
              /\ entries'[j] = entries[j]
            BY <1>1 DEF Value, HalfValue, RelValue, Direct
        <3>9. entries[j].type \notin HalfTypes =>
                 /\ Word(entries[j].target)' = Word(entries[j].target)
                 /\ Leads(j)' = Leads(j)
            BY <1>1, <3>7 DEF Word, Leads
        <3> QED
            BY <3>5, <3>7, <3>8, <3>9 DEF Written, WordTypes, HalfTypes
    <2> QED
        BY <2>1, <2>2
<1> QED
    BY <1>1, <1>2, <1>3 DEF KInv

(* A step that stores a word at a target. *)
LEMMA Stores ==
    ASSUME Widths, TypeOK, NEW t \in Targets, NEW w, Word32(w)
    PROVE  /\ Store(t, w) \in [Stored -> 0..(Half - 1)]
           /\ Store(t, w)[t] = Hi(w) /\ Store(t, w)[t + 2] = Lo(w)
           /\ \A a \in Stored \ {t, t + 2} : Store(t, w)[a] = mem[a]
<1>1. t \in Int /\ t \in Stored /\ t + 2 \in Stored
    BY CatalogAssumption, Ranges DEF Word32, Stored
<1>2. Hi(w) \in 0..(Half - 1) /\ Lo(w) \in 0..(Half - 1)
    BY Halves, Ranges
<1>3. t # t + 2
    BY <1>1
<1>4. mem \in [Stored -> 0..(Half - 1)]
    BY DEF TypeOK
<1>5. Store(t, w) = [mem EXCEPT ![t] = Hi(w), ![t + 2] = Lo(w)]
    BY DEF Store, Hi, Lo
<1> QED
    BY <1>1, <1>2, <1>3, <1>4, <1>5

-----------------------------------------------------------------------------
(* The steps that link, one lemma for each. *)

(* What all of them start from. *)
LEMMA Current ==
    ASSUME Widths, KInv, NEW T, Linking(T)
    PROVE  /\ TypeOK /\ pc = "linking" /\ k <= Len(entries) /\ k \in DOMAIN entries
           /\ cur = entries[k] /\ cur.type \in T
           /\ Word32(cur.target) /\ Word32(Value(k)) /\ Word32(RelValue(k))
           /\ cur.target \in Stored
           /\ cur.type \notin HalfTypes => cur.target \in Targets
           /\ slots \in [DOMAIN SlotAt -> Slot] /\ mem \in [Stored -> 0..(Half - 1)]
<1>1. TypeOK /\ pc = "linking" /\ k <= Len(entries) /\ cur = entries[k] /\ cur.type \in T
    BY DEF KInv, Linking, cur
<1>2. /\ k \in DOMAIN entries
      /\ slots \in [DOMAIN SlotAt -> Slot] /\ mem \in [Stored -> 0..(Half - 1)]
    BY <1>1 DEF TypeOK
<1> QED
    BY <1>1, <1>2, EntryFacts

(* What an entry is linked to does not depend on the step. *)
LEMMA Unmoved ==
    ASSUME UNCHANGED <<entries, symbol>>, NEW j
    PROVE  /\ entries'[j] = entries[j] /\ Value(j)' = Value(j) /\ RelValue(j)' = RelValue(j)
           /\ HalfValue(j)' = HalfValue(j) /\ Direct(j)' = Direct(j)
BY DEF Value, RelValue, HalfValue, Direct

LEMMA NothingStep == ASSUME Widths, KInv, LinkNothing PROVE KInv'
<1>1. Linking({"NONE", "DTPMOD32"}) /\ Linked(mem) /\ slots' = slots
    BY DEF LinkNothing
<1>2. PICK c : c = k
    OBVIOUS
<1>3. Written(c)'
    BY <1>1, <1>2, Unmoved, Current, SMTT(60) DEF Written, Linked, WordTypes, HalfTypes
<1> QED
    BY <1>1, <1>2, <1>3, Current, LinkedStep

(* Constants for the values of this state, which a prime does not move. *)
LEMMA Now == \E c, t, v : c = k /\ t = cur.target /\ v = Value(k)
OBVIOUS

LEMMA WordStep == ASSUME Widths, KInv, LinkWord PROVE KInv'
<1>1. Linking(WordTypes) /\ Linked(Store(cur.target, Value(k))) /\ slots' = slots
    BY DEF LinkWord
<1>2. PICK c, t, v : c = k /\ t = cur.target /\ v = Value(k)
    BY Now
<1> DEFINE m == Store(t, v)
<1>3. t \in Targets /\ Word32(v)
    BY <1>1, <1>2, Current DEF WordTypes, HalfTypes
<1>4. /\ m \in [Stored -> 0..(Half - 1)]
      /\ m[t] = Hi(v) /\ m[t + 2] = Lo(v)
      /\ \A a \in Stored \ {t, t + 2} : m[a] = mem[a]
    BY <1>1, <1>3, Current, Stores
<1>5. Footprint(cur) = {t, t + 2}
    BY <1>1, <1>2, Current DEF Footprint, WordTypes, HalfTypes
<1>6. m[t] * Half + m[t + 2] = v
    BY <1>3, <1>4, Halves
<1>7. Linked(m) /\ mem' = m /\ UNCHANGED <<entries, symbol>>
    BY <1>1, <1>2 DEF Linked
<1> HIDE DEF m
<1>8. Written(c)'
    <2>1. entries'[c] = cur /\ cur.type \in WordTypes /\ Value(c)' = v
        BY <1>1, <1>2, <1>7, Current, Unmoved
    <2>2. Word(t)' = v
        BY <1>6, <1>7 DEF Word
    <2> QED
        BY <1>2, <2>1, <2>2 DEF Written, Word, WordTypes, HalfTypes
<1> QED
    BY <1>1, <1>2, <1>4, <1>5, <1>7, <1>8, Current, LinkedStep

LEMMA HalfValueRange ==
    ASSUME Widths, NEW j, entries[j].type \in HalfTypes, Word32(Value(j)), Word32(RelValue(j))
    PROVE  HalfValue(j) \in 0..(Half - 1)
<1>1. \A v : Word32(v) => /\ Lo(v) \in 0..(Half - 1)
                          /\ Hi(v) \in 0..(Half - 1)
                          /\ Ha(v) \in 0..(Half - 1)
    BY Halves, Ranges
<1> QED
    BY <1>1 DEF HalfValue, HalfTypes

LEMMA HalfStep == ASSUME Widths, KInv, LinkHalf PROVE KInv'
<1>1. Linking(HalfTypes) /\ Linked([mem EXCEPT ![cur.target] = HalfValue(k)]) /\ slots' = slots
    BY DEF LinkHalf
<1>2. PICK c, t, v : c = k /\ t = cur.target /\ v = HalfValue(k)
    OBVIOUS
<1> DEFINE m == [mem EXCEPT ![t] = v]
<1>3. t \in Stored /\ v \in 0..(Half - 1) /\ mem \in [Stored -> 0..(Half - 1)]
    BY <1>1, <1>2, Current, HalfValueRange
<1>4. m \in [Stored -> 0..(Half - 1)] /\ m[t] = v /\ \A a \in Stored \ {t} : m[a] = mem[a]
    BY <1>3
<1>5. Footprint(cur) = {t}
    BY <1>1, <1>2, Current DEF Footprint
<1>6. Linked(m) /\ mem' = m /\ UNCHANGED <<entries, symbol>>
    BY <1>1, <1>2 DEF Linked
<1> HIDE DEF m
<1>7. Written(c)'
    <2>1. entries'[c] = cur /\ cur.type \in HalfTypes /\ HalfValue(c)' = v
        BY <1>1, <1>2, <1>6, Current, Unmoved
    <2> QED
        BY <1>2, <1>4, <1>6, <2>1 DEF Written, WordTypes, HalfTypes
<1> QED
    BY <1>1, <1>2, <1>4, <1>5, <1>6, <1>7, Current, LinkedStep

LEMMA Rel14Step == ASSUME Widths, KInv, LinkRel14, pc' # "failed" PROVE KInv'
<1>1. PICK c, t, v : c = k /\ t = cur.target /\ v = Value(k)
    BY Now
<1> DEFINE d == Distance(t, v)
           h == mem[t]
           l == mem[t + 2]
           m == [mem EXCEPT ![t] = ClearCtr(h), ![t + 2] = Branch14Low(l, d)]
<1>2. /\ Linking({"REL14"}) /\ slots' = slots
      /\ InReach(d, Half \div 2) /\ d % 4 = 0
      /\ Linked(m)
    BY <1>1 DEF LinkRel14, Fail
<1>3. /\ t \in Targets /\ Word32(t) /\ Word32(v)
      /\ cur.type = "REL14" /\ cur = entries[k] /\ TypeOK
    BY <1>1, <1>2, Current DEF HalfTypes
<1>4. HalfWord(h) /\ HalfWord(l)
    BY <1>3, MemFacts
<1>5. d \in Int /\ Wrap(t + d) = v
    BY <1>3, There
<1>6. HalfWord(ClearCtr(h)) /\ HalfWord(Branch14Low(l, d))
    BY <1>2, <1>4, <1>5, Cleared, Decode14
<1>7. Signed(Branch14Low(l, d) - (Branch14Low(l, d) % 4), Half) = d
    BY <1>2, <1>4, <1>5, Decode14
<1>8. t \in Stored /\ t + 2 \in Stored /\ t # t + 2
    BY <1>3 DEF Stored, Word32
<1>9. /\ m \in [Stored -> 0..(Half - 1)]
      /\ m[t + 2] = Branch14Low(l, d)
      /\ \A a \in Stored \ {t, t + 2} : m[a] = mem[a]
    <2>1. ClearCtr(h) \in 0..(Half - 1) /\ Branch14Low(l, d) \in 0..(Half - 1)
        BY <1>6, Ranges
    <2> QED
        BY <1>2, <1>8, <2>1, Current
<1>10. Footprint(cur) = {t, t + 2}
    BY <1>1, <1>3 DEF Footprint, HalfTypes
<1>11. mem' = m /\ UNCHANGED <<entries, symbol>>
    BY <1>2 DEF Linked
<1>12. Written(c)'
    <2>1. entries'[c] = cur /\ Value(c)' = v
        BY <1>1, <1>3, <1>11, Unmoved
    <2>2. Leads(c)' = Wrap(t + Signed(m[t + 2] - (m[t + 2] % 4), Half))
        BY <1>1, <1>3, <1>11, <2>1 DEF Leads
    <2> HIDE DEF m, d, l, h
    <2>3. Leads(c)' = v
        BY <1>5, <1>7, <1>9, <2>2
    <2> QED
        BY <1>3, <2>1, <2>3 DEF Written, WordTypes, HalfTypes
<1> HIDE DEF m
<1> QED
    BY <1>1, <1>2, <1>9, <1>10, <1>12, Current, LinkedStep

(* A branch that gets a displacement d, and leads to where d points. *)
(* A branch that is linked with displacement d leads as far from where it is. *)
LEMMA BranchLeads ==
    ASSUME Widths, KInv, Linking({"REL24"}), NEW d \in Int, InReach(d, Span), d % 4 = 0,
           Linked(Store(cur.target, Branch24(Word(cur.target), d))),
           NEW c, c = k, NEW t, t = cur.target
    PROVE  /\ mem' \in [Stored -> 0..(Half - 1)]
           /\ \A a \in Stored \ Footprint(cur) : mem'[a] = mem[a]
           /\ Leads(c)' = Wrap(t + d)
           /\ Word(t)' = Branch24(Word(t), d) /\ mem'[t + 2] = Lo(Branch24(Word(t), d))
<1> DEFINE w == Word(t)
           x == Branch24(w, d)
           m == Store(t, x)
<1>1. /\ t \in Targets /\ Word32(t)
      /\ cur.type = "REL24" /\ cur = entries[k] /\ TypeOK
    BY Current, SMTT(60) DEF HalfTypes
<1>2. Word32(w)
    BY <1>1, MemFacts
<1>3. Word32(x) /\ Signed((x - (x % 4)) % (2 * Span), 2 * Span) = d
    BY <1>2, Decode24
<1> HIDE DEF x, w
<1>4. /\ m \in [Stored -> 0..(Half - 1)]
      /\ m[t] = Hi(x) /\ m[t + 2] = Lo(x)
      /\ \A a \in Stored \ {t, t + 2} : m[a] = mem[a]
    BY <1>1, <1>3, Stores
<1>5. m[t] * Half + m[t + 2] = x
    BY <1>3, <1>4, Halves
<1>6. mem' = m /\ UNCHANGED <<entries, symbol>>
    BY DEF Linked, x, w
<1> HIDE DEF m
<1>7. Footprint(cur) = {t, t + 2}
    BY <1>1 DEF Footprint, HalfTypes
<1>8. Word(t)' = x
    BY <1>5, <1>6 DEF Word
<1>9. entries'[c] = cur
    BY <1>1, <1>6
<1>10. Leads(c)' = Wrap(t + d)
    BY <1>1, <1>3, <1>8, <1>9 DEF Leads, Word
<1> QED
    BY <1>4, <1>6, <1>7, <1>8, <1>10 DEF x, w

LEMMA BranchStep ==
    ASSUME Widths, KInv, Linking({"REL24"}), NEW d \in Int, InReach(d, Span), d % 4 = 0,
           Linked(Store(cur.target, Branch24(Word(cur.target), d))),
           slots' \in [DOMAIN SlotAt -> Slot],
           Near => d = Distance(cur.target, Value(k))
    PROVE  KInv'
<1>1. PICK c, t, v, n : c = k /\ t = cur.target /\ v = Value(k) /\ n = Near
    OBVIOUS
<1>2. /\ Word32(t) /\ Word32(v)
      /\ cur.type = "REL24" /\ cur = entries[k]
    BY <1>1, Current
<1>3. /\ mem' \in [Stored -> 0..(Half - 1)]
      /\ \A a \in Stored \ Footprint(cur) : mem'[a] = mem[a]
      /\ Leads(c)' = Wrap(t + d)
    BY <1>1, BranchLeads
<1>4. Linked(mem') /\ UNCHANGED <<entries, symbol>>
    BY DEF Linked
<1>5. Written(c)'
    <2>1. entries'[c] = cur /\ Value(c)' = v /\ Direct(c)' = n
        BY <1>1, <1>2, <1>4, Unmoved DEF Near, Direct
    <2>2. n => Leads(c)' = v
        BY <1>1, <1>2, <1>3, There
    <2> QED
        BY <1>2, <2>1, <2>2 DEF Written, WordTypes, HalfTypes
<1>6. PICK m : m = mem'
    OBVIOUS
<1>7. /\ Linked(m) /\ m \in [Stored -> 0..(Half - 1)]
      /\ \A a \in Stored \ Footprint(cur) : m[a] = mem[a]
    BY <1>3, <1>4, <1>6 DEF Linked
<1> QED
    BY <1>1, <1>5, <1>7, Current, LinkedStep

(* A slot is given a value that fits. *)
LEMMA SlotTypes ==
    ASSUME Widths, KInv, LinkFar
    PROVE  slots' \in [DOMAIN SlotAt -> Slot]
<1>1. Linking({"REL24"})
    BY DEF LinkFar
<1>2. Value(k) \in Addresses /\ slots \in [DOMAIN SlotAt -> Slot]
    BY <1>1, Current, Ranges
<1>3. PICK i \in DOMAIN slots : slots' = [slots EXCEPT ![i] =
          [status |-> IF cur.import THEN "IMPORT_DONE" ELSE "FIXED", value |-> Value(k)]]
    BY DEF LinkFar
<1>4. [status |-> IF cur.import THEN "IMPORT_DONE" ELSE "FIXED", value |-> Value(k)] \in Slot
    BY <1>2 DEF Slot
<1> QED
    BY <1>2, <1>3, <1>4

LEMMA FarStep == ASSUME Widths, KInv, LinkFar, pc' # "failed" PROVE KInv'
<1>1. Linking({"REL24"}) /\ ~Near
    BY DEF LinkFar
<1>2. PICK i \in DOMAIN slots : InReach(ToSlot(i), Span) /\ LinkBranch(ToSlot(i))
    BY DEF LinkFar
<1>3. Word32(cur.target) /\ cur.addend \in Int /\ i \in DOMAIN SlotAt
    BY <1>1, Current, EntryFacts DEF TypeOK
<1>4. Word32(SlotAt[i])
    BY <1>3, CatalogAssumption, Ranges
<1>5. Word32(Wrap(SlotAt[i] + cur.addend))
    BY <1>3, <1>4, Wraps DEF Word32
<1>6. ToSlot(i) \in Int
    BY <1>3, <1>5, There DEF ToSlot
<1>7. ToSlot(i) % 4 = 0 /\ Linked(Store(cur.target, Branch24(Word(cur.target), ToSlot(i))))
    BY <1>2 DEF LinkBranch, Fail
<1> QED
    BY <1>1, <1>2, <1>6, <1>7, SlotTypes, BranchStep

LEMMA NearStep == ASSUME Widths, KInv, LinkRel24, pc' # "failed" PROVE KInv'
<1>1. Linking({"REL24"}) /\ Near /\ slots' = slots
    BY DEF LinkRel24
<1> DEFINE d == Distance(cur.target, Value(k))
<1>2. Word32(cur.target) /\ Word32(Value(k)) /\ slots' \in [DOMAIN SlotAt -> Slot]
    BY <1>1, Current
<1>3. d \in Int /\ InReach(d, Span)
    BY <1>1, <1>2, There DEF Near
<1>4. d % 4 = 0 /\ Linked(Store(cur.target, Branch24(Word(cur.target), d)))
    BY DEF LinkRel24, LinkBranch, Fail
<1> QED
    BY <1>1, <1>2, <1>3, <1>4, BranchStep

(* The pass ends at an entry that cannot be linked. *)
LEMMA FailStep ==
    ASSUME Widths, KInv, pc' = "failed", Next
    PROVE  KInv'
<1>1. /\ UNCHANGED <<entries, symbol, k, mem>>
      /\ slots' = slots \/ LinkFar
    BY DEF Next, LinkNothing, LinkWord, LinkHalf, Unsupported, LinkRel14, LinkRel24, LinkFar,
           LinkBranch, OutOfReach, Finish, NextStart, Linked, Linking, Fail
<1>2. slots' \in [DOMAIN SlotAt -> Slot]
    BY <1>1, SlotTypes DEF KInv, TypeOK
<1>3. TypeOK'
    BY <1>1, <1>2 DEF KInv, TypeOK
<1>4. ASSUME NEW j \in DOMAIN entries PROVE Settled(j)' = Settled(j) /\ Written(j)' = Written(j)
    BY <1>1 DEF Settled, Written, Leads, Word, Value, HalfValue, RelValue, Direct
<1> QED
    BY <1>1, <1>3, <1>4 DEF KInv

LEMMA FinishStep == ASSUME Widths, KInv, Finish PROVE KInv'
<1>1. UNCHANGED <<entries, symbol, k, mem, slots>> /\ pc' = "done"
    BY DEF Finish
<1>2. TypeOK' /\ k = Len(entries) + 1
    BY <1>1 DEF Finish, KInv, TypeOK
<1>3. ASSUME NEW j \in DOMAIN entries PROVE Settled(j)' = Settled(j) /\ Written(j)' = Written(j)
    BY <1>1 DEF Settled, Written, Leads, Word, Value, HalfValue, RelValue, Direct
<1> QED
    BY <1>1, <1>2, <1>3 DEF KInv

(* What refers to the module itself stays as it is. *)
LEMMA NextStartStep == ASSUME Widths, KInv, NextStart PROVE KInv'
<1>1. /\ UNCHANGED <<entries, mem, slots>> /\ pc = "done" /\ pc' = "linking"
      /\ k = Len(entries) + 1 /\ TypeOK
    BY DEF NextStart, KInv
<1>2. PICK s \in [DOMAIN entries -> Symbols] :
          symbol' = [j \in DOMAIN entries |-> IF entries[j].import THEN s[j] ELSE symbol[j]]
    BY DEF NextStart
<1>3. k' \in 1..(Len(entries) + 1) /\ \A j \in DOMAIN entries : entries[j].import <=> j >= k'
    BY DEF NextStart
<1>4. TypeOK'
    BY <1>1, <1>2, <1>3 DEF TypeOK
<1>5. ASSUME NEW j \in DOMAIN entries, Settled(j)' PROVE Written(j)'
    <2>1. j \in Int /\ j <= Len(entries) /\ Len(entries) \in Nat
        BY <1>1, EntryFacts DEF TypeOK
    <2>2. j < k' /\ symbol'[j] = symbol[j]
        <3>1. j < k'
            BY <1>5 DEF Settled
        <3> QED
            BY <1>2, <1>3, <2>1, <3>1
    <2>3. Settled(j)
        <3>1. \A l \in DOMAIN entries \ {j} :
                  Footprint(entries[j]) \cap Footprint(entries[l]) = {}
            BY <1>1, <1>5 DEF Settled, Footprint
        <3>2. j < k
            BY <1>1, <2>1
        <3> QED
            BY <3>1, <3>2 DEF Settled
    <2>4. Written(j)
        BY <2>3 DEF KInv
    <2>5. Value(j)' = Value(j) /\ RelValue(j)' = RelValue(j)
        BY <1>1, <2>2 DEF Value, RelValue
    <2>6. HalfValue(j)' = HalfValue(j) /\ Direct(j)' = Direct(j)
        BY <1>1, <2>5 DEF HalfValue, Direct
    <2>7. Leads(j)' = Leads(j) /\ Word(entries[j].target)' = Word(entries[j].target)
        BY <1>1 DEF Leads, Word
    <2> QED
        BY <1>1, <2>4, <2>5, <2>6, <2>7 DEF Written
<1> QED
    BY <1>1, <1>4, <1>5 DEF KInv

LEMMA Step == ASSUME Widths, KInv, [Next]_vars PROVE KInv'
<1>1. CASE UNCHANGED vars
    <2>1. ASSUME NEW j \in DOMAIN entries PROVE Settled(j)' = Settled(j) /\ Written(j)' = Written(j)
        BY <1>1 DEF vars, Settled, Written, Leads, Word, Value, HalfValue, RelValue, Direct
    <2> QED
        BY <1>1, <2>1 DEF vars, KInv, TypeOK
<1>2. CASE Next /\ pc' = "failed"
    BY <1>2, FailStep
<1>3. CASE Next /\ pc' # "failed"
    <2>1. ~Unsupported /\ ~OutOfReach
        BY <1>3 DEF Unsupported, OutOfReach, Fail
    <2> QED
        BY <1>3, <2>1, NothingStep, WordStep, HalfStep, Rel14Step, NearStep, FarStep,
           FinishStep, NextStartStep DEF Next
<1> QED
    BY <1>1, <1>2, <1>3

-----------------------------------------------------------------------------
LEMMA Invariant == ASSUME Widths PROVE Spec => []KInv
<1>1. Init => KInv
    BY Start
<1>2. KInv /\ [Next]_vars => KInv'
    BY Step
<1> QED
    BY <1>1, <1>2, PTL DEF Spec

(* The half words in memory and the trampolines stay in their ranges. *)
THEOREM LinkTypes == ASSUME Widths PROVE Spec => []TypeOK
<1>1. KInv => TypeOK
    BY DEF KInv
<1> QED
    BY <1>1, Invariant, PTL

(* Every address that linked code loads, whole or in two halves, is the one it was
   linked to: the carry of R_PPC_ADDR16_HA makes up for the sign of the lower half,
   for all 2^32 of them. *)
THEOREM AddressesRight == ASSUME Widths PROVE Spec => []AddressesMeet
<1>1. KInv => AddressesMeet
    <2> SUFFICES ASSUME KInv PROVE AddressesMeet
        OBVIOUS
    <2>1. ASSUME NEW j \in DOMAIN entries, Settled(j)
          PROVE  /\ Written(j)
                 /\ Word32(Value(j)) /\ Word32(RelValue(j))
        BY <2>1, EntryFacts DEF KInv
    <2>2. ASSUME NEW j \in DOMAIN entries, entries[j].type \in WordTypes, Settled(j)
          PROVE  Word(entries[j].target) = Value(j)
        BY <2>1, <2>2 DEF Written
    <2>3. ASSUME NEW j \in DOMAIN entries, NEW l \in DOMAIN entries,
                 Pair(j, l, "ADDR16_HA", "ADDR16_LO"), Value(j) = Value(l)
          PROVE  Wrap(mem[entries[j].target] * Half + Signed(mem[entries[l].target], Half)) = Value(j)
        <3>1. mem[entries[j].target] = Ha(Value(j)) /\ mem[entries[l].target] = Lo(Value(j))
            BY <2>1, <2>3 DEF Pair, Written, HalfValue, HalfTypes
        <3> QED
            BY <2>1, <2>3, <3>1, Halves DEF Pair
    <2>4. ASSUME NEW j \in DOMAIN entries, NEW l \in DOMAIN entries,
                 Pair(j, l, "ADDR16_HI", "ADDR16_LO"), Value(j) = Value(l)
          PROVE  mem[entries[j].target] * Half + mem[entries[l].target] = Value(j)
        <3>1. mem[entries[j].target] = Hi(Value(j)) /\ mem[entries[l].target] = Lo(Value(j))
            BY <2>1, <2>4 DEF Pair, Written, HalfValue, HalfTypes
        <3> QED
            BY <2>1, <2>4, <3>1, Halves DEF Pair
    <2>5. ASSUME NEW j \in DOMAIN entries, NEW l \in DOMAIN entries,
                 Pair(j, l, "REL16_HA", "REL16_LO"), RelValue(j) = RelValue(l)
          PROVE  Wrap(mem[entries[j].target] * Half + Signed(mem[entries[l].target], Half)) = RelValue(j)
        <3>1. mem[entries[j].target] = Ha(RelValue(j)) /\ mem[entries[l].target] = Lo(RelValue(j))
            BY <2>1, <2>5 DEF Pair, Written, HalfValue, HalfTypes
        <3> QED
            BY <2>1, <2>5, <3>1, Halves DEF Pair
    <2> QED
        BY <2>2, <2>3, <2>4, <2>5 DEF AddressesMeet
<1> QED
    BY <1>1, Invariant, PTL

(* Every branch that was linked leads to what it was linked to, up to the last word
   in reach and after any number of starts. *)
THEOREM BranchesRight == ASSUME Widths PROVE Spec => []BranchesReach
<1>1. KInv => BranchesReach
    BY DEF KInv, BranchesReach, Written
<1> QED
    BY <1>1, Invariant, PTL

-----------------------------------------------------------------------------
(* The branches that do not reach, of the module to itself. *)
FarBranch(j) ==
    /\ entries[j].type = "REL24"
    /\ entries[j].addend = 0
    /\ ~entries[j].import
    /\ ~Direct(j)

(* A slot that no import takes. *)
ViaSlot(j) ==
    \E i \in DOMAIN SlotAt :
        slots[i].status = "FIXED" /\ slots[i].value = Value(j) /\ SlotAt[i] = Leads(j)

FarInv ==
    /\ KInv
    /\ \A j \in DOMAIN entries : FarBranch(j) /\ Settled(j) => ViaSlot(j)

(* No step writes anywhere but where the entry is that it links. *)
LEMMA Elsewhere ==
    ASSUME Widths, KInv, Next
    PROVE  \/ mem' = mem
           \/ \A a \in Stored \ Footprint(cur) : mem'[a] = mem[a]
<1> DEFINE Only == \A a \in Stored \ Footprint(cur) : mem'[a] = mem[a]
<1>1. mem \in [Stored -> 0..(Half - 1)]
    BY DEF KInv, TypeOK
<1>2. CASE LinkWord
    BY <1>1, <1>2 DEF LinkWord, Linking, Linked, Store, Footprint, WordTypes, HalfTypes
<1>3. CASE LinkHalf
    BY <1>1, <1>3 DEF LinkHalf, Linking, Linked, Footprint
<1>4. CASE LinkRel14
    BY <1>1, <1>4 DEF LinkRel14, Linking, Linked, Fail, Footprint, HalfTypes
<1>5. CASE LinkRel24
    BY <1>1, <1>5 DEF LinkRel24, LinkBranch, Linking, Linked, Store, Fail, Footprint, HalfTypes
<1>6. CASE LinkFar
    BY <1>1, <1>6 DEF LinkFar, LinkBranch, Linking, Linked, Store, Fail, Footprint, HalfTypes
<1>7. CASE LinkNothing \/ Unsupported \/ OutOfReach \/ Finish \/ NextStart
    BY <1>7 DEF LinkNothing, Linked, Unsupported, OutOfReach, Finish, NextStart, Fail
<1> QED
    BY <1>2, <1>3, <1>4, <1>5, <1>6, <1>7 DEF Next

(* A slot of the module itself is never taken again. *)
LEMMA FixedStays ==
    ASSUME KInv, Next, NEW i \in DOMAIN SlotAt, slots[i].status = "FIXED"
    PROVE  slots'[i] = slots[i]
<1>1. slots \in [DOMAIN SlotAt -> Slot]
    BY DEF KInv, TypeOK
<1>2. CASE LinkFar
    <2>1. PICK l \in DOMAIN slots : FirstFree(l) /\ slots' = [slots EXCEPT ![l] =
              [status |-> IF cur.import THEN "IMPORT_DONE" ELSE "FIXED", value |-> Value(k)]]
        BY <1>2 DEF LinkFar
    <2>2. l # i
        BY <2>1 DEF FirstFree, Reusable
    <2> QED
        BY <1>1, <2>1, <2>2
<1>3. CASE ~LinkFar
    BY <1>3 DEF Next, LinkNothing, LinkWord, LinkHalf, Unsupported, LinkRel14, LinkRel24,
                OutOfReach, Finish, NextStart
<1> QED
    BY <1>2, <1>3

(* An entry that was settled before a step, with the symbol it had. *)
LEMMA FarStays ==
    ASSUME Widths, FarInv, Next, NEW j \in DOMAIN entries,
           entries' = entries, symbol'[j] = symbol[j], Settled(j),
           mem' # mem => Footprint(entries[j]) \cap Footprint(cur) = {},
           FarBranch(j)'
    PROVE  ViaSlot(j)'
<1>1. Value(j)' = Value(j) /\ Direct(j)' = Direct(j) /\ entries'[j] = entries[j]
    BY DEF Value, Direct
<1>2. FarBranch(j)
    BY <1>1 DEF FarBranch
<1>3. PICK i \in DOMAIN SlotAt :
          slots[i].status = "FIXED" /\ slots[i].value = Value(j) /\ SlotAt[i] = Leads(j)
    BY <1>2 DEF FarInv, ViaSlot
<1>4. slots'[i] = slots[i]
    BY <1>3, FixedStays DEF FarInv
<1>5. TypeOK
    BY DEF FarInv, KInv
<1>6. /\ entries[j].target \in Stored /\ entries[j].target + 2 \in Stored
      /\ Footprint(entries[j]) = {entries[j].target, entries[j].target + 2}
    BY <1>2, <1>5, EntryFacts DEF FarBranch, HalfTypes, Footprint
<1>7. /\ mem'[entries[j].target] = mem[entries[j].target]
      /\ mem'[entries[j].target + 2] = mem[entries[j].target + 2]
    BY <1>6, Elsewhere DEF FarInv
<1>8. Leads(j)' = Leads(j)
    BY <1>1, <1>7 DEF Leads, Word
<1> QED
    BY <1>1, <1>3, <1>4, <1>8 DEF ViaSlot

(* The step that links such a branch. *)
LEMMA FarLinked ==
    ASSUME Widths, KInv, Next, NEW c, c = k, k' = k + 1, UNCHANGED <<entries, symbol>>,
           pc = "linking", k <= Len(entries), pc' # "failed", FarBranch(c)'
    PROVE  ViaSlot(c)'
<1>1. FarBranch(k) /\ Value(c)' = Value(k)
    BY Unmoved DEF FarBranch
<1>2. LinkFar
    <2>1. ~Near /\ cur.type = "REL24"
        BY <1>1 DEF FarBranch, Near, Direct, cur
    <2> QED
        BY <2>1 DEF Next, LinkNothing, LinkWord, LinkHalf, Unsupported, LinkRel14, LinkRel24,
                    OutOfReach, Finish, NextStart, Linking, Fail, WordTypes, HalfTypes
<1>3. PICK i \in DOMAIN slots :
          /\ InReach(ToSlot(i), Span) /\ LinkBranch(ToSlot(i))
          /\ slots' = [slots EXCEPT ![i] =
                [status |-> IF cur.import THEN "IMPORT_DONE" ELSE "FIXED", value |-> Value(k)]]
    BY <1>2 DEF LinkFar
<1>4. PICK t, d : t = cur.target /\ d = ToSlot(i)
    OBVIOUS
<1>5. Linking({"REL24"}) /\ slots \in [DOMAIN SlotAt -> Slot] /\ i \in DOMAIN SlotAt
    BY <1>2, <1>3 DEF LinkFar, KInv, TypeOK
<1>6. Word32(t) /\ Word32(SlotAt[i]) /\ cur.addend = 0 /\ ~cur.import
    BY <1>1, <1>4, <1>5, Current, CatalogAssumption, Ranges DEF FarBranch
<1>7. d = Distance(t, SlotAt[i])
    <2>1. Wrap(SlotAt[i] + 0) = SlotAt[i]
        BY <1>6 DEF Wrap, Word32, Widths
    <2> QED
        BY <1>4, <1>6, <2>1 DEF ToSlot
<1>8. d \in Int /\ Wrap(t + d) = SlotAt[i]
    BY <1>6, <1>7, There
<1>9. d % 4 = 0 /\ Linked(Store(cur.target, Branch24(Word(cur.target), d)))
    BY <1>3, <1>4 DEF LinkBranch, Fail
<1>10. Leads(c)' = SlotAt[i]
    BY <1>3, <1>4, <1>5, <1>8, <1>9, BranchLeads
<1>11. slots'[i] = [status |-> "FIXED", value |-> Value(k)]
    BY <1>3, <1>5, <1>6
<1> QED
    BY <1>1, <1>5, <1>10, <1>11 DEF ViaSlot

LEMMA FarSteps == ASSUME Widths, FarInv, [Next]_vars PROVE FarInv'
<1>1. KInv'
    BY Step DEF FarInv
<1>2. CASE UNCHANGED vars
    <2>1. ASSUME NEW j \in DOMAIN entries
          PROVE  /\ Settled(j)' = Settled(j) /\ FarBranch(j)' = FarBranch(j)
                 /\ ViaSlot(j)' = ViaSlot(j)
        BY <1>2 DEF vars, Settled, FarBranch, ViaSlot, Leads, Word, Value, Direct
    <2> QED
        BY <1>1, <1>2, <2>1 DEF vars, FarInv
<1>3. CASE Next
    <2>1. entries' = entries /\ TypeOK
        BY <1>3 DEF Next, LinkNothing, LinkWord, LinkHalf, Unsupported, LinkRel14, LinkRel24,
                    LinkFar, LinkBranch, OutOfReach, Finish, NextStart, Linked, Fail, FarInv, KInv
    <2>2. ASSUME NEW j \in DOMAIN entries, FarBranch(j)', Settled(j)'
          PROVE  ViaSlot(j)'
        <3>1. /\ j \in Int /\ j <= Len(entries) /\ Len(entries) \in Nat /\ k \in Int /\ j < k'
              /\ \A l \in DOMAIN entries \ {j} :
                    Footprint(entries[j]) \cap Footprint(entries[l]) = {}
            <4>1. j \in Int /\ j <= Len(entries) /\ Len(entries) \in Nat /\ k \in Int
                BY <2>1, EntryFacts DEF TypeOK
            <4>2. /\ j < k'
                  /\ \A l \in DOMAIN entries \ {j} :
                        Footprint(entries[j]) \cap Footprint(entries[l]) = {}
                BY <2>1, <2>2 DEF Settled, Footprint
            <4> QED
                BY <4>1, <4>2
        <3>2. CASE UNCHANGED <<k, symbol, mem>>
            BY <1>3, <2>1, <2>2, <3>1, <3>2, FarStays DEF Settled
        <3>3. CASE NextStart
            <4>1. PICK s \in [DOMAIN entries -> Symbols] :
                      symbol' = [l \in DOMAIN entries |-> IF entries[l].import THEN s[l]
                                                          ELSE symbol[l]]
                BY <3>3 DEF NextStart
            <4>2. ~entries[j].import
                BY <2>1, <2>2 DEF FarBranch
            <4>3. symbol'[j] = symbol[j] /\ mem' = mem
                BY <3>3, <4>1, <4>2 DEF NextStart
            <4>4. Settled(j)
                BY <3>1, <3>3 DEF Settled, NextStart, FarInv, KInv
            <4> QED
                BY <1>3, <2>1, <2>2, <4>3, <4>4, FarStays
        <3>4. CASE /\ k' = k + 1 /\ symbol' = symbol /\ pc = "linking" /\ pc' = pc
                   /\ k <= Len(entries)
            <4>1. CASE j = k
                <5>1. PICK c : c = k
                    OBVIOUS
                <5>2. j = c
                    BY <4>1, <5>1
                <5> QED
                    BY <1>3, <2>1, <2>2, <3>4, <5>1, <5>2, FarLinked DEF FarInv
            <4>2. CASE j # k
                <5>1. Settled(j)
                    BY <3>1, <3>4, <4>2 DEF Settled
                <5>2. k \in DOMAIN entries /\ cur = entries[k]
                    BY <2>1, <3>4 DEF TypeOK, cur
                <5>3. Footprint(entries[j]) \cap Footprint(cur) = {}
                    BY <3>1, <4>2, <5>2
                <5> QED
                    BY <1>3, <2>1, <2>2, <3>4, <5>1, <5>3, FarStays
            <4> QED
                BY <4>1, <4>2
        <3> QED
            BY <1>3, <3>2, <3>3, <3>4
            DEF Next, LinkNothing, LinkWord, LinkHalf, Unsupported, LinkRel14, LinkRel24, LinkFar,
                LinkBranch, OutOfReach, Finish, Linking, Linked, Fail
    <2> QED
        BY <1>1, <2>1, <2>2 DEF FarInv
<1> QED
    BY <1>2, <1>3

(* A branch of a module to itself that does not reach its target goes by a trampoline that
   no later start takes for an import: with the trampolines that no caller passes. *)
THEOREM FarBranchesRight == ASSUME Widths PROVE Spec => []FixedFarReach
<1>1. Init => FarInv
    <2>1. ASSUME Init, NEW j \in DOMAIN entries, FarBranch(j) PROVE ~Settled(j)
        BY <2>1, Start, EntryFacts DEF Init, KInv, Settled
    <2> QED
        BY <2>1, Start DEF FarInv
<1>2. FarInv /\ [Next]_vars => FarInv'
    BY FarSteps
<1>3. FarInv => FixedFarReach
    <2>1. FarInv => DOMAIN slots = DOMAIN SlotAt
        BY DEF FarInv, KInv, TypeOK
    <2> QED
        BY <2>1 DEF FarInv, FixedFarReach, FarBranch, ViaSlot
<1> QED
    BY <1>1, <1>2, <1>3, PTL DEF Spec

-----------------------------------------------------------------------------
LEMMA KeepBits24 ==
    ASSUME Widths, NEW h, HalfWord(h), NEW l, HalfWord(l), NEW d \in Int, d % 4 = 0
    PROVE  LET x == Branch24(h * Half + l, d) IN
           /\ x \div (2 * Span) = (h * Half + l) \div (2 * Span)
           /\ Lo(x) % 4 = l % 4
BY SMT DEF Widths, HalfWord, Branch24, Lo

LEMMA KeepBits14 ==
    ASSUME Widths, NEW h, HalfWord(h), NEW d \in Int, d % 4 = 0
    PROVE  /\ Branch14Low(h, d) % 4 = h % 4
           /\ ClearCtr(h) \div (2 * CtrBit) = h \div (2 * CtrBit)
           /\ ClearCtr(h) % CtrBit = h % CtrBit
BY SMT DEF Widths, HalfWord, Branch14Low, ClearCtr

LEMMA Branch24Keeps ==
    ASSUME Widths, KInv, Next, mem' # mem, cur.type = "REL24",
           NEW t, t = cur.target
    PROVE  /\ mem[t + 2] % 4 = mem'[t + 2] % 4
           /\ Word(t) \div (2 * Span) = Word(t)' \div (2 * Span)
<1>1. /\ Linking({"REL24"})
      /\ \/ LinkRel24 /\ LinkBranch(Distance(t, Value(k)))
         \/ \E i \in DOMAIN slots : InReach(ToSlot(i), Span) /\ LinkBranch(ToSlot(i))
    BY DEF Next, LinkNothing, LinkWord, LinkHalf, Unsupported, LinkRel14, LinkRel24, LinkFar,
           OutOfReach, Finish, NextStart, Linked, Linking, Fail, WordTypes, HalfTypes
<1>2. PICK d \in Int : InReach(d, Span) /\ LinkBranch(d)
    <2>1. CASE LinkRel24 /\ LinkBranch(Distance(t, Value(k)))
        BY <1>1, <2>1, Current, There DEF LinkRel24, Near
    <2>2. CASE \E i \in DOMAIN slots : InReach(ToSlot(i), Span) /\ LinkBranch(ToSlot(i))
        <3>1. PICK i \in DOMAIN slots : InReach(ToSlot(i), Span) /\ LinkBranch(ToSlot(i))
            BY <2>2
        <3>2. cur.addend \in Int /\ i \in DOMAIN SlotAt /\ Word32(cur.target)
            BY <1>1, Current, EntryFacts DEF TypeOK
        <3>3. Word32(SlotAt[i])
            BY <3>2, CatalogAssumption, Ranges
        <3>4. Word32(Wrap(SlotAt[i] + cur.addend))
            BY <3>2, <3>3, Wraps DEF Word32
        <3>5. ToSlot(i) \in Int
            BY <3>2, <3>4, There DEF ToSlot
        <3> QED
            BY <3>1, <3>5
    <2> QED
        BY <1>1, <2>1, <2>2
<1>3. d % 4 = 0 /\ Linked(Store(cur.target, Branch24(Word(cur.target), d)))
    BY <1>2 DEF LinkBranch, Fail
<1>4. PICK c : c = k
    OBVIOUS
<1>5. Word(t)' = Branch24(Word(t), d) /\ mem'[t + 2] = Lo(Branch24(Word(t), d))
    BY <1>1, <1>2, <1>3, <1>4, BranchLeads
<1>6. HalfWord(mem[t]) /\ HalfWord(mem[t + 2])
    BY <1>1, Current, MemFacts DEF HalfTypes
<1>7. Word(t) = mem[t] * Half + mem[t + 2]
    BY DEF Word
<1> QED
    BY <1>3, <1>5, <1>6, <1>7, KeepBits24

LEMMA Branch14Keeps ==
    ASSUME Widths, KInv, Next, mem' # mem, cur.type = "REL14",
           NEW t, t = cur.target
    PROVE  /\ mem[t + 2] % 4 = mem'[t + 2] % 4
           /\ mem[t] \div (2 * CtrBit) = mem'[t] \div (2 * CtrBit)
           /\ mem[t] % CtrBit = mem'[t] % CtrBit
<1> DEFINE d == Distance(t, Value(k))
<1>1. /\ Linking({"REL14"})
      /\ d % 4 = 0
      /\ mem' = [mem EXCEPT ![t] = ClearCtr(@), ![t + 2] = Branch14Low(@, d)]
    BY DEF Next, LinkNothing, LinkWord, LinkHalf, Unsupported, LinkRel14, LinkRel24, LinkFar,
           OutOfReach, Finish, NextStart, Linked, Linking, Fail, WordTypes, HalfTypes
<1>2. /\ Word32(t) /\ t \in Targets /\ d \in Int /\ TypeOK
    BY <1>1, Current, There DEF HalfTypes
<1>3. HalfWord(mem[t]) /\ HalfWord(mem[t + 2])
    BY <1>2, MemFacts
<1>4. t \in Stored /\ t + 2 \in Stored /\ t # t + 2 /\ mem \in [Stored -> 0..(Half - 1)]
    BY <1>2 DEF Stored, Word32, TypeOK
<1> HIDE DEF d
<1>5. mem'[t] = ClearCtr(mem[t]) /\ mem'[t + 2] = Branch14Low(mem[t + 2], d)
    BY <1>1, <1>4
<1> QED
    BY <1>1, <1>2, <1>3, <1>5, KeepBits14

(* However often a branch is linked, over what the start before left in it, its opcode, its
   lower two bits and its condition but for one bit are those of the module, and so is all
   that is not at its place. *)
THEOREM BranchesKeepBits == ASSUME Widths PROVE Spec => KeepsOtherBits
<1>1. KInv /\ [Next]_vars => [KeepsBranch24 /\ KeepsBranch14]_vars
    <2> SUFFICES ASSUME KInv, Next PROVE KeepsBranch24 /\ KeepsBranch14
        OBVIOUS
    <2>1. mem' # mem => LeavesOthers
        BY Elsewhere DEF LeavesOthers
    <2> QED
        BY <2>1, Branch24Keeps, Branch14Keeps DEF KeepsBranch24, KeepsBranch14
<1> QED
    BY <1>1, Invariant, PTL DEF Spec, KeepsOtherBits

=============================================================================
