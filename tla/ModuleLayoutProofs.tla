------------------------- MODULE ModuleLayoutProofs -------------------------
(***************************************************************************)
(* What ModuleLayout computes, for all section lists and address ranges.   *)
(* The properties are about modules whose sizes come to less than 2^32     *)
(* (SizesFit): Summed says why no sum wraps then, and the rest of LInv     *)
(* goes by plain numbers.                                                  *)
(***************************************************************************)
EXTENDS ModuleLayout, TLAPS, FiniteSetTheorems, WellFoundedInduction

Indices == DOMAIN sections

Needed == NeededBy(sections)

(* The text_size that the first loop leaves: that of the one code section. *)
CodeCounted ==
    /\ \A t \in Indices : Code(sections[t]) => text_size = sections[t].size
    /\ (\A t \in Indices : ~Code(sections[t])) => text_size = 0

(* How far the first loop is. *)
CountingCode ==
    /\ \A t \in Indices : Code(sections[t]) =>
                              text_size = IF t < i THEN sections[t].size ELSE 0
    /\ (\A t \in Indices : ~Code(sections[t])) => text_size = 0

(* How far the second loop is: data is placed behind the code. *)
PlacedCode ==
    /\ \A t \in Indices : Code(sections[t]) =>
                              baseOffset = data + (IF t < i THEN sections[t].size ELSE 0)
    /\ (\A t \in Indices : ~Code(sections[t])) => baseOffset = data

PlaceOf(j) ==
    IF InText(sections[j].addr) THEN data + (sections[j].addr - TextBase)
    ELSE data + text_size + (sections[j].addr - DataBase)

(* What holds for all headers. *)
Basic ==
    /\ TypeOK
    /\ pc \in {"size", "place"} => i <= Len(sections) + 1
    /\ pc = "size" => Placed = {} /\ baseOffset = data /\ totalSize = 0
    /\ pc = "place" => Placed \subseteq 1..(i - 1)
    /\ \A j \in Placed : /\ sections[j].kind = "bits"
                         /\ InText(sections[j].addr) \/ InData(sections[j].addr)

(* The loops add up what the sections need. *)
Summed ==
    /\ text_size + data_size <= Needed[Len(sections)]
    /\ pc = "size" => text_size + data_size = Needed[i - 1]
    /\ pc \in {"place", "done"} \/ Placed # {} => data + text_size + data_size <= HeapEnd
    /\ pc = "place" => /\ text_size + data_size = Needed[Len(sections)]
                       /\ totalSize <= Needed[i - 1]
                       /\ data <= baseOffset /\ baseOffset <= data + Needed[i - 1]
    /\ pc = "done" => totalSize <= text_size + data_size
    /\ pc # "short"

InBlock ==
    \A j \in Placed :
        /\ data <= destination[j]
        /\ destination[j] + sections[j].size <= data + text_size + data_size

WellPlaced ==
    CodeFirst => /\ pc = "size" => CountingCode
                 /\ pc # "size" => CodeCounted
                 /\ pc = "place" => PlacedCode
                 /\ \A j \in Placed : destination[j] = PlaceOf(j)

LInv == Basic /\ Summed /\ InBlock /\ WellPlaced

-----------------------------------------------------------------------------
(* Sums of sizes *)

(* Any set of natural numbers that is not empty has a least element. *)
LEMMA LeastAddress ==
    ASSUME NEW T, T \subseteq Nat, T # {}
    PROVE  \E a \in T : \A b \in T : a <= b
<1> DEFINE R == {ss \in Nat \X Nat : ss[1] < ss[2]}
<1>1. IsWellFoundedOn(R, Nat)
    BY NatLessThanWellFounded DEF OpToRel
<1>2. PICK a \in T : \A b \in T : ~(<<b, a>> \in R)
    <2> HIDE DEF R
    <2> QED
        BY <1>1, WFMin
<1>3. \A b \in T : ~(b < a)
    BY <1>2
<1> QED
    BY <1>3

(* So a set with 0, and with each number the next one, has all numbers. *)
LEMMA AllNumbers ==
    ASSUME NEW P, 0 \in P, \A n \in Nat : n \in P => n + 1 \in P
    PROVE  \A n \in Nat : n \in P
<1> DEFINE Bad == Nat \ P
<1>1. SUFFICES ASSUME Bad # {} PROVE FALSE
    OBVIOUS
<1>2. PICK e \in Bad : \A l \in Bad : e <= l
    <2>1. Bad \subseteq Nat
        OBVIOUS
    <2> HIDE DEF Bad
    <2> QED
        BY <1>1, <2>1, LeastAddress
<1>3. e \in Nat /\ e \notin P /\ e # 0
    BY <1>2
<1>4. e - 1 \in Nat /\ ~(e <= e - 1) /\ (e - 1) + 1 = e
    BY <1>3
<1>5. e - 1 \in P
    BY <1>2, <1>4
<1> QED
    BY <1>3, <1>4, <1>5

LEMMA SumExists ==
    ASSUME NEW m \in Nat, NEW c \in [Nat -> Nat]
    PROVE  \E g \in [0..m -> Nat] : g[0] = 0 /\ \A j \in 1..m : g[j] = g[j - 1] + c[j]
<1> DEFINE Adds(g, n) == g[0] = 0 /\ \A j \in 1..n : g[j] = g[j - 1] + c[j]
           P == {n \in Nat : \E g \in [0..n -> Nat] : Adds(g, n)}
<1>1. 0 \in P
    <2> DEFINE g == [j \in 0..0 |-> 0]
    <2>1. g \in [0..0 -> Nat] /\ Adds(g, 0)
        OBVIOUS
    <2> QED
        BY <2>1
<1>2. ASSUME NEW n \in Nat, n \in P PROVE n + 1 \in P
    <2>1. PICK g \in [0..n -> Nat] : Adds(g, n)
        BY <1>2
    <2> DEFINE h == [j \in 0..(n + 1) |-> IF j = n + 1 THEN g[n] + c[n + 1] ELSE g[j]]
    <2>2. g[n] + c[n + 1] \in Nat /\ n \in 0..n
        BY <2>1
    <2>3. h \in [0..(n + 1) -> Nat]
        <3>1. ASSUME NEW j \in 0..(n + 1), j # n + 1 PROVE g[j] \in Nat
            <4>1. j \in 0..n
                BY <3>1
            <4> QED
                BY <4>1
        <3> QED
            BY <2>2, <3>1
    <2>4. h[n + 1] = g[n] + c[n + 1] /\ \A j \in 0..n : h[j] = g[j]
        OBVIOUS
    <2>5. g[0] = 0 /\ \A j \in 1..n : g[j] = g[j - 1] + c[j]
        BY <2>1
    <2> HIDE DEF h, P, Adds
    <2>6. ASSUME NEW j \in 1..(n + 1) PROVE h[j] = h[j - 1] + c[j]
        <3>1. CASE j = n + 1
            <4>1. j - 1 = n
                BY <3>1
            <4> QED
                BY <2>2, <2>4, <3>1, <4>1
        <3>2. CASE j # n + 1
            <4>1. j \in 1..n /\ j - 1 \in 0..n /\ j \in 0..n
                BY <3>2
            <4> QED
                BY <2>4, <2>5, <4>1
        <3> QED
            BY <3>1, <3>2
    <2>7. h[0] = 0
        <3>1. 0 \in 0..n
            OBVIOUS
        <3> QED
            BY <2>4, <2>5, <3>1
    <2>8. Adds(h, n + 1)
        BY <2>6, <2>7 DEF Adds
    <2>9. \E x \in [0..(n + 1) -> Nat] : Adds(x, n + 1)
        BY <2>3, <2>8
    <2>10. n + 1 \in Nat
        OBVIOUS
    <2> QED
        BY <2>9, <2>10, Zenon DEF P
<1>3. \A n \in Nat : n \in P
    <2> HIDE DEF P
    <2> QED
        BY <1>1, <1>2, AllNumbers
<1> QED
    BY <1>3

(* What NeededBy gives: the partial sums, which grow. *)
LEMMA NeededIs ==
    ASSUME NEW list, NEW m \in Nat, m = Len(list), \A j \in 1..m : Counted(list[j]) \in Nat
    PROVE  /\ \A n \in 0..m : NeededBy(list)[n] \in Nat
           /\ NeededBy(list)[0] = 0
           /\ \A n \in 1..m : NeededBy(list)[n] = NeededBy(list)[n - 1] + Counted(list[n])
           /\ \A k, n \in 0..m : k <= n => NeededBy(list)[k] <= NeededBy(list)[n]
<1> DEFINE c == [j \in Nat |-> IF j \in 1..m THEN Counted(list[j]) ELSE 0]
           Sum(f) == [n \in 0..m |-> IF n = 0 THEN 0 ELSE f[n - 1] + Counted(list[n])]
           f == NeededBy(list)
<1>1. \E g : g = Sum(g)
    <2>1. c \in [Nat -> Nat]
        OBVIOUS
    <2>2. \A j \in 1..m : c[j] = Counted(list[j])
        OBVIOUS
    <2> HIDE DEF c
    <2>3. PICK g \in [0..m -> Nat] : g[0] = 0 /\ \A j \in 1..m : g[j] = g[j - 1] + c[j]
        BY <2>1, SumExists
    <2>4. ASSUME NEW n \in 0..m PROVE g[n] = Sum(g)[n]
        BY <2>2, <2>3
    <2>5. g = [n \in 0..m |-> g[n]] /\ Sum(g) = [n \in 0..m |-> Sum(g)[n]]
        BY <2>3
    <2> HIDE DEF Sum
    <2>6. [n \in 0..m |-> g[n]] = [n \in 0..m |-> Sum(g)[n]]
        BY <2>4
    <2> QED
        BY <2>5, <2>6
<1>2. f = CHOOSE g : g = Sum(g)
    BY DEF NeededBy
<1>3. f = Sum(f)
    <2> HIDE DEF Sum, f
    <2> QED
        BY <1>1, <1>2
<1> HIDE DEF f
<1>4. f[0] = 0 /\ \A n \in 1..m : f[n] = f[n - 1] + Counted(list[n])
    <2>1. \A n \in 0..m : f[n] = IF n = 0 THEN 0 ELSE f[n - 1] + Counted(list[n])
        BY <1>3
    <2> QED
        BY <2>1
<1> HIDE DEF Sum
<1>5. \A n \in 0..m : f[n] \in Nat
    <2> DEFINE P == {n \in Nat : n \in 0..m => f[n] \in Nat}
    <2>1. 0 \in P
        BY <1>4
    <2>2. ASSUME NEW n \in Nat, n \in P PROVE n + 1 \in P
        <3>1. CASE n + 1 \in 0..m
            <4>1. n + 1 \in 1..m /\ n \in 0..m /\ (n + 1) - 1 = n
                BY <3>1
            <4>2. f[n + 1] = f[n] + Counted(list[n + 1]) /\ Counted(list[n + 1]) \in Nat
                BY <1>4, <4>1
            <4> QED
                BY <2>2, <4>1, <4>2
        <3>2. CASE n + 1 \notin 0..m
            BY <3>2
        <3> QED
            BY <3>1, <3>2
    <2>3. \A n \in Nat : n \in P
        <3> HIDE DEF P
        <3> QED
            BY <2>1, <2>2, AllNumbers
    <2> QED
        BY <2>3
<1>6. \A k, n \in 0..m : k <= n => f[k] <= f[n]
    <2> DEFINE P == {d \in Nat : \A k \in 0..m : k + d <= m => f[k] <= f[k + d]}
    <2>1. 0 \in P
        BY <1>5
    <2>2. ASSUME NEW d \in Nat, d \in P PROVE d + 1 \in P
        <3>1. ASSUME NEW k \in 0..m, k + (d + 1) <= m PROVE f[k] <= f[k + (d + 1)]
            <4>1. k + d \in 0..m /\ k + d + 1 \in 1..m /\ (k + d + 1) - 1 = k + d /\ k + (d + 1) = k + d + 1
                BY <3>1
            <4>2. f[k + d + 1] = f[k + d] + Counted(list[k + d + 1]) /\ Counted(list[k + d + 1]) \in Nat
                BY <1>4, <4>1
            <4>3. f[k] <= f[k + d] /\ f[k] \in Nat /\ f[k + d] \in Nat
                BY <1>5, <2>2, <4>1
            <4>4. PICK a, b, x, y \in Nat : /\ a = f[k] /\ b = f[k + d]
                                            /\ x = Counted(list[k + d + 1]) /\ y = f[k + d + 1]
                BY <4>2, <4>3
            <4>5. a <= y
                BY <4>2, <4>3, <4>4
            <4> QED
                BY <4>1, <4>4, <4>5
        <3> QED
            BY <3>1
    <2>3. \A d \in Nat : d \in P
        <3> HIDE DEF P
        <3> QED
            BY <2>1, <2>2, AllNumbers
    <2>4. ASSUME NEW k \in 0..m, NEW n \in 0..m, k <= n PROVE f[k] <= f[n]
        <3>1. n - k \in Nat /\ k + (n - k) = n
            BY <2>4
        <3>2. n - k \in P
            BY <2>3, <3>1
        <3> QED
            BY <3>1, <3>2
    <2> QED
        BY <2>4
<1> QED
    BY <1>4, <1>5, <1>6 DEF f

LEMMA Widths == Word \in Nat \ {0} /\ HeapEnd \in Nat /\ HeapEnd < Word
BY HeapAssumption, BasesAssumption

LEMMA WrapIs ==
    ASSUME NEW a \in Int
    PROVE  Wrap(a) \in 0..(Word - 1) /\ (0 <= a /\ a < Word => Wrap(a) = a)
BY Widths DEF Wrap

(* What a list of sections is made of. *)
LEMMA SectionTypes ==
    ASSUME SectionsInit
    PROVE  /\ Len(sections) \in Nat
           /\ Indices = 1..Len(sections)
           /\ \A j \in Indices : /\ sections[j] \in Section
                                 /\ sections[j].addr \in Nat
                                 /\ sections[j].size \in Nat
                                 /\ sections[j].size \in 0..(Word - 1)
<1>1. PICK n \in 0..MaxSections : sections \in [1..n -> Catalog]
    BY DEF SectionsInit
<1>2. n \in Nat
    BY SectionsAssumption
<1>3. Len(sections) = n /\ Indices = 1..n
    BY <1>1, <1>2 DEF Indices
<1>4. ASSUME NEW j \in Indices PROVE sections[j] \in Section
    BY <1>1, <1>3, SectionsAssumption
<1> QED
    BY <1>2, <1>3, <1>4, Widths DEF Section

LEMMA SharesAre ==
    ASSUME NEW s, s.addr \in Nat, s.size \in Nat
    PROVE  /\ TextShare(s) \in Nat /\ DataShare(s) \in Nat /\ Counted(s) \in Nat
           /\ s.kind \in {"bits", "bounds"} => Counted(s) = TextShare(s) + DataShare(s)
           /\ s.kind = "bits" /\ (InText(s.addr) \/ InData(s.addr)) =>
                  s.size <= Counted(s) /\ TextShare(s) <= Counted(s)
BY BasesAssumption DEF Counted, TextShare, DataShare, InText, InData

(* The partial sums over the sections. *)
LEMMA Sums ==
    ASSUME SectionsInit
    PROVE  /\ Len(sections) \in Nat /\ Needed[0] = 0
           /\ \A n \in 0..Len(sections) :
                  Needed[n] \in Nat /\ Needed[n] <= Needed[Len(sections)]
           /\ \A n \in 1..Len(sections) : Needed[n] = Needed[n - 1] + Counted(sections[n])
<1>1. PICK m : m = Len(sections)
    OBVIOUS
<1>2. m \in Nat /\ Indices = 1..m
    BY <1>1, SectionTypes
<1>3. \A j \in 1..m : Counted(sections[j]) \in Nat
    BY <1>2, SectionTypes, SharesAre
<1>4. /\ \A n \in 0..m : Needed[n] \in Nat
      /\ Needed[0] = 0
      /\ \A n \in 1..m : Needed[n] = Needed[n - 1] + Counted(sections[n])
      /\ \A k, n \in 0..m : k <= n => Needed[k] <= Needed[n]
    BY <1>1, <1>2, <1>3, NeededIs DEF Needed
<1>5. \A n \in 0..m : n <= m /\ m \in 0..m
    BY <1>2
<1> QED
    BY <1>1, <1>2, <1>4, <1>5

(* The section that a turn of a loop is about. *)
LEMMA CurIs ==
    ASSUME SectionsInit, i \in Nat \ {0}, i <= Len(sections)
    PROVE  /\ i \in Indices /\ cur = sections[i] /\ cur \in Section
           /\ cur.size \in Nat /\ cur.size \in 0..(Word - 1) /\ cur.addr \in Nat
           /\ i \in 1..Len(sections) /\ i - 1 \in 0..Len(sections) /\ i \in 0..Len(sections)
           /\ Len(sections) \in Nat
           /\ TextShare(cur) \in Nat /\ DataShare(cur) \in Nat
           /\ Needed[i] = Needed[i - 1] + Counted(cur)
           /\ Counted(cur) \in Nat /\ Needed[i - 1] \in Nat /\ Needed[i] \in Nat
           /\ Needed[i] <= Needed[Len(sections)] /\ Needed[Len(sections)] \in Nat
<1>1. /\ Len(sections) \in Nat /\ Indices = 1..Len(sections) /\ cur = sections[i]
      /\ i \in 1..Len(sections)
    BY SectionTypes DEF cur
<1>2. cur \in Section /\ cur.size \in Nat /\ cur.size \in 0..(Word - 1) /\ cur.addr \in Nat
    BY <1>1, SectionTypes
<1>3. i - 1 \in 0..Len(sections) /\ i \in 0..Len(sections) /\ Len(sections) \in 0..Len(sections)
    BY <1>1
<1> QED
    BY <1>1, <1>2, <1>3, Sums, SharesAre

LEMMA Start == Init => Basic /\ (SizesFit => LInv)
<1> SUFFICES ASSUME Init PROVE Basic /\ (SizesFit => LInv)
    OBVIOUS
<1>1. Placed = {}
    BY DEF Init, Placed
<1>2. TypeOK
    BY <1>1, Widths DEF Init, TypeOK
<1>3. CountingCode
    BY SectionTypes DEF Init, CountingCode, Indices
<1>4. SectionsInit /\ Len(sections) \in Nat /\ i = 1 /\ pc = "size" /\ text_size = 0 /\ data_size = 0
    BY SectionTypes DEF Init
<1>5. Basic
    BY <1>1, <1>2, <1>4 DEF Init, Basic
<1>6. Summed
    <2>1. Needed[0] = 0 /\ 0 <= Needed[Len(sections)] /\ i - 1 = 0
        BY <1>4, Sums
    <2> QED
        BY <1>1, <1>4, <2>1 DEF Summed
<1> QED
    BY <1>1, <1>3, <1>4, <1>5, <1>6 DEF LInv, InBlock, WellPlaced

-----------------------------------------------------------------------------
(* What holds for all headers *)

LEMMA BasicStep == Basic /\ [Next]_vars => Basic'
<1> SUFFICES ASSUME Basic, [Next]_vars PROVE Basic'
    OBVIOUS
<1>1. /\ SectionsInit /\ i \in Nat \ {0} /\ Len(sections) \in Nat
      /\ pc \in {"size", "place", "done", "skipped", "short", "fatal"}
      /\ {text_size, data_size, data, baseOffset, totalSize} \subseteq 0..(Word - 1)
      /\ Placed \subseteq Indices
      /\ \A j \in Placed : destination[j] \in 0..(Word - 1)
    BY SectionTypes DEF Basic, TypeOK, Indices
<1>2. ASSUME sections' = sections PROVE SectionsInit' /\ Indices' = Indices
    BY <1>1, <1>2 DEF SectionsInit, Indices
<1>3. ASSUME sections' = sections, Placed' = Placed, destination' = destination,
             pc' \in {"size", "place", "done", "skipped", "short", "fatal"}, i' \in Nat \ {0},
             {text_size', data_size', data', baseOffset', totalSize'} \subseteq 0..(Word - 1)
      PROVE  /\ TypeOK'
             /\ \A j \in Placed' : /\ sections'[j].kind = "bits"
                                   /\ InText(sections'[j].addr) \/ InData(sections'[j].addr)
    BY <1>1, <1>2, <1>3 DEF TypeOK, Indices, Basic
<1>4. CASE CountSection
    <2>1. text_size' \in 0..(Word - 1) /\ data_size' \in 0..(Word - 1)
        <3>0. /\ text_size \in 0..(Word - 1) /\ data_size \in 0..(Word - 1) /\ i <= Len(sections)
            BY <1>1, <1>4 DEF CountSection
        <3>1. /\ text_size + TextShare(cur) \in Int /\ data_size + DataShare(cur) \in Int
            <4>1. TextShare(cur) \in Nat /\ DataShare(cur) \in Nat
                BY <1>1, <3>0, CurIs
            <4>2. text_size \in Int /\ data_size \in Int
                BY <3>0, Widths
            <4> QED
                BY <4>1, <4>2
        <3>2. /\ Wrap(text_size + TextShare(cur)) \in 0..(Word - 1)
              /\ Wrap(data_size + DataShare(cur)) \in 0..(Word - 1)
            BY <3>1, WrapIs
        <3> QED
            BY <1>4, <3>0, <3>2 DEF CountSection, sizes
    <2>2. /\ sections' = sections /\ Placed' = Placed /\ pc = "size" /\ pc' = pc /\ i' = i + 1
          /\ i <= Len(sections)
          /\ UNCHANGED <<data, baseOffset, totalSize, destination>>
        BY <1>4 DEF CountSection, Placed
    <2>3. i' \in Nat \ {0} /\ i' <= Len(sections') + 1
        BY <1>1, <2>2
    <2> QED
        BY <1>1, <1>3, <2>1, <2>2, <2>3 DEF Basic
<1>5. CASE AllocateBlock
    <2>1. /\ sections' = sections /\ Placed' = Placed /\ pc = "size" /\ pc' = "place" /\ i' = 1
          /\ data' \in Blocks /\ baseOffset' = data' /\ data' + Allocated <= HeapEnd
          /\ UNCHANGED <<text_size, data_size, totalSize, destination>> /\ Placed = {}
        BY <1>5 DEF AllocateBlock, Placed, sizes, Basic
    <2>2. data' \in 0..(Word - 1)
        <3>1. data' \in 0..HeapEnd
            BY <2>1, HeapAssumption
        <3> QED
            BY <3>1, Widths
    <2>3. i' <= Len(sections') + 1 /\ i' \in Nat \ {0}
        BY <1>1, <2>1
    <2> QED
        BY <1>1, <1>3, <2>1, <2>2, <2>3 DEF Basic
<1>6. CASE BlockFails \/ TooShort \/ Loaded
    <2>1. /\ sections' = sections /\ Placed' = Placed /\ pc' \in {"done", "short", "fatal"}
          /\ UNCHANGED <<i, text_size, data_size, data, baseOffset, totalSize, destination>>
        BY <1>6 DEF BlockFails, TooShort, Loaded, Placed, sizes
    <2> QED
        BY <1>1, <1>3, <2>1 DEF Basic
<1>7. CASE SkipSection
    <2>1. /\ sections' = sections /\ Placed' = Placed /\ pc = "place" /\ pc' = pc /\ i' = i + 1
          /\ UNCHANGED <<text_size, data_size, data, baseOffset, totalSize, destination>>
          /\ i <= Len(sections) /\ Placed \subseteq 1..(i - 1)
        BY <1>7 DEF SkipSection, Placing, Placed, sizes, Basic
    <2>2. i' \in Nat \ {0} /\ i' <= Len(sections') + 1 /\ Placed' \subseteq 1..(i' - 1)
        BY <1>1, <2>1
    <2> QED
        BY <1>1, <1>3, <2>1, <2>2 DEF Basic
<1>8. ASSUME Placing PROVE /\ Wrap(totalSize + cur.size) \in 0..(Word - 1)
                           /\ Wrap(baseOffset + TextShare(cur)) \in 0..(Word - 1)
                           /\ Target \in 0..(Word - 1)
                           /\ i \in Indices /\ cur = sections[i] /\ Indices = 1..Len(sections)
    <2>1. /\ cur.size \in Nat /\ TextShare(cur) \in Nat /\ cur.addr \in Nat /\ i \in Indices
          /\ cur = sections[i] /\ totalSize \in Nat /\ baseOffset \in Nat
          /\ Indices = 1..Len(sections)
        BY <1>1, <1>8, CurIs, SectionTypes, Widths DEF Placing
    <2>2. /\ totalSize + cur.size \in Int /\ baseOffset + TextShare(cur) \in Int
        BY <2>1
    <2>3. baseOffset + cur.addr - (IF InText(cur.addr) THEN TextBase ELSE DataBase) \in Int
        BY <2>1, BasesAssumption
    <2> QED
        BY <2>1, <2>2, <2>3, WrapIs DEF Target
<1>9. CASE Unsupported \/ Overflow
    <2>1. /\ sections' = sections /\ Placed' = Placed /\ pc' \in {"skipped", "fatal"}
          /\ Placing /\ totalSize' = Wrap(totalSize + cur.size)
          /\ baseOffset' \in {baseOffset, Wrap(baseOffset + TextShare(cur))}
          /\ UNCHANGED <<i, text_size, data_size, data, destination>>
        BY <1>9 DEF Unsupported, Overflow, Placed, sizes
    <2>2. totalSize' \in 0..(Word - 1) /\ baseOffset' \in 0..(Word - 1)
        BY <1>1, <1>8, <2>1
    <2> QED
        BY <1>1, <1>3, <2>1, <2>2 DEF Basic
<1>10. CASE PlaceBits
    <2>1. /\ sections' = sections /\ Placed' = Placed \cup {i} /\ pc = "place" /\ pc' = pc
          /\ Placing /\ i' = i + 1 /\ i <= Len(sections) /\ Placed \subseteq 1..(i - 1)
          /\ totalSize' = Wrap(totalSize + cur.size)
          /\ baseOffset' = Wrap(baseOffset + TextShare(cur))
          /\ UNCHANGED <<text_size, data_size, data>>
          /\ cur.kind = "bits" /\ (InText(cur.addr) \/ InData(cur.addr))
          /\ destination'[i] = Target
          /\ \A j \in Placed : destination'[j] = destination[j]
        BY <1>10 DEF PlaceBits, Placing, Placed, sizes, Basic
    <2>2. i' \in Nat \ {0} /\ i' <= Len(sections') + 1 /\ Placed' \subseteq 1..(i' - 1)
          /\ Placed' \subseteq Indices
        <3>1. i \in Indices
            BY <1>8, <2>1
        <3>2. i' \in Nat \ {0} /\ i' <= Len(sections') + 1 /\ i' - 1 = i
            BY <1>1, <2>1
        <3>3. \A j \in Placed' : j \in 1..i
            BY <1>1, <2>1
        <3> QED
            BY <1>1, <2>1, <3>1, <3>2, <3>3
    <2>3. \A j \in Placed' : destination'[j] \in 0..(Word - 1)
        <3>1. destination'[i] \in 0..(Word - 1)
            BY <1>8, <2>1
        <3>2. \A j \in Placed : destination'[j] \in 0..(Word - 1)
            BY <1>1, <2>1
        <3> QED
            BY <2>1, <3>1, <3>2
    <2>4. TypeOK'
        BY <1>1, <1>2, <1>8, <2>1, <2>2, <2>3 DEF TypeOK, Indices
    <2>5. \A j \in Placed' : /\ sections'[j].kind = "bits"
                             /\ InText(sections'[j].addr) \/ InData(sections'[j].addr)
        BY <1>8, <2>1 DEF Basic
    <2> QED
        BY <2>1, <2>2, <2>4, <2>5 DEF Basic
<1>11. CASE UNCHANGED vars
    BY <1>11 DEF vars, Basic, TypeOK, SectionsInit, Placed
<1> QED
    BY <1>4, <1>5, <1>6, <1>7, <1>9, <1>10, <1>11 DEF Next


-----------------------------------------------------------------------------
(* The sizes fit: no sum wraps *)

LEMMA FitStays ==
    ASSUME sections' = sections
    PROVE  Needed' = Needed /\ SizesFit' = SizesFit /\ Indices' = Indices
BY DEF Needed, SizesFit, Indices

(* What is true in each state of the loops. *)
LEMMA StateIs ==
    ASSUME Basic
    PROVE  /\ SectionsInit /\ i \in Nat \ {0} /\ Len(sections) \in Nat
           /\ Indices = 1..Len(sections)
           /\ {text_size, data_size, data, baseOffset, totalSize} \subseteq Nat
           /\ {text_size, data_size, data, baseOffset, totalSize} \subseteq 0..(Word - 1)
           /\ Placed \subseteq Indices
           /\ \A j \in Placed : destination[j] \in Nat
BY SectionTypes, Widths DEF Basic, TypeOK, Indices

LEMMA CountExact ==
    ASSUME Basic, Summed, SizesFit, CountSection
    PROVE  /\ cur.kind \in {"bits", "bounds"} => /\ text_size' = text_size + TextShare(cur)
                                                 /\ data_size' = data_size + DataShare(cur)
           /\ cur.kind \notin {"bits", "bounds"} => text_size' = text_size
                                                    /\ data_size' = data_size
           /\ text_size' + data_size' = Needed[i]
           /\ Needed[i] <= Needed[Len(sections)]
<1>1. /\ SectionsInit /\ i \in Nat \ {0} /\ i <= Len(sections) /\ pc = "size"
      /\ text_size \in Nat /\ data_size \in Nat /\ text_size + data_size = Needed[i - 1]
    BY StateIs DEF CountSection, Summed
<1>2. /\ TextShare(cur) \in Nat /\ DataShare(cur) \in Nat
      /\ Needed[i] = Needed[i - 1] + Counted(cur)
      /\ Needed[i] <= Needed[Len(sections)] /\ Needed[Len(sections)] \in Nat
      /\ Needed[Len(sections)] < Word /\ Needed[i] \in Nat
    BY <1>1, CurIs DEF SizesFit, Needed
<1>3. CASE cur.kind \in {"bits", "bounds"}
    <2>1. Counted(cur) = TextShare(cur) + DataShare(cur)
        BY <1>3 DEF Counted
    <2>2. PICK a, b, c, d, m, n : /\ a = text_size /\ b = data_size /\ c = TextShare(cur)
                                  /\ d = DataShare(cur) /\ m = Needed[i]
                                  /\ n = Needed[Len(sections)]
        OBVIOUS
    <2>3. a + b + (c + d) <= n /\ n < Word /\ m = a + c + (b + d)
          /\ a \in Nat /\ b \in Nat /\ c \in Nat /\ d \in Nat /\ n \in Nat
        BY <1>1, <1>2, <2>1, <2>2
    <2>4. Wrap(a + c) = a + c /\ Wrap(b + d) = b + d
        <3>1. a + c \in Int /\ b + d \in Int /\ 0 <= a + c /\ a + c < Word /\ 0 <= b + d /\ b + d < Word
            BY <2>3, Widths
        <3> QED
            BY <3>1, WrapIs
    <2>5. text_size' = a + c /\ data_size' = b + d
        BY <1>3, <2>2, <2>4 DEF CountSection
    <2> QED
        BY <1>2, <1>3, <2>2, <2>3, <2>5
<1>4. CASE cur.kind \notin {"bits", "bounds"}
    <2>1. Counted(cur) = 0 /\ text_size' = text_size /\ data_size' = data_size
        BY <1>4 DEF Counted, CountSection, sizes
    <2> QED
        BY <1>1, <1>2, <1>4, <2>1
<1> QED
    BY <1>3, <1>4

LEMMA CountStep ==
    ASSUME LInv, SizesFit, CountSection, Basic'
    PROVE  LInv'
<1>1. /\ SectionsInit /\ sections' = sections /\ i \in Nat \ {0} /\ i <= Len(sections)
      /\ text_size \in Nat /\ data_size \in Nat /\ pc = "size" /\ pc' = "size"
      /\ Placed = {} /\ Placed' = {} /\ UNCHANGED <<data, baseOffset, totalSize, destination>>
      /\ i' = i + 1 /\ Basic /\ Summed
    BY StateIs DEF LInv, Basic, Placed, CountSection
<1>2. /\ Len(sections) \in Nat
      /\ Indices = 1..Len(sections)
      /\ cur.addr \in Nat /\ cur.size \in Nat /\ i \in Indices
    BY <1>1, SectionTypes, CurIs
<1>3. /\ cur.kind \in {"bits", "bounds"} => /\ text_size' = text_size + TextShare(cur)
                                            /\ data_size' = data_size + DataShare(cur)
      /\ cur.kind \notin {"bits", "bounds"} => text_size' = text_size
      /\ text_size' + data_size' = Needed[i] /\ Needed[i] <= Needed[Len(sections)]
    BY <1>1, CountExact
<1>4. Summed'
    <2>1. Needed' = Needed /\ i' - 1 = i
        BY <1>1, FitStays
    <2> QED
        BY <1>1, <1>3, <2>1 DEF Summed
<1>5. ASSUME CodeFirst PROVE CountingCode'
    <2>1. CountingCode
        BY <1>1, <1>5 DEF LInv, WellPlaced
    <2>2. ASSUME NEW t \in Indices, NEW l \in Indices, Code(sections[t]), Code(sections[l])
          PROVE  t = l
        BY <1>5, <2>2, <1>1, SectionTypes, BasesAssumption DEF CodeFirst, Code, InText, InData, Indices
    <2>3. CASE Code(cur)
        <3>1. text_size' = text_size + cur.size
            BY <1>3, <2>3 DEF Code, TextShare
        <3>2. text_size = 0
            BY <1>1, <1>2, <2>1, <2>3, SMTT(60) DEF CountingCode, cur
        <3> QED
            BY <1>1, <1>2, <2>2, <2>3, <3>1, <3>2 DEF CountingCode, cur, Indices, Code, InText
    <2>4. CASE ~Code(cur)
        <3>1. text_size' = text_size
            <4>1. cur.kind \in {"bits", "bounds"} => TextShare(cur) = 0
                BY <2>4 DEF Code, TextShare
            <4> QED
                BY <1>1, <1>3, <4>1
        <3> QED
            BY <1>1, <1>2, <2>1, <2>4, <3>1 DEF CountingCode, cur, Indices, Code, InText
    <2> QED
        BY <2>3, <2>4
<1>6. InBlock'
    BY <1>1 DEF InBlock
<1>7. WellPlaced'
    BY <1>1, <1>5 DEF WellPlaced, CodeFirst, Code, InText, InData
<1> QED
    BY <1>4, <1>6, <1>7 DEF LInv

LEMMA AllocateStep ==
    ASSUME LInv, SizesFit, AllocateBlock, Basic'
    PROVE  LInv'
<1>1. /\ SectionsInit /\ sections' = sections /\ i \in Nat \ {0} /\ i > Len(sections)
      /\ text_size \in Nat /\ data_size \in Nat /\ pc = "size" /\ pc' = "place"
      /\ Placed = {} /\ Placed' = {} /\ totalSize = 0
      /\ UNCHANGED <<text_size, data_size, totalSize, destination>>
      /\ i' = 1 /\ baseOffset' = data' /\ data' + Allocated <= HeapEnd /\ Basic /\ Summed
      /\ i <= Len(sections) + 1 /\ Len(sections) \in Nat
    BY StateIs DEF LInv, Basic, Placed, AllocateBlock, sizes
<1>2. data' \in Nat
    BY HeapAssumption DEF AllocateBlock
<1>3. Summed'
    <2>1. Needed' = Needed /\ i - 1 = Len(sections) /\ i' - 1 = 0 /\ Needed[0] = 0
          /\ Needed[Len(sections)] \in Nat /\ Needed[Len(sections)] < Word
          /\ 0 \in 0..Len(sections) /\ 0 <= Needed[Len(sections)]
        BY <1>1, FitStays, Sums DEF SizesFit, Needed
    <2>2. text_size + data_size = Needed[Len(sections)]
        BY <1>1, <2>1 DEF Summed
    <2>3. Allocated = text_size + data_size
        <3>1. text_size + data_size \in Int /\ 0 <= text_size + data_size
              /\ text_size + data_size < Word
            BY <1>1, <2>1, <2>2
        <3> QED
            BY <3>1, WrapIs DEF Allocated
    <2>4. data' + text_size' + data_size' <= HeapEnd
        <3>1. PICK d, t, n : d = data' /\ t = text_size /\ n = data_size
            OBVIOUS
        <3>2. d \in Nat /\ t \in Nat /\ n \in Nat /\ d + (t + n) <= HeapEnd
            BY <1>1, <1>2, <2>3, <3>1
        <3>3. d + t + n <= HeapEnd
            BY <3>2, Widths
        <3> QED
            BY <1>1, <3>1, <3>3
    <2>5. data' <= baseOffset' /\ baseOffset' <= data' + Needed[0]
        <3>1. PICK d, n : d = data' /\ n = Needed[0]
            OBVIOUS
        <3>2. d \in Nat /\ n = 0 /\ baseOffset' = d
            BY <1>1, <1>2, <2>1, <3>1
        <3>3. d <= d + n /\ d <= d
            BY <3>2
        <3>4. baseOffset' = d
            BY <3>2
        <3> QED
            BY <3>1, <3>3, <3>4
    <2> QED
        BY <1>1, <2>1, <2>2, <2>4, <2>5 DEF Summed
<1>4. ASSUME CodeFirst PROVE CodeCounted' /\ PlacedCode'
    <2>1. CountingCode
        BY <1>1, <1>4 DEF LInv, WellPlaced
    <2>2. CodeCounted'
        BY <1>1, <2>1, SectionTypes DEF CountingCode, CodeCounted, Indices, Code, InText
    <2>3. PlacedCode'
        <3>1. Indices' = Indices /\ \A t \in Indices : ~(t < 1)
            BY <1>1, SectionTypes DEF Indices
        <3>2. PICK d : d = data'
            OBVIOUS
        <3>3. d \in Nat /\ baseOffset' = d
            BY <1>1, <1>2, <3>2
        <3>4. ASSUME NEW t \in Indices
              PROVE  d = d + (IF t < 1 THEN sections[t].size ELSE 0)
            <4>1. PICK n : n = IF t < 1 THEN sections[t].size ELSE 0
                OBVIOUS
            <4>2. n = 0
                BY <3>1, <4>1
            <4>3. d = d + n
                BY <3>3, <4>2
            <4> QED
                BY <4>1, <4>3
        <3> QED
            BY <1>1, <3>1, <3>2, <3>3, <3>4 DEF PlacedCode
    <2> QED
        BY <2>2, <2>3
<1>5. InBlock'
    BY <1>1 DEF InBlock
<1>6. WellPlaced'
    BY <1>1, <1>4 DEF WellPlaced, CodeFirst, Code, InText, InData
<1> QED
    BY <1>3, <1>5, <1>6 DEF LInv

(* The loop goes past a section that is not placed. *)
LEMMA SkipStep ==
    ASSUME LInv, SizesFit, SkipSection, Basic'
    PROVE  LInv'
<1>1. /\ SectionsInit /\ sections' = sections /\ i \in Nat \ {0} /\ i <= Len(sections)
      /\ pc = "place" /\ pc' = "place" /\ i' = i + 1 /\ cur.kind # "bits"
      /\ UNCHANGED <<text_size, data_size, data, baseOffset, totalSize, destination>>
      /\ Placed' = Placed
      /\ {text_size, data_size, data, baseOffset, totalSize} \subseteq Nat
    BY StateIs DEF LInv, Placed, sizes, SkipSection, Placing
<1>2. Summed'
    <2>1. Needed' = Needed /\ i' - 1 = i
        BY <1>1, FitStays
    <2>2. Needed[i - 1] <= Needed[i] /\ Needed[i - 1] \in Nat /\ Needed[i] \in Nat
        <3>1. /\ Needed[i] = Needed[i - 1] + Counted(cur)
              /\ Counted(cur) \in Nat /\ Needed[i - 1] \in Nat /\ Needed[i] \in Nat
            BY <1>1, CurIs
        <3>2. PICK m, n, c : m = Needed[i - 1] /\ n = Needed[i] /\ c = Counted(cur)
            OBVIOUS
        <3> QED
            BY <3>1, <3>2
    <2>3. totalSize <= Needed[i - 1] /\ baseOffset <= data + Needed[i - 1]
        BY <1>1 DEF LInv, Summed
    <2>4. totalSize <= Needed[i] /\ baseOffset <= data + Needed[i]
        BY <1>1, <2>2, <2>3
    <2> QED
        BY <1>1, <2>1, <2>4 DEF LInv, Summed
<1>3. ASSUME CodeFirst PROVE CodeCounted' /\ PlacedCode'
    <2>1. CodeCounted /\ PlacedCode
        BY <1>1, <1>3 DEF LInv, WellPlaced
    <2>2. ~Code(cur)
        BY <1>1, <1>3, SectionTypes DEF CodeFirst, cur, Indices
    <2>3. CodeCounted'
        BY <1>1, <2>1 DEF CodeCounted, Indices, Code, InText
    <2>4. PlacedCode'
        BY <1>1, <2>1, <2>2, SectionTypes DEF PlacedCode, Indices, Code, InText, cur
    <2> QED
        BY <2>3, <2>4
<1>4. InBlock'
    BY <1>1 DEF LInv, InBlock
<1>5. ASSUME CodeFirst, NEW j \in Placed PROVE destination'[j] = PlaceOf(j)'
    BY <1>1, <1>5 DEF LInv, WellPlaced, PlaceOf, InText
<1>6. WellPlaced'
    BY <1>1, <1>3, <1>5 DEF WellPlaced, CodeFirst, Code, InText, InData
<1> QED
    BY <1>2, <1>4, <1>6 DEF LInv

(* Where the section at i goes, without a wrap: behind the start of the block, and it ends
   before 2^32; so the check of its end compares the numbers themselves. *)
LEMMA PlaceExact ==
    ASSUME Basic, Summed, SizesFit, Placing, cur.kind = "bits",
           InText(cur.addr) \/ InData(cur.addr)
    PROVE  /\ Target = baseOffset + cur.addr - (IF InText(cur.addr) THEN TextBase ELSE DataBase)
           /\ Target \in Nat /\ data <= Target
           /\ Wrap(Target + cur.size) = Target + cur.size
           /\ EndOfBlock = data + text_size + data_size
           /\ Wrap(totalSize + cur.size) = totalSize + cur.size
           /\ totalSize + cur.size <= Needed[i]
           /\ Wrap(baseOffset + TextShare(cur)) = baseOffset + TextShare(cur)
           /\ data <= baseOffset + TextShare(cur)
           /\ baseOffset + TextShare(cur) <= data + Needed[i]
           /\ Needed[i] <= Needed[Len(sections)]
<1>1. /\ SectionsInit /\ i \in Nat \ {0} /\ i <= Len(sections) /\ pc = "place"
      /\ text_size \in Nat /\ data_size \in Nat /\ data \in Nat /\ baseOffset \in Nat
      /\ totalSize \in Nat
    BY StateIs DEF Placing
<1>2. /\ cur.size \in Nat /\ cur.addr \in Nat /\ TextShare(cur) \in Nat
      /\ Needed[i] = Needed[i - 1] + Counted(cur)
      /\ Needed[i] <= Needed[Len(sections)] /\ Needed[Len(sections)] \in Nat
      /\ Counted(cur) \in Nat /\ Needed[i - 1] \in Nat /\ Needed[i] \in Nat
    BY <1>1, CurIs
<1>3. cur.size <= Counted(cur) /\ TextShare(cur) <= Counted(cur)
    BY <1>2, SharesAre
<1>4. /\ text_size + data_size = Needed[Len(sections)]
      /\ data + text_size + data_size <= HeapEnd
      /\ totalSize <= Needed[i - 1] /\ data <= baseOffset /\ baseOffset <= data + Needed[i - 1]
    BY <1>1 DEF Summed
<1> DEFINE base == IF InText(cur.addr) THEN TextBase ELSE DataBase
<1>5. PICK d, t, n, b, z, a, s, h, x, y, m, k, o :
          /\ d = data /\ t = text_size /\ n = data_size /\ b = baseOffset /\ z = totalSize
          /\ a = cur.addr /\ s = cur.size /\ h = TextShare(cur) /\ x = Needed[i - 1]
          /\ y = Needed[i] /\ m = Needed[Len(sections)] /\ k = Counted(cur) /\ o = base
    OBVIOUS
<1>6. o \in Nat /\ o <= a /\ a - o + 2 * HeapEnd < Word
    <2>1. /\ TextBase \in Nat /\ DataBase \in Nat /\ ImportBase \in Nat /\ HeapEnd \in Nat
          /\ Word \in Nat
          /\ 2 * HeapEnd + (ImportBase - DataBase) <= Word
          /\ 2 * HeapEnd + (DataBase - TextBase) <= Word
        BY BasesAssumption, HeapAssumption
    <2>2. CASE InText(cur.addr)
        <3>1. o = TextBase /\ TextBase <= a /\ a < DataBase /\ a \in Nat
            BY <1>2, <1>5, <2>2 DEF InText
        <3> QED
            BY <2>1, <3>1
    <2>3. CASE ~InText(cur.addr)
        <3>1. o = DataBase /\ DataBase <= a /\ a < ImportBase /\ a \in Nat
            BY <1>2, <1>5, <2>3 DEF InData
        <3> QED
            BY <2>1, <3>1
    <2> QED
        BY <2>2, <2>3
<1>7. /\ d \in Nat /\ t \in Nat /\ n \in Nat /\ b \in Nat /\ z \in Nat /\ a \in Nat /\ s \in Nat
      /\ h \in Nat /\ x \in Nat /\ y \in Nat /\ m \in Nat /\ k \in Nat
      /\ y = x + k /\ y <= m /\ s <= k /\ h <= k /\ t + n = m /\ d + t + n <= HeapEnd
      /\ z <= x /\ d <= b /\ b <= d + x /\ HeapEnd < Word /\ HeapEnd \in Nat /\ Word \in Nat
    BY <1>1, <1>2, <1>3, <1>4, <1>5, Widths
<1>8. /\ b + a - o \in Nat /\ d <= b + a - o /\ b + a - o < Word
      /\ b + a - o + s \in Nat /\ b + a - o + s < Word
    <2>1. b <= HeapEnd /\ s <= HeapEnd
        BY <1>7
    <2> QED
        BY <1>6, <1>7, <2>1
<1>9. /\ d + t + n \in Nat /\ d + t + n < Word
      /\ z + s \in Nat /\ z + s < Word /\ z + s <= y
      /\ b + h \in Nat /\ b + h < Word /\ d <= b + h /\ b + h <= d + y
    BY <1>7
<1>10. ASSUME NEW e \in Nat, e < Word PROVE Wrap(e) = e
    BY <1>10, WrapIs
<1>11. Target = b + a - o
    <2>1. Target = Wrap(b + a - o)
        BY <1>5 DEF Target
    <2> QED
        BY <1>8, <1>10, <2>1
<1>12. EndOfBlock = d + t + n
    <2>1. EndOfBlock = Wrap(d + t + n)
        BY <1>5 DEF EndOfBlock
    <2> QED
        BY <1>9, <1>10, <2>1
<1>13. /\ Wrap(b + a - o + s) = b + a - o + s
       /\ Wrap(z + s) = z + s /\ Wrap(b + h) = b + h
    BY <1>8, <1>9, <1>10
<1> HIDE DEF base
<1>14. o = IF InText(cur.addr) THEN TextBase ELSE DataBase
    BY <1>5 DEF base
<1> QED
    BY <1>5, <1>7, <1>8, <1>9, <1>11, <1>12, <1>13, <1>14

LEMMA PlaceStep ==
    ASSUME LInv, SizesFit, PlaceBits, Basic'
    PROVE  LInv'
<1>1. /\ SectionsInit /\ sections' = sections /\ i \in Nat \ {0} /\ i <= Len(sections)
      /\ pc = "place" /\ pc' = "place" /\ i' = i + 1 /\ cur.kind = "bits"
      /\ UNCHANGED <<text_size, data_size, data>>
      /\ Placed' = Placed \cup {i} /\ Placed \subseteq 1..(i - 1)
      /\ text_size \in Nat /\ data_size \in Nat /\ data \in Nat /\ baseOffset \in Nat
      /\ totalSize \in Nat
      /\ InText(cur.addr) \/ InData(cur.addr)
      /\ Wrap(Target + cur.size) <= EndOfBlock
      /\ totalSize' = Wrap(totalSize + cur.size)
      /\ baseOffset' = Wrap(baseOffset + TextShare(cur))
      /\ Basic /\ Summed /\ Placing
    BY StateIs DEF LInv, Basic, Placed, sizes, PlaceBits, Placing
<1>2. /\ Len(sections) \in Nat
      /\ Indices = 1..Len(sections)
      /\ i \in Indices
      /\ cur.addr \in Nat /\ cur.size \in Nat
    BY <1>1, SectionTypes, CurIs
<1>3. /\ Target = baseOffset + cur.addr - (IF InText(cur.addr) THEN TextBase ELSE DataBase)
      /\ Target \in Nat /\ data <= Target
      /\ Target + cur.size <= data + text_size + data_size
      /\ totalSize' <= Needed[i]
      /\ baseOffset' = baseOffset + TextShare(cur)
      /\ data <= baseOffset' /\ baseOffset' <= data + Needed[i]
      /\ Needed[i] <= Needed[Len(sections)]
    BY <1>1, PlaceExact
<1>4. /\ destination'[i] = Target
      /\ \A j \in Placed : destination'[j] = destination[j]
    BY <1>1 DEF Placed, PlaceBits
<1>5. Summed'
    <2>1. Needed' = Needed /\ i' - 1 = i
        BY <1>1, FitStays
    <2> QED
        BY <1>1, <1>3, <2>1 DEF Summed
<1>6. InBlock'
    <2>1. ASSUME NEW j \in Placed'
          PROVE  /\ data <= destination'[j]
                 /\ destination'[j] + sections[j].size <= data + text_size + data_size
        <3>1. CASE j = i
            BY <1>3, <1>4, <3>1 DEF cur
        <3>2. CASE j \in Placed
            BY <1>4, <3>2 DEF LInv, InBlock
        <3> QED
            BY <1>1, <3>1, <3>2
    <2> QED
        BY <1>1, <2>1 DEF InBlock
<1>7. ASSUME CodeFirst PROVE CodeCounted' /\ PlacedCode' /\ Target = PlaceOf(i)
    <2>1. CodeCounted /\ PlacedCode
        BY <1>1, <1>7 DEF LInv, WellPlaced
    <2>2. ASSUME NEW t \in Indices, Code(sections[t]) PROVE t = i \/ (t < i /\ InData(cur.addr))
        BY <1>1, <1>2, <1>7, <2>2 DEF CodeFirst, cur, Indices
    <2>3. CodeCounted'
        BY <1>1, <2>1 DEF CodeCounted, Indices, Code, InText
    <2>4. CASE Code(cur)
        <3>1. InText(cur.addr) /\ ~InData(cur.addr) /\ TextShare(cur) = cur.size
            BY <1>2, <2>4, BasesAssumption DEF Code, InText, InData, TextShare
        <3>2. \A t \in Indices : Code(sections[t]) => t = i
            BY <2>2, <3>1
        <3>3. baseOffset = data /\ baseOffset' = data + cur.size
            <4>1. PICK n : n = IF i < i THEN sections[i].size ELSE 0
                OBVIOUS
            <4>2. n = 0 /\ baseOffset = data + n
                BY <1>1, <1>2, <2>1, <2>4, <4>1 DEF PlacedCode, cur
            <4>3. baseOffset = data
                BY <1>1, <4>2
            <4> QED
                BY <1>3, <3>1, <4>3
        <3>4. PlacedCode'
            <4>1. i < i' /\ cur = sections[i]
                BY <1>1 DEF cur
            <4>2. ASSUME NEW t \in Indices, Code(sections[t])
                  PROVE  baseOffset' = data + (IF t < i' THEN sections[t].size ELSE 0)
                BY <3>2, <3>3, <4>1, <4>2
            <4>3. ~(\A t \in Indices : ~Code(sections[t]))
                BY <1>2, <2>4, <4>1
            <4> QED
                BY <1>1, <4>2, <4>3 DEF PlacedCode, Indices, Code, InText
        <3>5. Target = PlaceOf(i)
            BY <1>1, <1>2, <1>3, <3>1, <3>3, BasesAssumption DEF PlaceOf, cur
        <3> QED
            BY <2>3, <3>4, <3>5
    <2>5. CASE ~Code(cur)
        <3>1. InData(cur.addr) /\ ~InText(cur.addr) /\ baseOffset' = baseOffset
            <4>1. ~InText(cur.addr)
                BY <1>1, <2>5 DEF Code
            <4>2. PICK n : n = TextShare(cur)
                OBVIOUS
            <4>3. n = 0 /\ baseOffset' = baseOffset + n
                BY <1>3, <4>1, <4>2 DEF TextShare
            <4> QED
                BY <1>1, <4>1, <4>3
        <3>2. baseOffset = data + text_size
            <4>1. CASE \E t \in Indices : Code(sections[t])
                <5>1. PICK t \in Indices : Code(sections[t])
                    BY <4>1
                <5>2. t < i
                    BY <2>2, <2>5, <5>1 DEF cur
                <5> QED
                    BY <2>1, <5>1, <5>2 DEF CodeCounted, PlacedCode
            <4>2. CASE \A t \in Indices : ~Code(sections[t])
                BY <1>1, <2>1, <4>2 DEF CodeCounted, PlacedCode
            <4> QED
                BY <4>1, <4>2
        <3>3. PlacedCode'
            BY <1>1, <1>2, <2>1, <2>5, <3>1 DEF PlacedCode, Indices, Code, InText, cur
        <3>4. Target = PlaceOf(i)
            BY <1>1, <1>2, <1>3, <3>1, <3>2, BasesAssumption DEF PlaceOf, cur
        <3> QED
            BY <2>3, <3>3, <3>4
    <2> QED
        BY <2>4, <2>5
<1>8. ASSUME CodeFirst, NEW j \in Placed' PROVE destination'[j] = PlaceOf(j)'
    <2>1. PlaceOf(j)' = PlaceOf(j)
        BY <1>1 DEF PlaceOf, InText
    <2> QED
        BY <1>1, <1>4, <1>7, <1>8, <2>1 DEF LInv, WellPlaced
<1>9. CodeFirst' => CodeFirst
    BY <1>1 DEF CodeFirst, Code, InText, InData
<1>10. WellPlaced'
    <2>1. pc' = "place" /\ pc' # "size"
        BY <1>1
    <2> QED
        BY <1>7, <1>8, <1>9, <2>1 DEF WellPlaced
<1> QED
    BY <1>5, <1>6, <1>10 DEF LInv

(* The steps that end the loading place nothing, and the block is never too short. *)
LEMMA EndStep ==
    ASSUME LInv, SizesFit, BlockFails \/ Unsupported \/ Overflow \/ TooShort \/ Loaded, Basic'
    PROVE  LInv'
<1>1. /\ SectionsInit /\ sections' = sections /\ i' = i
      /\ pc' \in {"done", "skipped", "short", "fatal"} /\ pc \in {"size", "place"}
      /\ UNCHANGED <<text_size, data_size, data, destination>> /\ Placed' = Placed
      /\ text_size \in Nat /\ data_size \in Nat /\ totalSize \in Nat /\ i \in Nat \ {0}
      /\ i <= Len(sections) + 1 /\ Len(sections) \in Nat
    BY StateIs DEF LInv, Basic, Placed, sizes, BlockFails, Unsupported, Overflow, TooShort, Loaded,
                   Placing
<1>2. ASSUME TooShort \/ Loaded
      PROVE  /\ pc = "place" /\ totalSize <= text_size + data_size
             /\ Allocated = text_size + data_size /\ totalSize' = totalSize
    <2>1. pc = "place" /\ i > Len(sections) /\ totalSize' = totalSize
        BY <1>2 DEF TooShort, Loaded
    <2>2. i - 1 = Len(sections)
        BY <1>1, <2>1
    <2>3. /\ text_size + data_size = Needed[Len(sections)]
          /\ totalSize <= Needed[Len(sections)]
          /\ Needed[Len(sections)] < Word
        BY <2>1, <2>2 DEF LInv, Summed, SizesFit, Needed
    <2>4. text_size + data_size \in Int /\ 0 <= text_size + data_size /\ text_size + data_size < Word
        BY <1>1, <2>3
    <2> QED
        BY <2>1, <2>3, <2>4, WrapIs DEF Allocated
<1>3. ~TooShort
    BY <1>1, <1>2 DEF TooShort
<1>4. /\ pc' # "short"
      /\ pc' = "done" => Loaded /\ totalSize' <= text_size + data_size
    BY <1>1, <1>2, <1>3 DEF BlockFails, Unsupported, Overflow, Loaded
<1>5. Summed'
    <2>1. Needed' = Needed
        BY <1>1, FitStays
    <2>2. pc' = "done" => data + text_size + data_size <= HeapEnd
        BY <1>2, <1>4 DEF LInv, Summed
    <2> QED
        BY <1>1, <1>4, <2>1, <2>2 DEF LInv, Summed
<1>6. InBlock'
    BY <1>1 DEF LInv, InBlock
<1>7. ASSUME CodeFirst, NEW j \in Placed PROVE destination'[j] = PlaceOf(j)'
    BY <1>1, <1>7 DEF LInv, WellPlaced, PlaceOf, InText
<1>8. ASSUME CodeFirst PROVE CodeCounted'
    <2>1. CodeCounted
        <3>1. CASE pc = "size"
            <4>1. CountingCode /\ i > Len(sections)
                BY <1>3, <1>8, <3>1
                   DEF LInv, WellPlaced, BlockFails, Unsupported, Overflow, Loaded, Placing
            <4>2. \A t \in Indices : t < i
                BY <1>1, <4>1, SectionTypes
            <4> QED
                BY <4>1, <4>2 DEF CountingCode, CodeCounted
        <3> QED
            BY <1>8, <3>1 DEF LInv, WellPlaced
    <2> QED
        BY <1>1, <2>1 DEF CodeCounted, Indices, Code, InText
<1>9. WellPlaced'
    <2>1. CodeFirst' => CodeFirst
        BY <1>1 DEF CodeFirst, Code, InText, InData
    <2>2. pc' # "size" /\ pc' # "place"
        BY <1>1
    <2> QED
        BY <1>1, <1>7, <1>8, <2>1, <2>2 DEF WellPlaced
<1> QED
    BY <1>5, <1>6, <1>9 DEF LInv

LEMMA Step ==
    ASSUME Basic, SizesFit => LInv, [Next]_vars
    PROVE  Basic' /\ (SizesFit' => LInv')
<1>1. Basic'
    BY BasicStep
<1>2. sections' = sections
    BY DEF Next, vars, CountSection, AllocateBlock, BlockFails, SkipSection, Unsupported, Overflow,
           PlaceBits, TooShort, Loaded
<1>3. ASSUME SizesFit' PROVE LInv'
    <2>1. SizesFit /\ LInv
        BY <1>2, <1>3, FitStays
    <2>2. CASE UNCHANGED vars
        BY <1>1, <1>2, <2>1, <2>2, FitStays
           DEF vars, LInv, Summed, InBlock, WellPlaced, CodeFirst, Code, InText, InData, Placed,
               CountingCode, CodeCounted, PlacedCode, PlaceOf, Indices
    <2> QED
        BY <1>1, <2>1, <2>2, CountStep, AllocateStep, SkipStep, PlaceStep, EndStep DEF Next
<1> QED
    BY <1>1, <1>3

-----------------------------------------------------------------------------
LEMMA Invariant == Spec => [](Basic /\ (SizesFit => LInv))
<1>1. Init => Basic /\ (SizesFit => LInv)
    BY Start
<1>2. (Basic /\ (SizesFit => LInv)) /\ [Next]_vars => (Basic /\ (SizesFit => LInv))'
    BY Step
<1> QED
    BY <1>1, <1>2, PTL DEF Spec

(* The variables keep their types, for all section lists. *)
THEOREM LayoutTypes == Spec => []TypeOK
<1>1. Basic => TypeOK
    BY DEF Basic
<1> QED
    BY <1>1, Invariant, PTL

(* Wherever the headers place a section, load writes it inside the block, if the sizes in
   the headers come to less than 2^32. *)
THEOREM WritesInside == Spec => []InsideBlock
<1>1. Basic /\ (SizesFit => LInv) => InsideBlock
    <2> SUFFICES ASSUME Basic, SizesFit, LInv, NEW j \in Placed
                 PROVE  /\ data <= destination[j]
                        /\ destination[j] + sections[j].size <= data + Allocated
        BY DEF InsideBlock
    <2>1. /\ text_size \in Nat /\ data_size \in Nat /\ data \in Nat
          /\ data + text_size + data_size <= HeapEnd
          /\ data <= destination[j]
          /\ destination[j] + sections[j].size <= data + text_size + data_size
        BY StateIs DEF LInv, Summed, InBlock
    <2>2. text_size + data_size \in Int /\ 0 <= text_size + data_size /\ text_size + data_size < Word
        BY <2>1, Widths
    <2>3. Allocated = text_size + data_size
        BY <2>2, WrapIs DEF Allocated
    <2>4. data + (text_size + data_size) = data + text_size + data_size
        BY <2>1
    <2> QED
        BY <2>1, <2>3, <2>4
<1> QED
    BY <1>1, Invariant, PTL

LEMMA SymbolIs ==
    ASSUME NEW value, NEW address,
           address = IF InText(value) THEN value - TextBase + data
                     ELSE value - DataBase + data + text_size
    PROVE  SymbolAddress(value) = Wrap(address)
BY Zenon DEF SymbolAddress

(* With one section of code in front, a symbol is linked to the place its section was put,
   whatever the addresses, if the sizes come to less than 2^32. *)
THEOREM SymbolsRight == Spec => []SymbolsMeetSections
<1>1. Basic /\ (SizesFit => LInv) => SymbolsMeetSections
    <2> SUFFICES ASSUME Basic, SizesFit, LInv, CodeFirst, NEW j \in Placed,
                        NEW x \in 0..(sections[j].size - 1),
                        sections[j].addr + x < ImportBase
                 PROVE  SymbolAddress(sections[j].addr + x) = destination[j] + x
        BY DEF SymbolsMeetSections
    <2>1. /\ j \in Indices
          /\ sections[j].addr \in Nat
          /\ sections[j].size \in Nat
          /\ sections[j].kind = "bits"
          /\ destination[j] = PlaceOf(j)
          /\ data \in Nat /\ text_size \in Nat /\ data_size \in Nat
          /\ data + text_size + data_size <= HeapEnd
          /\ destination[j] \in Nat
          /\ destination[j] + sections[j].size <= data + text_size + data_size
          /\ InText(sections[j].addr) \/ InData(sections[j].addr)
        BY SectionTypes, StateIs DEF LInv, Basic, WellPlaced, Summed, InBlock
    <2>2. destination[j] + x \in Int /\ 0 <= destination[j] + x /\ destination[j] + x < Word
        <3>1. PICK d, t, n, p, s : d = data /\ t = text_size /\ n = data_size /\ p = destination[j]
                                   /\ s = sections[j].size
            OBVIOUS
        <3>2. /\ p \in Nat /\ s \in Nat /\ x \in 0..(s - 1) /\ p + s <= d + t + n
              /\ d + t + n <= HeapEnd /\ d \in Nat /\ t \in Nat /\ n \in Nat
            BY <2>1, <3>1
        <3>3. p + x \in Int /\ 0 <= p + x /\ p + x < Word
            BY <3>2, Widths
        <3> QED
            BY <3>1, <3>3
    <2>3. Wrap(destination[j] + x) = destination[j] + x
        BY <2>2, WrapIs
    <2>4. CASE InText(sections[j].addr)
        <3>1. sections[j].addr + x < DataBase
            BY <2>1, <2>4, BasesAssumption DEF CodeFirst, Code, Indices
        <3>2. InText(sections[j].addr + x)
            BY <2>1, <2>4, <3>1, BasesAssumption DEF InText
        <3>3. sections[j].addr + x - TextBase + data = destination[j] + x
            BY <2>1, <2>4, BasesAssumption DEF PlaceOf
        <3> QED
            <4>1. PICK v, w : v = sections[j].addr + x /\ w = destination[j] + x
                OBVIOUS
            <4>2. w = IF InText(v) THEN v - TextBase + data
                     ELSE v - DataBase + data + text_size
                <5>1. InText(v) /\ w = v - TextBase + data
                    BY <2>1, <3>2, <3>3, <4>1, BasesAssumption
                <5> QED
                    BY <5>1, Zenon
            <4>3. SymbolAddress(v) = Wrap(w)
                BY <4>2, SymbolIs
            <4> QED
                BY <2>3, <4>1, <4>3
    <2>5. CASE InData(sections[j].addr) /\ ~InText(sections[j].addr)
        <3>1. ~InText(sections[j].addr + x)
            BY <2>1, <2>5, BasesAssumption DEF InText, InData
        <3>2. sections[j].addr + x - DataBase + data + text_size = destination[j] + x
            BY <2>1, <2>5, BasesAssumption DEF PlaceOf
        <3> QED
            <4>1. PICK v, w : v = sections[j].addr + x /\ w = destination[j] + x
                OBVIOUS
            <4>2. w = IF InText(v) THEN v - TextBase + data
                     ELSE v - DataBase + data + text_size
                <5>1. ~InText(v) /\ w = v - DataBase + data + text_size
                    BY <2>1, <3>1, <3>2, <4>1, BasesAssumption
                <5> QED
                    BY <5>1, Zenon
            <4>3. SymbolAddress(v) = Wrap(w)
                BY <4>2, SymbolIs
            <4> QED
                BY <2>3, <4>1, <4>3
    <2> QED
        BY <2>1, <2>4, <2>5
<1> QED
    BY <1>1, Invariant, PTL

(* Sections that are apart in the file are apart in the block: data never lands
   on the code. *)
THEOREM NothingOverlaps == Spec => []PartsApart
<1>1. Basic /\ (SizesFit => LInv) => PartsApart
    <2> SUFFICES ASSUME Basic, SizesFit, LInv, CodeFirst, NoneOverlap,
                        NEW j \in Placed, NEW l \in Placed, j # l
                 PROVE  Disjoint(destination[j], sections[j].size,
                                 destination[l], sections[l].size)
        BY DEF PartsApart
    <2> DEFINE Fact(m) == /\ m \in Indices
                          /\ sections[m].addr \in Nat
                          /\ sections[m].size \in Nat
                          /\ sections[m].kind = "bits"
                          /\ destination[m] = PlaceOf(m)
                          /\ InText(sections[m].addr) \/ InData(sections[m].addr)
    <2>1. Fact(j) /\ Fact(l) /\ data \in Nat /\ text_size \in Nat
        BY SectionTypes, StateIs DEF LInv, Basic, WellPlaced, Fact
    <2> HIDE DEF Fact
    <2>2. ASSUME NEW m \in Placed, Fact(m), InText(sections[m].addr)
          PROVE  Code(sections[m]) /\ sections[m].addr = TextBase
        BY <2>2 DEF Fact, Code, CodeFirst, Indices
    <2>3. Disjoint(sections[j].addr, sections[j].size, sections[l].addr, sections[l].size)
        BY <2>1 DEF NoneOverlap, Fact, Indices
    <2>4. \A m \in Indices : Code(sections[m]) => text_size = sections[m].size
        BY DEF LInv, Basic, WellPlaced, CodeCounted
    <2>5. ASSUME NEW m \in Placed, NEW n \in Placed, m # n, Fact(m), Fact(n),
                 InText(sections[m].addr)
          PROVE  /\ InData(sections[n].addr) /\ ~InText(sections[n].addr)
                 /\ destination[m] = data
                 /\ sections[m].size = text_size
                 /\ data + text_size <= destination[n]
        <3>1. Code(sections[m]) /\ sections[m].addr = TextBase
            BY <2>2, <2>5
        <3>2. InData(sections[n].addr) /\ ~InText(sections[n].addr)
            BY <2>5, <3>1, BasesAssumption DEF CodeFirst, Fact, Indices, InText, InData
        <3> QED
            BY <2>1, <2>4, <2>5, <3>1, <3>2, BasesAssumption DEF Fact, PlaceOf, InText, InData
    <2>6. CASE InText(sections[j].addr)
        BY <2>1, <2>5, <2>6 DEF Fact, Disjoint
    <2>7. CASE InText(sections[l].addr)
        BY <2>1, <2>5, <2>7 DEF Fact, Disjoint
    <2>8. CASE ~InText(sections[j].addr) /\ ~InText(sections[l].addr)
        BY <2>1, <2>3, <2>8, BasesAssumption DEF Fact, PlaceOf, Disjoint
    <2> QED
        BY <2>6, <2>7, <2>8
<1> QED
    BY <1>1, Invariant, PTL

-----------------------------------------------------------------------------
(* The end: data without gaps is not longer than what it adds up to. *)

Bytes(s) == s.addr..(s.addr + s.size - 1)

(* The addresses that the data placed so far was linked for. *)
FilledData == {a \in Nat : \E j \in Placed : InData(sections[j].addr) /\ a \in Bytes(sections[j])}

Fills ==
    /\ pc = "place" => \A j \in Indices : j < i /\ sections[j].kind = "bits" => j \in Placed
    /\ pc = "done" => \A j \in Indices : sections[j].kind = "bits" => j \in Placed
    /\ pc \in {"size", "place", "done"} =>
          /\ IsFiniteSet(FilledData)
          /\ Cardinality(FilledData) + (baseOffset - data) <= totalSize
    /\ pc = "done" /\ CodeFirst => baseOffset = data + text_size

LEMMA BytesAre ==
    ASSUME NEW s \in Section
    PROVE  IsFiniteSet(Bytes(s)) /\ Cardinality(Bytes(s)) = s.size
<1>1. s.addr \in Nat /\ s.size \in Nat
    BY DEF Section
<1> DEFINE last == s.addr + s.size - 1
<1>2. s.addr \in Int /\ last \in Int
    BY <1>1
<1>3. /\ IsFiniteSet(s.addr..last)
      /\ Cardinality(s.addr..last) = IF s.addr > last THEN 0 ELSE last - s.addr + 1
    <2> HIDE DEF last
    <2> QED
        BY <1>2, FS_Interval
<1>4. Cardinality(s.addr..last) = s.size
    BY <1>1, <1>3
<1> QED
    BY <1>3, <1>4 DEF Bytes

LEMMA FilledStays ==
    ASSUME Placed' = Placed, sections' = sections
    PROVE  FilledData' = FilledData
BY DEF FilledData, InData, Bytes

LEMMA FillsAtPlace ==
    ASSUME LInv, SizesFit, Fills, PlaceBits
    PROVE  Fills'
<1>1. /\ SectionsInit /\ i \in Nat \ {0} /\ i <= Len(sections) /\ pc = "place"
      /\ sections' = sections /\ pc' = "place" /\ i' = i + 1 /\ data' = data
      /\ totalSize \in Nat /\ baseOffset \in Nat /\ data \in Nat
      /\ totalSize' = Wrap(totalSize + cur.size)
      /\ baseOffset' = Wrap(baseOffset + TextShare(cur))
      /\ Placed' = Placed \cup {i}
      /\ cur.kind = "bits"
      /\ InText(cur.addr) \/ InData(cur.addr)
      /\ Basic /\ Summed /\ Placing
    BY StateIs DEF LInv, PlaceBits, Placing, Placed
<1>2. i \in Indices /\ cur = sections[i] /\ cur \in Section /\ cur.size \in Nat /\ cur.addr \in Nat
      /\ Indices = 1..Len(sections) /\ Len(sections) \in Nat
    BY <1>1, CurIs, SectionTypes
<1>3. ~(InText(cur.addr) /\ InData(cur.addr))
    BY <1>2, BasesAssumption DEF InText, InData
<1>10. totalSize' = totalSize + cur.size /\ baseOffset' = baseOffset + TextShare(cur)
    BY <1>1, PlaceExact
<1>11. TextShare(cur) = IF InText(cur.addr) THEN cur.size ELSE 0
    BY DEF TextShare
<1>4. IsFiniteSet(FilledData) /\ Cardinality(FilledData) + (baseOffset - data) <= totalSize
      /\ Cardinality(FilledData) \in Nat
    BY <1>1, FS_CardinalityType DEF Fills
<1>5. FilledData' = FilledData \cup (IF InData(cur.addr) THEN Bytes(cur) ELSE {})
    <2>1. \A a : a \in Bytes(cur) => a \in Nat
        BY <1>2 DEF Bytes
    <2>2. FilledData' = {a \in Nat : \E j \in Placed \cup {i} :
                            InData(sections[j].addr) /\ a \in Bytes(sections[j])}
        BY <1>1 DEF FilledData, InData, Bytes
    <2> QED
        BY <1>2, <2>1, <2>2 DEF FilledData
<1>6. /\ IsFiniteSet(FilledData)'
      /\ Cardinality(FilledData)' <= Cardinality(FilledData)
                                     + (IF InData(cur.addr) THEN cur.size ELSE 0)
      /\ Cardinality(FilledData)' \in Nat
    <2>1. CASE InData(cur.addr)
        <3>1. IsFiniteSet(Bytes(cur)) /\ Cardinality(Bytes(cur)) = cur.size
            BY <1>2, BytesAre
        <3>2. FilledData \cap Bytes(cur) \in SUBSET FilledData
            OBVIOUS
        <3>3. IsFiniteSet(FilledData \cap Bytes(cur))
            BY <1>4, <3>2, FS_Subset
        <3>4. Cardinality(FilledData \cap Bytes(cur)) \in Nat
            BY <3>3, FS_CardinalityType
        <3>5. /\ IsFiniteSet(FilledData \cup Bytes(cur))
              /\ Cardinality(FilledData \cup Bytes(cur)) =
                    Cardinality(FilledData) + cur.size - Cardinality(FilledData \cap Bytes(cur))
            BY <1>4, <3>1, FS_Union
        <3>6. Cardinality(FilledData \cup Bytes(cur)) \in Nat
            BY <3>5, FS_CardinalityType
        <3> QED
            BY <1>2, <1>4, <1>5, <2>1, <3>4, <3>5, <3>6
    <2>2. CASE ~InData(cur.addr)
        <3>1. FilledData' = FilledData
            BY <1>5, <2>2
        <3> QED
            BY <1>4, <2>2, <3>1
    <2> QED
        BY <2>1, <2>2
<1>7. Cardinality(FilledData)' + (baseOffset' - data') <= totalSize'
    <2>1. PICK n, m : n = Cardinality(FilledData) /\ m = Cardinality(FilledData)'
        OBVIOUS
    <2>2. m \in Nat /\ n \in Nat /\ m <= n + (IF InData(cur.addr) THEN cur.size ELSE 0)
          /\ n + (baseOffset - data) <= totalSize
        BY <1>4, <1>6, <2>1
    <2>3. m + (baseOffset' - data') <= totalSize'
        <3>1. PICK b, d, z, h, k, p, q, r : /\ b = baseOffset /\ d = data /\ z = totalSize
                                            /\ k = cur.size /\ h = TextShare(cur)
                                            /\ p = baseOffset' /\ q = data' /\ r = totalSize'
            OBVIOUS
        <3>2. /\ b \in Nat /\ d \in Nat /\ z \in Nat /\ k \in Nat /\ n \in Nat /\ m \in Nat
              /\ n + (b - d) <= z /\ q = d /\ p = b + h /\ r = z + k
            BY <1>1, <1>2, <1>10, <2>2, <3>1
        <3>3. CASE InText(cur.addr)
            <4>1. h = k /\ m <= n
                BY <1>3, <1>11, <2>2, <3>1, <3>3
            <4>2. m + (p - q) <= r
                BY <3>2, <4>1
            <4> QED
                BY <3>1, <4>2
        <3>4. CASE InData(cur.addr)
            <4>1. h = 0 /\ m <= n + k
                BY <1>3, <1>11, <2>2, <3>1, <3>4
            <4>2. m + (p - q) <= r
                BY <3>2, <4>1
            <4> QED
                BY <3>1, <4>2
        <3> QED
            BY <1>1, <3>3, <3>4
    <2> QED
        BY <2>1, <2>3
<1>8. \A j \in Indices : j < i + 1 /\ sections[j].kind = "bits" => j \in Placed \cup {i}
    <2>1. \A j \in Indices : j < i + 1 => j < i \/ j = i
        BY <1>1, <1>2
    <2> QED
        BY <1>1, <2>1 DEF Fills
<1>9. Indices' = Indices
    BY <1>1 DEF Indices
<1> QED
    BY <1>1, <1>6, <1>7, <1>8, <1>9 DEF Fills

LEMMA FillsStep ==
    ASSUME LInv, SizesFit, Fills, [Next]_vars
    PROVE  Fills'
<1>1. /\ SectionsInit /\ Len(sections) \in Nat /\ i \in Nat \ {0} /\ Indices = 1..Len(sections)
    BY StateIs DEF LInv
<1>2. CASE CountSection
    <2>1. Placed' = Placed /\ FilledData' = FilledData
        BY <1>2, FilledStays DEF CountSection, Placed
    <2> QED
        BY <1>2, <2>1 DEF CountSection, Fills
<1>3. CASE AllocateBlock
    <2>1. /\ Placed = {} /\ pc' = "place" /\ i' = 1 /\ baseOffset' = data'
          /\ totalSize' = 0 /\ Placed' = Placed /\ sections' = sections /\ data' \in Nat
        BY <1>3, HeapAssumption DEF AllocateBlock, LInv, Basic, Placed
    <2>2. FilledData' = {}
        BY <2>1 DEF FilledData
    <2>3. IsFiniteSet(FilledData') /\ Cardinality(FilledData') = 0
        BY <2>2, FS_EmptySet
    <2>4. \A j \in Indices : ~(j < 1)
        BY <1>1
    <2>5. Indices' = Indices
        BY <2>1 DEF Indices
    <2>6. Cardinality(FilledData') + (baseOffset' - data') <= totalSize'
        <3>1. PICK d, e, n, m : d = data' /\ e = baseOffset' /\ n = Cardinality(FilledData')
                                /\ m = totalSize'
            OBVIOUS
        <3>2. d \in Nat /\ e = d /\ n = 0 /\ m = 0
            BY <2>1, <2>3, <3>1
        <3>3. n + (e - d) <= m
            BY <3>2
        <3> QED
            BY <3>1, <3>3
    <2> QED
        BY <2>1, <2>3, <2>4, <2>5, <2>6 DEF Fills
<1>4. CASE SkipSection
    <2>1. /\ Placed' = Placed /\ FilledData' = FilledData /\ pc = "place" /\ pc' = "place"
          /\ i' = i + 1 /\ sections' = sections /\ UNCHANGED <<data, baseOffset, totalSize>>
          /\ cur.kind # "bits" /\ cur = sections[i]
        BY <1>4, FilledStays DEF SkipSection, Placing, Placed, cur
    <2>2. \A j \in Indices : j < i + 1 /\ sections[j].kind = "bits" => j \in Placed
        <3>1. \A j \in Indices : j < i + 1 => j < i \/ j = i
            BY <1>1
        <3> QED
            BY <2>1, <3>1 DEF Fills
    <2> QED
        BY <2>1, <2>2 DEF Fills, Indices
<1>5. CASE PlaceBits
    BY <1>5, FillsAtPlace
<1>6. CASE Loaded
    <2>1. /\ Placed' = Placed /\ FilledData' = FilledData /\ pc = "place" /\ pc' = "done"
          /\ i > Len(sections) /\ sections' = sections
          /\ UNCHANGED <<data, baseOffset, totalSize, text_size>>
        BY <1>6, FilledStays DEF Loaded, Placed, sizes
    <2>2. \A j \in Indices : j < i
        BY <1>1, <2>1
    <2>3. \A j \in Indices : sections[j].kind = "bits" => j \in Placed
        BY <2>1, <2>2 DEF Fills
    <2>4. ASSUME CodeFirst PROVE baseOffset = data + text_size
        <3>1. CodeCounted /\ PlacedCode /\ data \in Nat
            BY <2>1, <2>4, StateIs DEF LInv, WellPlaced
        <3>2. CASE \E t \in Indices : Code(sections[t])
            BY <2>2, <3>1, <3>2 DEF CodeCounted, PlacedCode
        <3>3. CASE \A t \in Indices : ~Code(sections[t])
            BY <3>1, <3>3 DEF CodeCounted, PlacedCode
        <3> QED
            BY <3>2, <3>3
    <2>5. CodeFirst' => CodeFirst
        BY <2>1 DEF CodeFirst, Code, InText, InData
    <2> QED
        BY <2>1, <2>3, <2>4, <2>5 DEF Fills, Indices
<1>7. CASE BlockFails \/ Unsupported \/ Overflow \/ TooShort
    BY <1>7 DEF BlockFails, Unsupported, Overflow, TooShort, Fills
<1>8. CASE UNCHANGED vars
    <2>1. Placed' = Placed /\ FilledData' = FilledData /\ (CodeFirst' => CodeFirst)
        BY <1>8, FilledStays DEF vars, Placed, CodeFirst, Code, InText, InData
    <2> QED
        BY <1>8, <2>1 DEF vars, Fills, Indices
<1> QED
    BY <1>2, <1>3, <1>4, <1>5, <1>6, <1>7, <1>8 DEF Next

(* If each section of data follows another or comes first, the sections leave out no
   address before any of them: the lowest one that has a gap below it would follow one
   without. *)
LEMMA NoGap ==
    ASSUME LInv, Packed, \A j \in Indices : sections[j].kind = "bits" => j \in Placed,
           NEW j \in Placed, InData(sections[j].addr)
    PROVE  DataBase..(sections[j].addr + sections[j].size - 1) \subseteq FilledData
<1> DEFINE Data == {l \in Placed : InData(sections[l].addr)}
           Gap(l) == \E a \in DataBase..(sections[l].addr - 1) : a \notin FilledData
           T == {sections[l].addr : l \in {m \in Data : Gap(m)}}
<1>1. \A l \in Placed : /\ l \in Indices /\ sections[l].kind = "bits"
                        /\ sections[l].addr \in Nat /\ sections[l].size \in Nat
    BY SectionTypes, StateIs DEF LInv, Basic
<1>2. \A l \in Data : Bytes(sections[l]) \subseteq FilledData
    BY <1>1 DEF FilledData, Bytes
<1>3. T = {}
    <2> SUFFICES ASSUME T # {} PROVE FALSE
        OBVIOUS
    <2>1. T \subseteq Nat
        BY <1>1
    <2>2. PICK b \in T : \A a \in T : b <= a
        <3> HIDE DEF T
        <3> QED
            BY <2>1, LeastAddress
    <2>3. PICK l \in Data : Gap(l) /\ b = sections[l].addr
        BY <2>2
    <2>4. PICK a \in DataBase..(sections[l].addr - 1) : a \notin FilledData
        BY <2>3
    <2>5. sections[l].addr # DataBase /\ a \in Int /\ DataBase \in Nat
        BY <1>1, <2>4, BasesAssumption
    <2>6. PICK m \in Indices : /\ sections[m].kind = "bits"
                               /\ InData(sections[m].addr)
                               /\ sections[m].addr < sections[l].addr
                               /\ sections[m].addr + sections[m].size = sections[l].addr
        BY <1>1, <2>3, <2>5 DEF Packed, Indices
    <2>7. m \in Data /\ sections[m].addr \in Nat /\ sections[m].size \in Nat
        BY <1>1, <2>6
    <2>8. a < sections[m].addr
        <3>1. a \notin Bytes(sections[m])
            BY <1>2, <2>4, <2>7
        <3> QED
            BY <1>1, <2>3, <2>4, <2>5, <2>6, <2>7, <3>1 DEF Bytes
    <2>9. Gap(m)
        BY <2>4, <2>5, <2>7, <2>8
    <2>10. b <= sections[m].addr
        BY <2>2, <2>7, <2>9
    <2> QED
        BY <2>3, <2>6, <2>7, <2>10, <1>1
<1>4. ~Gap(j)
    BY <1>3
<1>5. Bytes(sections[j]) \subseteq FilledData
    BY <1>2
<1>6. ASSUME NEW a \in DataBase..(sections[j].addr + sections[j].size - 1)
      PROVE  a \in FilledData
    <2>1. a \in Int /\ sections[j].addr \in Nat /\ sections[j].size \in Nat /\ DataBase \in Nat
        BY <1>1, BasesAssumption
    <2>2. CASE a < sections[j].addr
        BY <1>4, <1>6, <2>1, <2>2
    <2>3. CASE ~(a < sections[j].addr)
        BY <1>5, <1>6, <2>1, <2>3 DEF Bytes
    <2> QED
        BY <2>2, <2>3
<1> QED
    BY <1>6

LEMMA EndBehind ==
    ASSUME LInv, Fills
    PROVE  EndBehindAll
<1>1. pc # "short"
    BY DEF LInv, Summed
<1>2. ASSUME pc = "done", CodeFirst, Packed, NEW j \in Placed
      PROVE  destination[j] + sections[j].size <= data + totalSize
    <2>1. /\ j \in Indices /\ sections[j].addr \in Nat /\ sections[j].size \in Nat
          /\ sections[j].kind = "bits" /\ destination[j] = PlaceOf(j)
          /\ data \in Nat /\ text_size \in Nat /\ totalSize \in Nat
          /\ InText(sections[j].addr) \/ InData(sections[j].addr)
        BY <1>2, SectionTypes, StateIs DEF LInv, Basic, WellPlaced
    <2>2. /\ baseOffset = data + text_size /\ IsFiniteSet(FilledData)
          /\ Cardinality(FilledData) \in Nat
          /\ Cardinality(FilledData) + (baseOffset - data) <= totalSize
        BY <1>2, FS_CardinalityType DEF Fills
    <2>3. Cardinality(FilledData) + text_size <= totalSize
        BY <2>1, <2>2
    <2>4. CASE InText(sections[j].addr)
        <3>1. sections[j].addr = TextBase /\ Code(sections[j])
            BY <1>2, <2>1, <2>4 DEF CodeFirst, Code, Indices
        <3>2. text_size = sections[j].size
            BY <1>2, <2>1, <3>1 DEF LInv, WellPlaced, CodeCounted
        <3> QED
            BY <2>1, <2>2, <2>3, <2>4, <3>1, <3>2, BasesAssumption DEF PlaceOf
    <2>5. CASE InData(sections[j].addr) /\ ~InText(sections[j].addr)
        <3> DEFINE last == sections[j].addr + sections[j].size - 1
        <3>1. DataBase..last \in SUBSET FilledData
            BY <1>2, <2>5, NoGap DEF Fills
        <3>2. Cardinality(DataBase..last) <= Cardinality(FilledData)
            BY <2>2, <3>1, FS_Subset
        <3>3. /\ DataBase \in Int /\ last \in Int /\ DataBase <= sections[j].addr
            BY <2>1, <2>5, BasesAssumption DEF InData
        <3>4. Cardinality(DataBase..last) = IF DataBase > last THEN 0 ELSE last - DataBase + 1
            <4> HIDE DEF last
            <4> QED
                BY <3>3, FS_Interval
        <3>5. last - DataBase + 1 <= Cardinality(FilledData)
            BY <2>1, <2>2, <3>2, <3>3, <3>4
        <3>6. destination[j] = data + text_size + (sections[j].addr - DataBase)
            BY <2>1, <2>5 DEF PlaceOf
        <3> QED
            BY <2>1, <2>2, <2>3, <3>3, <3>5, <3>6
    <2> QED
        BY <2>1, <2>4, <2>5
<1> QED
    BY <1>1, <1>2 DEF EndBehindAll

(* If the sizes come to less than 2^32, the check "We didn't allocate enough memory" never
   fails, and the end that is published for a module is behind all its sections, for any
   data without padding. *)
THEOREM EndRight == Spec => []EndBehindAll
<1>1. Init => Fills
    <2> SUFFICES ASSUME Init PROVE Fills
        OBVIOUS
    <2>1. FilledData = {} /\ pc = "size" /\ baseOffset = 0 /\ data = 0 /\ totalSize = 0
        BY DEF Init, FilledData, Placed
    <2>2. IsFiniteSet(FilledData) /\ Cardinality(FilledData) = 0
        BY <2>1, FS_EmptySet
    <2> QED
        BY <2>1, <2>2 DEF Fills
<1>2. (SizesFit => LInv) /\ (SizesFit => Fills) /\ [Next]_vars => (SizesFit => Fills)'
    <2> SUFFICES ASSUME SizesFit => LInv, SizesFit => Fills, [Next]_vars, SizesFit'
                 PROVE  Fills'
        OBVIOUS
    <2>1. sections' = sections
        BY DEF Next, vars, CountSection, AllocateBlock, BlockFails, SkipSection, Unsupported,
               Overflow, PlaceBits, TooShort, Loaded
    <2>2. SizesFit
        BY <2>1, FitStays
    <2> QED
        BY <2>2, FillsStep
<1>3. (SizesFit => LInv) /\ (SizesFit => Fills) => EndBehindAll
    <2>1. ~SizesFit => EndBehindAll
        BY DEF EndBehindAll
    <2> QED
        BY <2>1, EndBehind
<1> QED
    BY <1>1, <1>2, <1>3, Invariant, PTL DEF Spec
=============================================================================
