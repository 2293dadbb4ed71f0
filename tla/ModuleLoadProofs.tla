-------------------------- MODULE ModuleLoadProofs --------------------------
(***************************************************************************)
(* Proofs about ModuleLoad, for every folder of modules: any number of     *)
(* files with any metadata, relocations and symbols, and about the listing *)
(* of DirList, for any tree of folders, filter, flags and depth. What is   *)
(* computed by recursion on a number is reasoned about by induction over   *)
(* sets of numbers (AllNumbers).                                           *)
(***************************************************************************)
EXTENDS ModuleLoad, TLAPS, FiniteSetTheorems, WellFoundedInduction

Listing(t) == LoadPath(t, modules, {".wms"}, {"Files"}, 1)

ListingsAreRight ==
    \A t \in Directories : /\ Listing(t) \in Seq(Range(t[modules]))
                           /\ AsAsked(t, modules, {".wms"}, {"Files"}, 1)

InFile == {"read", "elf", "meta", "link", "imports", "lists", "symbols", "loaded", "failed"}

-----------------------------------------------------------------------------
(* Where the thread is. *)
Control ==
    /\ tree \in Directories
    /\ pc \in Phases
    /\ f \in Nat \ {0}
    /\ pc = "list" => f = 1 /\ gLoadedModules = << >>
    /\ pc # "list" => files = Listing(tree) /\ f <= Len(files) + 1
    /\ pc \in InFile => f <= Len(files) /\ ~cur.hidden
    /\ pc \in {"link", "imports", "lists", "symbols", "loaded"} => cur.content = "module"
    /\ pc = "done" => f = Len(files) + 1

(* The buffers, those of the files before n that are not read to their end. *)
Shorts(n) == {j \in 1..(n - 1) : ~files[j].file.hidden /\ files[j].file.content = "short"}

Heap ==
    /\ pc \in {"list", "file", "done", "read", "loaded"} => buffers = Shorts(f)
    /\ pc \in {"elf", "meta", "link", "imports", "lists", "symbols"} =>
          buffers = Shorts(f) \cup {f}
    /\ pc \in InFile \ {"read", "failed"} => cur.content # "short"
    /\ pc = "failed" => buffers = Shorts(f + 1)

-----------------------------------------------------------------------------
(* The metadata: what is read and what is still to be read say together what the section
   says. *)
Line == Seq(STRING) \ {<< >>}
Word(x) == IF x THEN <<"true">> ELSE <<"false">>

MetaTypes ==
    /\ rest \in Seq(Line)
    /\ export_name \in Seq(STRING)
    /\ {skipInitFini, initBeforeRelocationDoneHook, checkedVersion} \subseteq BOOLEAN
    /\ verdict \in {"none", "accepted", "ignored"}

VersionsLeft(meta) ==
    /\ verdict = "accepted" => rest = << >> /\ checkedVersion
    /\ verdict # "ignored" => \A l \in LinesOf(meta, VersionKeys) :
          \/ Supported(Tail(meta[l]))
          \/ \E j \in LinesOf(rest, VersionKeys) : rest[j] = meta[l]
    /\ Plain(meta) =>
          /\ Plain(rest)
          /\ \A j \in LinesOf(rest, VersionKeys) :
                \E l \in LinesOf(meta, VersionKeys) : meta[l] = rest[j]
          /\ checkedVersion => LinesOf(meta, VersionKeys) # {}
          /\ LinesOf(meta, VersionKeys) # {} =>
                checkedVersion \/ LinesOf(rest, VersionKeys) # {}
          /\ verdict = "ignored" => ~VersionsFit(meta)

Flag(meta, k) == Says(meta, k, <<"false">>) = <<"true">>

FieldsLeft(meta) ==
    Plain(meta) =>
        /\ Says(rest, "export_name", export_name) = Says(meta, "export_name", << >>)
        /\ Says(rest, "skipInitFini", Word(skipInitFini)) = <<"true">> <=> Flag(meta, "skipInitFini")
        /\ Says(rest, "initBeforeRelocationDoneHook", Word(initBeforeRelocationDoneHook)) = <<"true">>
              <=> Flag(meta, "initBeforeRelocationDoneHook")

MetaRead ==
    /\ MetaTypes
    /\ pc \in {"meta", "link", "imports", "lists", "symbols", "loaded"} =>
          VersionsLeft(cur.meta) /\ FieldsLeft(cur.meta)
    /\ pc \in {"link", "imports", "lists", "symbols", "loaded"} => verdict = "accepted"

-----------------------------------------------------------------------------
(* The relocations, for the sequence of those of the file. *)
Before(rs, p, symbol) == {j \in DOMAIN rs : j < p /\ rs[j].symbol = symbol}
PlacedOnes(rs) == {j \in DOMAIN rs : rs[j].placed}

(* The first pass is at p. *)
LinkedUpTo(rs, p) ==
    /\ linked = PlacedOnes(rs) \cap Before(rs, p, "local")
    /\ \A j \in PlacedOnes(rs) : j < p => rs[j].symbol \in {"local", "import", "stray"}

(* The second one. *)
KeptUpTo(rs, p) ==
    /\ {imports[j] : j \in DOMAIN imports} = Before(rs, p, "import")
    /\ \A j, l \in DOMAIN imports : j < l => imports[j] < imports[l]
    /\ Before(rs, p, "stray") = {} /\ Before(rs, p, "bad") = {}
    /\ \A j \in Before(rs, p, "import") : rs[j].rpl \in dependencies

Relocs ==
    /\ linked \subseteq Nat /\ imports \in Seq(Nat) /\ dependencies \subseteq Rpls
    /\ position \in Nat
    /\ pc \in {"link", "imports"} => position \in 1..(Len(cur.relocs) + 1)
    /\ pc \in {"read", "elf", "meta", "link"} => linked \subseteq PlacedOnes(cur.relocs) /\ imports = << >>
    /\ pc \in {"read", "elf", "meta"} => linked = {}
    /\ pc = "link" => LinkedUpTo(cur.relocs, position)
    /\ pc \in {"imports", "lists", "symbols", "loaded"} =>
          LinkedUpTo(cur.relocs, Len(cur.relocs) + 1) /\ Linkable(cur)
    /\ pc = "imports" => KeptUpTo(cur.relocs, position)
    /\ pc \in {"lists", "symbols", "loaded"} =>
          \E p \in 1..(Len(cur.relocs) + 1) :
              /\ KeptUpTo(cur.relocs, p)
              /\ p <= Len(cur.relocs) => cur.relocs[p].symbol = "bad"

-----------------------------------------------------------------------------
(* What is kept of the files. *)
Module == [file : Nat, fields : Seq(STRING) \X BOOLEAN \X BOOLEAN, linked : SUBSET Nat,
           imports : Seq(Nat), dependencies : SUBSET Rpls]

Once(module, rs) ==
    LET Of(symbol) == {j \in DOMAIN rs : rs[j].symbol = symbol}
        reached == {j \in DOMAIN rs : \A l \in Of("bad") : j < l}
        kept == {module.imports[j] : j \in DOMAIN module.imports}
    IN /\ module.linked = PlacedOnes(rs) \cap Of("local")
       /\ kept = Of("import") \cap reached
       /\ PlacedOnes(rs) \cap reached \subseteq module.linked \cup kept
       /\ \A j, l \in DOMAIN module.imports : j < l => module.imports[j] < module.imports[l]
       /\ {rs[j].rpl : j \in kept} \subseteq module.dependencies

WrittenFields(meta) ==
    <<Says(meta, "export_name", << >>), Flag(meta, "skipInitFini"),
      Flag(meta, "initBeforeRelocationDoneHook")>>

Right(module, file) ==
    /\ Once(module, file.relocs)
    /\ Plain(file.meta) => module.fields = WrittenFields(file.meta)
    /\ \A l \in LinesOf(file.meta, VersionKeys) : Supported(Tail(file.meta[l]))

LoadedFiles == {gLoadedModules[m].file : m \in DOMAIN gLoadedModules}

Kept ==
    /\ gLoadedModules \in Seq(Module)
    /\ LoadedFiles \subseteq 1..(f - 1)
    /\ \A m \in DOMAIN gLoadedModules :
          Right(gLoadedModules[m], files[gLoadedModules[m].file].file)
    /\ \A j, l \in DOMAIN gLoadedModules : j < l => gLoadedModules[j].file < gLoadedModules[l].file
    /\ \A n \in 1..(f - 1) :
          Plain(files[n].file.meta) => (n \in LoadedFiles <=> Good(files[n].file))
    /\ pc = "failed" /\ Plain(cur.meta) => ~Good(cur)

LoadInv == Control /\ Heap /\ MetaRead /\ Relocs /\ Kept

-----------------------------------------------------------------------------
(* The listing: what LoadPath gives for any tree. *)

LEMMA HasLeast ==
    ASSUME NEW T, T \subseteq Nat, T # {}
    PROVE  \E e \in T : \A l \in T : e <= l
<1> DEFINE R == {ss \in Nat \X Nat : ss[1] < ss[2]}
<1>1. IsWellFoundedOn(R, Nat)
    BY NatLessThanWellFounded DEF OpToRel
<1>2. PICK e \in T : \A b \in T : ~(<<b, e>> \in R)
    <2> HIDE DEF R
    <2> QED
        BY <1>1, WFMin
<1>3. \A b \in T : ~(b < e)
    BY <1>2
<1>4. \A b \in T : e <= b
    BY <1>3
<1> QED
    BY <1>4

(* Induction over a set of numbers, in place of an operator. *)
LEMMA AllNumbers ==
    ASSUME NEW P, 0 \in P, \A n \in Nat : n \in P => n + 1 \in P
    PROVE  \A n \in Nat : n \in P
<1> DEFINE Bad == Nat \ P
<1>1. SUFFICES ASSUME Bad # {} PROVE FALSE
    OBVIOUS
<1>2. PICK e \in Bad : \A l \in Bad : e <= l
    <2>1. Bad \subseteq Nat
        OBVIOUS
    <2> HIDE DEF Bad
    <2> QED
        BY <1>1, <2>1, HasLeast
<1>3. e \in Nat /\ e \notin P /\ e # 0
    BY <1>2
<1>4. e - 1 \in Nat /\ ~(e <= e - 1) /\ (e - 1) + 1 = e
    BY <1>3
<1>5. e - 1 \in P
    BY <1>2, <1>4
<1> QED
    BY <1>3, <1>4, <1>5

(* g is what a recursion over numbers gives, from b by the steps s. *)
Iterated(g, n, T, b, s) ==
    g \in [0..n -> T] /\ g[0] = b /\ \A i \in 1..n : g[i] = s[i][g[i - 1]]

LEMMA Iterates ==
    ASSUME NEW n \in Nat, NEW T, NEW b \in T, NEW s \in [Nat -> [T -> T]]
    PROVE  \E g : Iterated(g, n, T, b, s)
<1> DEFINE Does(g, m) == g[0] = b /\ \A i \in 1..m : g[i] = s[i][g[i - 1]]
           P == {m \in Nat : \E g \in [0..m -> T] : Does(g, m)}
<1>1. 0 \in P
    <2> DEFINE g == [i \in 0..0 |-> b]
    <2>1. g \in [0..0 -> T] /\ Does(g, 0)
        OBVIOUS
    <2> QED
        BY <2>1
<1>2. ASSUME NEW m \in Nat, m \in P PROVE m + 1 \in P
    <2>1. PICK g \in [0..m -> T] : Does(g, m)
        BY <1>2
    <2> DEFINE h == [i \in 0..(m + 1) |-> IF i = m + 1 THEN s[m + 1][g[m]] ELSE g[i]]
    <2>2. s[m + 1][g[m]] \in T
        BY <2>1
    <2>3. h \in [0..(m + 1) -> T]
        BY <2>2
    <2>4. h[m + 1] = s[m + 1][g[m]] /\ \A i \in 0..m : h[i] = g[i]
        OBVIOUS
    <2> HIDE DEF h
    <2>5. ASSUME NEW i \in 1..(m + 1) PROVE h[i] = s[i][h[i - 1]]
        <3>1. CASE i = m + 1
            BY <2>4, <3>1
        <3>2. CASE i # m + 1
            <4>1. i \in 1..m /\ i - 1 \in 0..m
                BY <3>2
            <4> QED
                BY <2>1, <2>4, <4>1
        <3> QED
            BY <3>1, <3>2
    <2>6. h[0] = b
        BY <2>1, <2>4
    <2> QED
        BY <2>3, <2>5, <2>6
<1>3. \A m \in Nat : m \in P
    <2> HIDE DEF P
    <2> QED
        BY <1>1, <1>2, AllNumbers
<1>4. PICK g \in [0..n -> T] : Does(g, n)
    BY <1>3
<1> QED
    BY <1>4 DEF Iterated

-----------------------------------------------------------------------------
(* Lists one behind the other *)

Distinct(list) == \A j, k \in DOMAIN list : j # k => list[j].path # list[k].path

LEMMA JoinedIs ==
    ASSUME NEW E, NEW s \in Seq(E), NEW t \in Seq(E)
    PROVE  /\ s \o t \in Seq(E)
           /\ Range(s \o t) = Range(s) \cup Range(t)
           /\ Distinct(s) /\ Distinct(t)
                  /\ (\A e \in Range(s), d \in Range(t) : e.path # d.path)
              => Distinct(s \o t)
<1> DEFINE u == s \o t
<1>1. /\ Len(s) \in Nat /\ Len(t) \in Nat
      /\ DOMAIN s = 1..Len(s) /\ DOMAIN t = 1..Len(t)
    OBVIOUS
<1>2. u \in Seq(E) /\ Len(u) = Len(s) + Len(t) /\ DOMAIN u = 1..(Len(s) + Len(t))
    OBVIOUS
<1>3. /\ \A j \in DOMAIN s : j \in DOMAIN u /\ u[j] = s[j]
      /\ \A j \in DOMAIN t : Len(s) + j \in DOMAIN u /\ u[Len(s) + j] = t[j]
    BY <1>1
<1>4. \A j \in DOMAIN u :
          j \in DOMAIN s \/ (j - Len(s) \in DOMAIN t /\ Len(s) + (j - Len(s)) = j)
    BY <1>1, <1>2
<1> HIDE DEF u
<1>5. Range(u) = Range(s) \cup Range(t)
    BY <1>3, <1>4 DEF Range
<1>6. ASSUME Distinct(s), Distinct(t), \A e \in Range(s), d \in Range(t) : e.path # d.path,
             NEW j \in DOMAIN u, NEW k \in DOMAIN u, j # k
      PROVE  u[j].path # u[k].path
    <2>0. /\ \A l \in DOMAIN s : s[l] \in Range(s)
          /\ \A l \in DOMAIN t : t[l] \in Range(t)
        BY DEF Range
    <2>1. CASE j \in DOMAIN s /\ k \in DOMAIN s
        BY <1>3, <1>6, <2>1 DEF Distinct
    <2>2. CASE j \in DOMAIN s /\ k - Len(s) \in DOMAIN t /\ Len(s) + (k - Len(s)) = k
        BY <1>3, <1>6, <2>0, <2>2
    <2>3. CASE k \in DOMAIN s /\ j - Len(s) \in DOMAIN t /\ Len(s) + (j - Len(s)) = j
        BY <1>3, <1>6, <2>0, <2>3
    <2>4. CASE /\ j - Len(s) \in DOMAIN t /\ Len(s) + (j - Len(s)) = j
               /\ k - Len(s) \in DOMAIN t /\ Len(s) + (k - Len(s)) = k
        <3>1. j - Len(s) # k - Len(s)
            BY <1>6, <2>4
        <3> QED
            BY <1>3, <1>6, <2>4, <3>1 DEF Distinct
    <2> QED
        BY <1>4, <2>1, <2>2, <2>3, <2>4
<1> QED
    BY <1>2, <1>5, <1>6 DEF Distinct, u

LEMMA FlattenIs ==
    ASSUME NEW E, NEW ss \in Seq(Seq(E))
    PROVE  \E g \in [0..Len(ss) -> Seq(E)] :
               /\ g[0] = << >> /\ \A i \in 1..Len(ss) : g[i] = g[i - 1] \o ss[i]
               /\ FlattenSeq(ss) = g[Len(ss)]
<1> DEFINE L == Len(ss)
           s == [i \in Nat |-> [x \in Seq(E) |-> IF i \in 1..L THEN x \o ss[i] ELSE x]]
<1>1. L \in Nat /\ \A i \in 1..L : ss[i] \in Seq(E)
    OBVIOUS
<1>2. s \in [Nat -> [Seq(E) -> Seq(E)]]
    <2>1. \A i \in Nat : \A x \in Seq(E) : (IF i \in 1..L THEN x \o ss[i] ELSE x) \in Seq(E)
        BY <1>1
    <2> QED
        BY <2>1
<1>3. << >> \in Seq(E)
    OBVIOUS
<1>4. PICK g : Iterated(g, L, Seq(E), << >>, s)
    <2> HIDE DEF s, L
    <2> QED
        BY <1>1, <1>2, <1>3, Iterates
<1>9. g \in [0..L -> Seq(E)] /\ g[0] = << >> /\ \A i \in 1..L : g[i] = s[i][g[i - 1]]
    BY <1>4 DEF Iterated
<1>5. \A i \in 1..L : g[i] = g[i - 1] \o ss[i]
    <2> TAKE i \in 1..L
    <2>1. i \in Nat /\ i - 1 \in 0..L
        BY <1>1
    <2>2. g[i - 1] \in Seq(E)
        BY <1>9, <2>1
    <2>3. s[i][g[i - 1]] = g[i - 1] \o ss[i]
        BY <2>1, <2>2
    <2> HIDE DEF s
    <2> QED
        BY <1>9, <2>3
<1>8. L # 0 => 1 \in 1..L /\ g[1] = ss[1]
    <2> SUFFICES ASSUME L # 0 PROVE 1 \in 1..L /\ g[1] = ss[1]
        OBVIOUS
    <2>1. 1 \in 1..L /\ 1 - 1 = 0
        BY <1>1
    <2>2. g[1] = g[1 - 1] \o ss[1]
        BY <1>5, <2>1, Zenon
    <2>3. g[1 - 1] = << >>
        BY <1>9, <2>1, Zenon
    <2>4. ss[1] \in Seq(E)
        BY <1>1, <2>1
    <2>5. << >> \o ss[1] = ss[1]
        BY <2>4
    <2> QED
        BY <2>1, <2>2, <2>3, <2>5, Zenon
<1>6. CASE L = 0
    <2>1. FlattenSeq(ss) = << >>
        BY <1>6 DEF FlattenSeq
    <2> QED
        BY <1>9, <1>5, <1>6, <2>1
<1>7. CASE L # 0
    <2> DEFINE Eq(h) == h = [i \in 1..L |-> IF i = 1 THEN ss[i] ELSE h[i - 1] \o ss[i]]
               fn == CHOOSE h : Eq(h)
    <2>1. FlattenSeq(ss) = fn[L]
        BY <1>7 DEF FlattenSeq
    <2>2. Eq(fn)
        <3> DEFINE h == [i \in 1..L |-> g[i]]
        <3>1. g[1] = ss[1]
            BY <1>8, <1>7
        <3>2. \A i \in 1..L : h[i] = IF i = 1 THEN ss[i] ELSE h[i - 1] \o ss[i]
            <4> TAKE i \in 1..L
            <4>1. CASE i = 1
                BY <3>1, <4>1
            <4>2. CASE i # 1
                <5>1. i - 1 \in 1..L
                    BY <1>1, <4>2
                <5>2. h[i] = g[i] /\ h[i - 1] = g[i - 1] /\ g[i] = g[i - 1] \o ss[i]
                    BY <1>5, <5>1
                <5> HIDE DEF h
                <5> QED
                    BY <4>2, <5>2
            <4> QED
                BY <4>1, <4>2
        <3>3. h = [i \in 1..L |-> h[i]]
            OBVIOUS
        <3> HIDE DEF h, L
        <3>4. Eq(h)
            BY <3>2, <3>3
        <3> QED
            BY <3>4
    <2> HIDE DEF fn
    <2>3. \A i \in 1..L : fn[i] = IF i = 1 THEN ss[i] ELSE fn[i - 1] \o ss[i]
        BY <2>2
    <2> DEFINE P == {i \in Nat : i + 1 \in 1..L => fn[i + 1] = g[i + 1]}
    <2>4. 0 \in P
        <3>2. fn[1] = ss[1] /\ g[1] = ss[1] /\ 0 + 1 = 1
            BY <1>8, <1>7, <2>3
        <3>3. fn[0 + 1] = g[0 + 1]
            BY <3>2
        <3> QED
            BY <3>3
    <2>5. ASSUME NEW i \in Nat, i \in P PROVE i + 1 \in P
        <3>1. CASE (i + 1) + 1 \in 1..L
            <4>1. i + 1 \in 1..L /\ (i + 1) + 1 # 1 /\ ((i + 1) + 1) - 1 = i + 1
                BY <1>1, <3>1
            <4>2. fn[i + 1] = g[i + 1]
                BY <2>5, <4>1
            <4>3. PICK m \in 1..L : m = (i + 1) + 1 /\ m # 1 /\ m - 1 = i + 1
                BY <3>1, <4>1
            <4>4. fn[m] = fn[m - 1] \o ss[m] /\ g[m] = g[m - 1] \o ss[m]
                BY <1>5, <2>3, <4>3
            <4>5. fn[(i + 1) + 1] = g[(i + 1) + 1]
                BY <4>2, <4>3, <4>4
            <4> QED
                BY <4>5
        <3>2. CASE (i + 1) + 1 \notin 1..L
            BY <3>2
        <3> QED
            BY <3>1, <3>2
    <2>6. \A i \in Nat : i \in P
        <3> HIDE DEF P
        <3> QED
            BY <2>4, <2>5, AllNumbers
    <2>7. fn[L] = g[L]
        <3>1. L - 1 \in Nat /\ (L - 1) + 1 = L /\ L \in 1..L
            BY <1>1, <1>7
        <3>2. L - 1 \in P
            BY <2>6, <3>1
        <3> QED
            BY <3>1, <3>2
    <2> QED
        BY <1>9, <1>5, <2>1, <2>7
<1> QED
    BY <1>6, <1>7

LEMMA FlattenedIs ==
    ASSUME NEW E, NEW ss \in Seq(Seq(E))
    PROVE  /\ FlattenSeq(ss) \in Seq(E)
           /\ \A e : e \in Range(FlattenSeq(ss)) <=> \E i \in DOMAIN ss : e \in Range(ss[i])
           /\ /\ \A i \in DOMAIN ss : Distinct(ss[i])
              /\ \A i, j \in DOMAIN ss : i # j =>
                     \A e \in Range(ss[i]), d \in Range(ss[j]) : e.path # d.path
              => Distinct(FlattenSeq(ss))
<1> DEFINE L == Len(ss)
           Apart == /\ \A i \in DOMAIN ss : Distinct(ss[i])
                    /\ \A i, j \in DOMAIN ss : i # j =>
                           \A e \in Range(ss[i]), d \in Range(ss[j]) : e.path # d.path
<1>1. L \in Nat /\ DOMAIN ss = 1..L /\ \A i \in 1..L : ss[i] \in Seq(E)
    OBVIOUS
<1>2. PICK g \in [0..L -> Seq(E)] :
          /\ g[0] = << >> /\ \A i \in 1..L : g[i] = g[i - 1] \o ss[i]
          /\ FlattenSeq(ss) = g[L]
    BY FlattenIs
<1> DEFINE In(i) == \A e : e \in Range(g[i]) <=> \E l \in 1..i : e \in Range(ss[l])
           P == {i \in Nat : i \in 0..L => In(i) /\ (Apart => Distinct(g[i]))}
<1>3. 0 \in P
    <2>1. Range(g[0]) = {} /\ Distinct(g[0])
        BY <1>2 DEF Range, Distinct
    <2>2. \A l \in 1..0 : FALSE
        OBVIOUS
    <2>3. In(0)
        BY <2>1, <2>2
    <2> QED
        BY <2>1, <2>3
<1>4. ASSUME NEW i \in Nat, i \in P PROVE i + 1 \in P
    <2> SUFFICES ASSUME i + 1 \in 0..L
                 PROVE  In(i + 1) /\ (Apart => Distinct(g[i + 1]))
        OBVIOUS
    <2>1. i \in 0..L /\ i + 1 \in 1..L /\ (i + 1) - 1 = i
        BY <1>1
    <2>2. In(i) /\ (Apart => Distinct(g[i]))
        BY <1>4, <2>1
    <2>3. g[i + 1] = g[i] \o ss[i + 1] /\ g[i] \in Seq(E) /\ ss[i + 1] \in Seq(E)
        BY <1>1, <1>2, <2>1
    <2>4. /\ \A l \in 1..(i + 1) : l \in 1..i \/ l = i + 1
          /\ \A l \in 1..i : l \in 1..(i + 1)
          /\ i + 1 \in 1..(i + 1)
        OBVIOUS
    <2>5. In(i + 1)
        <3>1. Range(g[i + 1]) = Range(g[i]) \cup Range(ss[i + 1])
            BY <2>3, JoinedIs
        <3>2. ASSUME NEW e
              PROVE  e \in Range(g[i + 1]) <=> \E l \in 1..(i + 1) : e \in Range(ss[l])
            <4>1. e \in Range(g[i]) <=> \E l \in 1..i : e \in Range(ss[l])
                BY <2>2
            <4> QED
                BY <2>4, <3>1, <4>1, Zenon
        <3> QED
            BY <3>2
    <2>6. ASSUME Apart PROVE Distinct(g[i + 1])
        <3>1. \A l \in 1..i : l \in DOMAIN ss /\ l # i + 1
            BY <1>1, <2>1
        <3>2. \A e \in Range(g[i]), d \in Range(ss[i + 1]) : e.path # d.path
            BY <1>1, <2>1, <2>2, <2>6, <3>1
        <3>3. Distinct(g[i]) /\ Distinct(ss[i + 1])
            BY <1>1, <2>1, <2>2, <2>6
        <3>4. Distinct(g[i] \o ss[i + 1])
            BY <2>3, <3>2, <3>3, JoinedIs
        <3> QED
            BY <2>3, <3>4
    <2> QED
        BY <2>5, <2>6
<1>5. L \in P
    <2> HIDE DEF P, L
    <2> QED
        BY <1>1, <1>3, <1>4, AllNumbers
<1>6. In(L) /\ (Apart => Distinct(g[L]))
    <2>1. L \in 0..L
        BY <1>1
    <2> QED
        BY <1>5, <2>1
<1>7. g[L] \in Seq(E) /\ FlattenSeq(ss) = g[L]
    BY <1>1, <1>2
<1> HIDE DEF L
<1> QED
    BY <1>1, <1>6, <1>7, Zenon

-----------------------------------------------------------------------------
(* Folders in folders *)

(* The facts of IsTree, by entries. *)
LEMMA TreeIs ==
    ASSUME NEW dir, IsTree(dir)
    PROVE  /\ \A x \in DOMAIN dir : dir[x] \in Seq(Range(dir[x]))
           /\ \A x \in DOMAIN dir : \A e \in Range(dir[x]) :
                  e.path \in Nat /\ (isDir(e) /\ ~e.dots => e.folder \in DOMAIN dir)
           /\ \A x, y \in DOMAIN dir : \A e \in Range(dir[x]), d \in Range(dir[y]) :
                  ~e.dots /\ ~d.dots =>
                      /\ x # y => e.path # d.path
                      /\ x # y /\ isDir(e) /\ isDir(d) => e.folder # d.folder
           /\ \A x \in DOMAIN dir : \A j, k \in DOMAIN dir[x] :
                  j # k /\ ~dir[x][j].dots /\ ~dir[x][k].dots =>
                      /\ dir[x][j].path # dir[x][k].path
                      /\ isDir(dir[x][j]) /\ isDir(dir[x][k]) =>
                             dir[x][j].folder # dir[x][k].folder
<1>1. \A x, y \in DOMAIN dir : \A j \in DOMAIN dir[x], k \in DOMAIN dir[y] :
          (x # y \/ j # k) /\ ~dir[x][j].dots /\ ~dir[y][k].dots =>
              /\ dir[x][j].path # dir[y][k].path
              /\ isDir(dir[x][j]) /\ isDir(dir[y][k]) => dir[x][j].folder # dir[y][k].folder
    BY DEF IsTree
<1>2. /\ \A x \in DOMAIN dir : dir[x] \in Seq(Range(dir[x]))
      /\ \A x \in DOMAIN dir : \A e \in Range(dir[x]) :
             e.path \in Nat /\ (isDir(e) /\ ~e.dots => e.folder \in DOMAIN dir)
    BY DEF IsTree
<1>3. ASSUME NEW x \in DOMAIN dir, NEW y \in DOMAIN dir,
             NEW e \in Range(dir[x]), NEW d \in Range(dir[y]), ~e.dots, ~d.dots, x # y
      PROVE  e.path # d.path /\ (isDir(e) /\ isDir(d) => e.folder # d.folder)
    <2>1. PICK j \in DOMAIN dir[x] : e = dir[x][j]
        BY DEF Range
    <2>2. PICK k \in DOMAIN dir[y] : d = dir[y][k]
        BY DEF Range
    <2> QED
        BY <1>1, <1>3, <2>1, <2>2
<1> QED
    BY <1>1, <1>2, <1>3

LEMMA SubfoldersAre ==
    ASSUME NEW dir, NEW F, NEW y
    PROVE  y \in Subfolders(dir, F) <=>
               \E x \in F : \E e \in Range(dir[x]) : isDir(e) /\ ~e.dots /\ e.folder = y
BY DEF Subfolders

(* Folders are in one folder at most, and levels go down. *)
LEMMA ParentIs ==
    ASSUME NEW dir, IsTree(dir)
    PROVE  /\ \A F \in SUBSET DOMAIN dir : Subfolders(dir, F) \subseteq DOMAIN dir
           /\ \A x, y \in DOMAIN dir : \A z :
                  z \in Subfolders(dir, {x}) /\ z \in Subfolders(dir, {y}) => x = y
           /\ \E level \in [DOMAIN dir -> Nat] :
                  \A x \in DOMAIN dir : \A y \in Subfolders(dir, {x}) : level[x] < level[y]
<1>1. ASSUME NEW F \in SUBSET DOMAIN dir, NEW z \in Subfolders(dir, F) PROVE z \in DOMAIN dir
    BY SubfoldersAre, TreeIs
<1>2. ASSUME NEW x \in DOMAIN dir, NEW y \in DOMAIN dir, NEW z,
             z \in Subfolders(dir, {x}), z \in Subfolders(dir, {y}), x # y
      PROVE  FALSE
    <2>1. PICK e \in Range(dir[x]) : isDir(e) /\ ~e.dots /\ e.folder = z
        BY <1>2, SubfoldersAre
    <2>2. PICK d \in Range(dir[y]) : isDir(d) /\ ~d.dots /\ d.folder = z
        BY <1>2, SubfoldersAre
    <2> QED
        BY <1>2, <2>1, <2>2, TreeIs
<1>3. PICK level \in [DOMAIN dir -> 1..Cardinality(DOMAIN dir)] :
          \A x \in DOMAIN dir : \A y \in Subfolders(dir, {x}) : level[x] < level[y]
    BY DEF IsTree
<1>4. level \in [DOMAIN dir -> Nat]
    <2>1. ASSUME NEW c PROVE 1..c \subseteq Nat
        OBVIOUS
    <2> QED
        BY <1>3, <2>1
<1> QED
    BY <1>1, <1>2, <1>3, <1>4

(* The search goes down the tree folder by folder. *)
Searched(g, dir, x, n) ==
    /\ g \in [0..n -> SUBSET DOMAIN dir] /\ g[0] = {x}
    /\ \A i \in 1..n : g[i] = g[i - 1] \cup Subfolders(dir, g[i - 1])

LEMMA WithinIs ==
    ASSUME NEW dir, IsTree(dir), NEW x \in DOMAIN dir, NEW n \in Nat
    PROVE  \E g : Searched(g, dir, x, n) /\ Within(dir, x, n) = g[n]
<1> DEFINE T == SUBSET DOMAIN dir
           s == [i \in Nat |-> [F \in T |-> F \cup Subfolders(dir, F)]]
<1>1. s \in [Nat -> [T -> T]]
    BY ParentIs
<1>2. PICK g : Iterated(g, n, T, {x}, s)
    <2>1. {x} \in T
        OBVIOUS
    <2> HIDE DEF s, T
    <2> QED
        BY <1>1, <2>1, Iterates
<1>3. g \in [0..n -> T] /\ g[0] = {x} /\ \A i \in 1..n : g[i] = s[i][g[i - 1]]
    BY <1>2 DEF Iterated
<1>4. \A i \in 1..n : g[i] = g[i - 1] \cup Subfolders(dir, g[i - 1])
    <2> TAKE i \in 1..n
    <2>1. i \in Nat /\ i - 1 \in 0..n
        OBVIOUS
    <2>2. g[i - 1] \in T
        BY <1>3, <2>1
    <2>3. s[i][g[i - 1]] = g[i - 1] \cup Subfolders(dir, g[i - 1])
        BY <2>1, <2>2
    <2> HIDE DEF s
    <2> QED
        BY <1>3, <2>3
<1> DEFINE Eq(h) == h = [i \in 0..n |-> IF i = 0 THEN {x}
                                       ELSE h[i - 1] \cup Subfolders(dir, h[i - 1])]
           fn == CHOOSE h : Eq(h)
<1>5. Within(dir, x, n) = fn[n]
    BY DEF Within
<1>6. Eq(fn)
    <2>1. \A i \in 0..n : g[i] = IF i = 0 THEN {x} ELSE g[i - 1] \cup Subfolders(dir, g[i - 1])
        <3> TAKE i \in 0..n
        <3>1. i = 0 \/ (i \in 1..n /\ i # 0)
            OBVIOUS
        <3> QED
            BY <1>3, <1>4, <3>1
    <2>2. g = [i \in 0..n |-> g[i]]
        BY <1>3
    <2>3. Eq(g)
        BY <2>1, <2>2
    <2> QED
        BY <2>3
<1> HIDE DEF fn
<1>7. \A i \in 0..n : fn[i] = IF i = 0 THEN {x} ELSE fn[i - 1] \cup Subfolders(dir, fn[i - 1])
    BY <1>6
<1> DEFINE P == {i \in Nat : i \in 0..n => fn[i] = g[i]}
<1>8. 0 \in P
    BY <1>3, <1>7
<1>9. ASSUME NEW i \in Nat, i \in P PROVE i + 1 \in P
    <2> SUFFICES ASSUME i + 1 \in 0..n PROVE fn[i + 1] = g[i + 1]
        OBVIOUS
    <2>1. PICK m \in 1..n : m = i + 1 /\ m - 1 = i /\ m # 0 /\ m \in 0..n /\ i \in 0..n
        OBVIOUS
    <2>2. fn[i] = g[i]
        BY <1>9, <2>1
    <2>3. fn[m] = fn[m - 1] \cup Subfolders(dir, fn[m - 1])
        BY <1>7, <2>1
    <2>4. g[m] = g[m - 1] \cup Subfolders(dir, g[m - 1])
        BY <1>4, <2>1
    <2> QED
        BY <2>1, <2>2, <2>3, <2>4
<1>10. n \in P
    <2> HIDE DEF P
    <2> QED
        BY <1>8, <1>9, AllNumbers
<1> QED
    BY <1>3, <1>4, <1>5, <1>10 DEF Searched

LEMMA WithinGrows ==
    ASSUME NEW dir, IsTree(dir), NEW x \in DOMAIN dir
    PROVE  /\ Within(dir, x, 0) = {x}
           /\ \A n \in Nat :
                 /\ Within(dir, x, n) \in SUBSET DOMAIN dir
                 /\ Within(dir, x, n + 1) =
                        Within(dir, x, n) \cup Subfolders(dir, Within(dir, x, n))
<1>1. ASSUME NEW n \in Nat
      PROVE  /\ Within(dir, x, n) \in SUBSET DOMAIN dir
             /\ Within(dir, x, n + 1) =
                    Within(dir, x, n) \cup Subfolders(dir, Within(dir, x, n))
    <2>1. PICK g : Searched(g, dir, x, n) /\ Within(dir, x, n) = g[n]
        BY WithinIs
    <2>2. n + 1 \in Nat
        OBVIOUS
    <2>3. PICK h : Searched(h, dir, x, n + 1) /\ Within(dir, x, n + 1) = h[n + 1]
        BY <2>2, WithinIs
    <2> DEFINE P == {i \in Nat : i \in 0..n => h[i] = g[i]}
    <2>4. 0 \in P
        BY <2>1, <2>3 DEF Searched
    <2>5. ASSUME NEW i \in Nat, i \in P PROVE i + 1 \in P
        <3> SUFFICES ASSUME i + 1 \in 0..n PROVE h[i + 1] = g[i + 1]
            OBVIOUS
        <3>1. PICK m \in 1..n : m = i + 1 /\ m - 1 = i /\ m \in 1..(n + 1) /\ i \in 0..n
            OBVIOUS
        <3>2. h[i] = g[i]
            BY <2>5, <3>1
        <3>3. g[m] = g[m - 1] \cup Subfolders(dir, g[m - 1])
            BY <2>1, <3>1 DEF Searched
        <3>4. h[m] = h[m - 1] \cup Subfolders(dir, h[m - 1])
            BY <2>3, <3>1 DEF Searched
        <3> QED
            BY <3>1, <3>2, <3>3, <3>4
    <2>6. n \in P
        <3> HIDE DEF P
        <3> QED
            BY <2>4, <2>5, AllNumbers
    <2>7. PICK m \in 1..(n + 1) : m = n + 1 /\ m - 1 = n /\ n \in 0..n
        OBVIOUS
    <2>8. h[m] = h[m - 1] \cup Subfolders(dir, h[m - 1])
        BY <2>3 DEF Searched
    <2>9. h[n] = g[n] /\ g[n] \in SUBSET DOMAIN dir
        BY <2>1, <2>6, <2>7 DEF Searched
    <2> QED
        BY <2>1, <2>3, <2>7, <2>8, <2>9
<1>2. Within(dir, x, 0) = {x}
    <2>1. PICK g : Searched(g, dir, x, 0) /\ Within(dir, x, 0) = g[0]
        BY WithinIs
    <2> QED
        BY <2>1 DEF Searched
<1> QED
    BY <1>1, <1>2

(* What is within a folder's folders is within the folder. *)
LEMMA WithinBelow ==
    ASSUME NEW dir, IsTree(dir), NEW x \in DOMAIN dir
    PROVE  \A n \in Nat : \A z : z \in Within(dir, x, n + 1) <=>
               z = x \/ \E c \in Subfolders(dir, {x}) : z \in Within(dir, c, n)
<1> DEFINE Subs == Subfolders(dir, {x})
           Fits(n) == \A z : z \in Within(dir, x, n + 1) <=>
                          z = x \/ \E c \in Subs : z \in Within(dir, c, n)
           P == {n \in Nat : Fits(n)}
<1>1. /\ \A c \in Subs : c \in DOMAIN dir
      /\ \A y \in DOMAIN dir \cup {x} : {y} \in SUBSET DOMAIN dir
    BY ParentIs
<1>2. 0 \in P
    <2>1. Within(dir, x, 0) = {x} /\ 0 \in Nat /\ 0 + 1 = 1
        BY WithinGrows
    <2>2. Within(dir, x, 1) = {x} \cup Subs
        <3>1. Within(dir, x, 0 + 1)
                  = Within(dir, x, 0) \cup Subfolders(dir, Within(dir, x, 0))
            BY <2>1, WithinGrows
        <3> QED
            BY <2>1, <3>1, Zenon
    <2>3. \A c \in Subs : Within(dir, c, 0) = {c}
        BY <1>1, WithinGrows
    <2> HIDE DEF Subs
    <2>4. ASSUME NEW z PROVE z \in {x} \cup Subs <=> z = x \/ \E c \in Subs : z \in Within(dir, c, 0)
        BY <2>3
    <2>5. Fits(0)
        BY <2>1, <2>2, <2>4
    <2> QED
        BY <2>5
<1>3. ASSUME NEW n \in Nat, n \in P PROVE n + 1 \in P
    <2>0. n + 1 \in Nat
        OBVIOUS
    <2>1. Fits(n)
        BY <1>3
    <2>2. /\ Within(dir, x, n + 1) \in SUBSET DOMAIN dir
          /\ Within(dir, x, (n + 1) + 1) =
                 Within(dir, x, n + 1) \cup Subfolders(dir, Within(dir, x, n + 1))
        BY <2>0, WithinGrows
    <2>3. \A c \in Subs :
              /\ Within(dir, c, n) \in SUBSET DOMAIN dir
              /\ Within(dir, c, n + 1) =
                     Within(dir, c, n) \cup Subfolders(dir, Within(dir, c, n))
              /\ c \in Within(dir, c, n + 1)
        <3>1. ASSUME NEW c \in Subs PROVE c \in Within(dir, c, n + 1)
            <4>1. c \in DOMAIN dir
                BY <1>1
            <4> DEFINE Q == {m \in Nat : c \in Within(dir, c, m)}
            <4>2. 0 \in Q
                BY <4>1, WithinGrows
            <4>3. \A m \in Nat : m \in Q => m + 1 \in Q
                BY <4>1, WithinGrows
            <4>4. \A m \in Nat : m \in Q
                <5> HIDE DEF Q
                <5> QED
                    BY <4>2, <4>3, AllNumbers
            <4> QED
                BY <2>0, <4>4
        <3> QED
            BY <1>1, <3>1, WithinGrows
    <2> HIDE DEF Subs
    <2>4. ASSUME NEW z, z \in Within(dir, x, (n + 1) + 1)
          PROVE  z = x \/ \E c \in Subs : z \in Within(dir, c, n + 1)
        <3>1. CASE z \in Within(dir, x, n + 1)
            BY <2>1, <2>3, <3>1
        <3>2. CASE z \in Subfolders(dir, Within(dir, x, n + 1))
            <4>1. PICK y \in Within(dir, x, n + 1) : \E e \in Range(dir[y]) :
                           isDir(e) /\ ~e.dots /\ e.folder = z
                BY <3>2, SubfoldersAre
            <4>2. CASE y = x
                <5>1. z \in Subs
                    BY <4>1, <4>2, SubfoldersAre DEF Subs
                <5> QED
                    BY <2>3, <5>1
            <4>3. CASE \E c \in Subs : y \in Within(dir, c, n)
                <5>1. PICK c \in Subs : y \in Within(dir, c, n)
                    BY <4>3
                <5>2. z \in Subfolders(dir, Within(dir, c, n))
                    BY <4>1, <5>1, SubfoldersAre
                <5> QED
                    BY <2>3, <5>1, <5>2
            <4> QED
                BY <2>1, <4>1, <4>2, <4>3
        <3> QED
            BY <2>2, <2>4, <3>1, <3>2
    <2>5. ASSUME NEW z, NEW c \in Subs, z \in Within(dir, c, n + 1)
          PROVE  z \in Within(dir, x, (n + 1) + 1)
        <3>1. CASE z \in Within(dir, c, n)
            BY <2>1, <2>2, <3>1
        <3>2. CASE z \in Subfolders(dir, Within(dir, c, n))
            <4>1. PICK y \in Within(dir, c, n) : \E e \in Range(dir[y]) :
                           isDir(e) /\ ~e.dots /\ e.folder = z
                BY <3>2, SubfoldersAre
            <4>2. y \in Within(dir, x, n + 1)
                BY <2>1, <4>1
            <4>3. z \in Subfolders(dir, Within(dir, x, n + 1))
                BY <4>1, <4>2, SubfoldersAre
            <4> QED
                BY <2>2, <4>3
        <3> QED
            BY <2>3, <2>5, <3>1, <3>2
    <2>6. x \in Within(dir, x, (n + 1) + 1)
        BY <2>1, <2>2
    <2>7. Fits(n + 1)
        BY <2>4, <2>5, <2>6
    <2> QED
        BY <2>0, <2>7
<1>4. \A n \in Nat : n \in P
    <2> HIDE DEF P
    <2> QED
        BY <1>2, <1>3, AllNumbers
<1> QED
    BY <1>4

(* The folder that another one is in is within the same folders, unless the search began with
   the other. *)
LEMMA WithinParent ==
    ASSUME NEW dir, IsTree(dir), NEW c \in DOMAIN dir, NEW y \in DOMAIN dir,
           NEW z \in Subfolders(dir, {y}), z # c
    PROVE  \A n \in Nat : z \in Within(dir, c, n) => y \in Within(dir, c, n)
<1> DEFINE P == {n \in Nat : z \in Within(dir, c, n) => y \in Within(dir, c, n)}
<1>1. 0 \in P
    BY WithinGrows
<1>2. ASSUME NEW n \in Nat, n \in P PROVE n + 1 \in P
    <2> SUFFICES ASSUME z \in Within(dir, c, n + 1) PROVE y \in Within(dir, c, n + 1)
        OBVIOUS
    <2>1. /\ Within(dir, c, n) \in SUBSET DOMAIN dir
          /\ Within(dir, c, n + 1) = Within(dir, c, n) \cup Subfolders(dir, Within(dir, c, n))
        BY WithinGrows
    <2>2. CASE z \in Within(dir, c, n)
        BY <1>2, <2>1, <2>2
    <2>3. CASE z \in Subfolders(dir, Within(dir, c, n))
        <3>1. PICK x \in Within(dir, c, n) : \E e \in Range(dir[x]) :
                       isDir(e) /\ ~e.dots /\ e.folder = z
            BY <2>3, SubfoldersAre
        <3>2. z \in Subfolders(dir, {x}) /\ x \in DOMAIN dir
            BY <2>1, <3>1, SubfoldersAre
        <3>3. x = y
            BY <3>2, ParentIs
        <3> QED
            BY <2>1, <3>1, <3>3
    <2> QED
        BY <2>1, <2>2, <2>3
<1>3. \A n \in Nat : n \in P
    <2> HIDE DEF P
    <2> QED
        BY <1>1, <1>2, AllNumbers
<1> QED
    BY <1>3

(* A folder is not within those that are in it. *)
LEMMA NotBelow ==
    ASSUME NEW dir, IsTree(dir), NEW x \in DOMAIN dir, NEW c \in Subfolders(dir, {x})
    PROVE  \A n \in Nat : x \notin Within(dir, c, n)
<1>1. PICK level \in [DOMAIN dir -> Nat] :
          \A u \in DOMAIN dir : \A v \in Subfolders(dir, {u}) : level[u] < level[v]
    BY ParentIs
<1>2. c \in DOMAIN dir
    <2>1. {x} \in SUBSET DOMAIN dir
        OBVIOUS
    <2> QED
        BY <2>1, ParentIs
<1> DEFINE P == {n \in Nat : \A z \in Within(dir, c, n) : level[c] <= level[z]}
<1>3. 0 \in P
    <2>1. Within(dir, c, 0) = {c} /\ level[c] \in Nat
        BY <1>1, <1>2, WithinGrows
    <2> QED
        BY <2>1
<1>4. ASSUME NEW n \in Nat, n \in P PROVE n + 1 \in P
    <2> SUFFICES ASSUME NEW z \in Within(dir, c, n + 1) PROVE level[c] <= level[z]
        OBVIOUS
    <2>1. /\ Within(dir, c, n) \in SUBSET DOMAIN dir
          /\ Within(dir, c, n + 1) = Within(dir, c, n) \cup Subfolders(dir, Within(dir, c, n))
        BY <1>2, WithinGrows
    <2>2. CASE z \in Within(dir, c, n)
        BY <1>4, <2>2
    <2>3. CASE z \in Subfolders(dir, Within(dir, c, n))
        <3>1. PICK y \in Within(dir, c, n) : \E e \in Range(dir[y]) :
                       isDir(e) /\ ~e.dots /\ e.folder = z
            BY <2>3, SubfoldersAre
        <3>2. z \in Subfolders(dir, {y}) /\ y \in DOMAIN dir /\ {y} \in SUBSET DOMAIN dir
            BY <2>1, <3>1, SubfoldersAre
        <3>3. z \in DOMAIN dir
            BY <3>2, ParentIs
        <3>4. level[c] <= level[y] /\ level[y] < level[z]
            BY <1>1, <1>4, <3>1, <3>2
        <3> QED
            BY <1>1, <1>2, <3>2, <3>3, <3>4
    <2> QED
        BY <2>1, <2>2, <2>3
<1>5. \A n \in Nat : n \in P
    <2> HIDE DEF P
    <2> QED
        BY <1>3, <1>4, AllNumbers
<1>6. level[x] < level[c] /\ level[x] \in Nat /\ level[c] \in Nat
    BY <1>1, <1>2
<1>7. ~(level[c] <= level[x])
    BY <1>6
<1> QED
    BY <1>5, <1>7

(* Two folders that are in the same one have no folder in common. *)
LEMMA SiblingsApart ==
    ASSUME NEW dir, IsTree(dir), NEW x \in DOMAIN dir,
           NEW c \in Subfolders(dir, {x}), NEW d \in Subfolders(dir, {x}), c # d,
           NEW m \in Nat
    PROVE  \A n \in Nat : Within(dir, c, n) \cap Within(dir, d, m) = {}
<1>1. c \in DOMAIN dir /\ d \in DOMAIN dir
    <2>1. {x} \in SUBSET DOMAIN dir
        OBVIOUS
    <2> QED
        BY <2>1, ParentIs
<1> DEFINE P == {n \in Nat : Within(dir, c, n) \cap Within(dir, d, m) = {}}
<1>2. 0 \in P
    <2>1. Within(dir, c, 0) = {c}
        BY <1>1, WithinGrows
    <2>2. c \notin Within(dir, d, m)
        <3>1. x \notin Within(dir, d, m)
            BY NotBelow
        <3> QED
            BY <1>1, <3>1, WithinParent
    <2> QED
        BY <2>1, <2>2
<1>3. ASSUME NEW n \in Nat, n \in P PROVE n + 1 \in P
    <2> SUFFICES ASSUME NEW z, z \in Within(dir, c, n + 1), z \in Within(dir, d, m)
                 PROVE  FALSE
        OBVIOUS
    <2>1. /\ Within(dir, c, n) \in SUBSET DOMAIN dir
          /\ Within(dir, c, n + 1) = Within(dir, c, n) \cup Subfolders(dir, Within(dir, c, n))
        BY <1>1, WithinGrows
    <2>2. CASE z \in Within(dir, c, n)
        BY <1>3, <2>2
    <2>3. CASE z \in Subfolders(dir, Within(dir, c, n))
        <3>1. PICK y \in Within(dir, c, n) : \E e \in Range(dir[y]) :
                       isDir(e) /\ ~e.dots /\ e.folder = z
            BY <2>3, SubfoldersAre
        <3>2. z \in Subfolders(dir, {y}) /\ y \in DOMAIN dir
            BY <2>1, <3>1, SubfoldersAre
        <3>3. z # d
            <4>1. n + 1 \in Nat /\ x \notin Within(dir, c, n + 1)
                BY NotBelow
            <4>2. d \notin Within(dir, c, n + 1)
                BY <1>1, <4>1, WithinParent
            <4> QED
                BY <4>2
        <3>4. y \in Within(dir, d, m)
            BY <1>1, <3>2, <3>3, WithinParent
        <3> QED
            BY <1>3, <3>1, <3>4
    <2> QED
        BY <2>1, <2>2, <2>3
<1>4. \A n \in Nat : n \in P
    <2> HIDE DEF P
    <2> QED
        BY <1>2, <1>3, AllNumbers
<1> QED
    BY <1>4

-----------------------------------------------------------------------------
(* What is listed *)

(* The entries that the folders have. *)
Entries(dir) == UNION {Range(dir[x]) : x \in DOMAIN dir}

(* What a folder's part of the list is made from, entry by entry. *)
Piece(entry, filter, flags, depth, below) ==
    (IF Enters(entry, flags, depth) THEN below[entry.folder] ELSE << >>)
    \o (IF Listed(entry, filter, flags) THEN <<entry>> ELSE << >>)

LEMMA PieceIs ==
    ASSUME NEW dir, IsTree(dir), NEW filter, NEW flags, NEW depth \in Nat, NEW below,
           depth = 0 \/ below \in [DOMAIN dir -> Seq(Entries(dir))],
           NEW x \in DOMAIN dir, NEW entry \in Range(dir[x])
    PROVE  LET piece == Piece(entry, filter, flags, depth, below)
           IN /\ piece \in Seq(Entries(dir))
              /\ \A e : e \in Range(piece) <=>
                     \/ e = entry /\ Listed(entry, filter, flags)
                     \/ Enters(entry, flags, depth) /\ e \in Range(below[entry.folder])
              /\ /\ Enters(entry, flags, depth) => Distinct(below[entry.folder])
                 /\ \A e : Enters(entry, flags, depth) /\ e \in Range(below[entry.folder])
                               => e.path # entry.path
                 => Distinct(piece)
<1> DEFINE u == IF Enters(entry, flags, depth) THEN below[entry.folder] ELSE << >>
           v == IF Listed(entry, filter, flags) THEN <<entry>> ELSE << >>
<1>1. entry \in Entries(dir)
    BY DEF Entries
<1>2. u \in Seq(Entries(dir))
    <2>1. CASE Enters(entry, flags, depth)
        <3>1. depth # 0 /\ isDir(entry) /\ ~entry.dots
            BY <2>1 DEF Enters
        <3>2. entry.folder \in DOMAIN dir
            BY <3>1, TreeIs
        <3> QED
            BY <2>1, <3>1, <3>2
    <2>2. CASE ~Enters(entry, flags, depth)
        BY <2>2
    <2> QED
        BY <2>1, <2>2
<1>3. v \in Seq(Entries(dir)) /\ Distinct(v)
    BY <1>1 DEF Distinct
<1>4. \A e : e \in Range(v) <=> e = entry /\ Listed(entry, filter, flags)
    BY DEF Range
<1>5. \A e : e \in Range(u) <=> Enters(entry, flags, depth) /\ e \in Range(below[entry.folder])
    BY DEF Range
<1>6. (Enters(entry, flags, depth) => Distinct(below[entry.folder])) => Distinct(u)
    BY DEF Distinct
<1>7. Piece(entry, filter, flags, depth, below) = u \o v
    BY DEF Piece
<1> HIDE DEF u, v
<1>8. /\ u \o v \in Seq(Entries(dir)) /\ Range(u \o v) = Range(u) \cup Range(v)
      /\ Distinct(u) /\ Distinct(v) /\ (\A e \in Range(u), d \in Range(v) : e.path # d.path)
             => Distinct(u \o v)
    BY <1>2, <1>3, JoinedIs
<1>9. ASSUME Enters(entry, flags, depth) => Distinct(below[entry.folder]),
             \A e : Enters(entry, flags, depth) /\ e \in Range(below[entry.folder])
                        => e.path # entry.path
      PROVE  Distinct(u \o v)
    BY <1>3, <1>4, <1>5, <1>6, <1>8, <1>9
<1>10. \A e : e \in Range(u \o v) <=>
           \/ e = entry /\ Listed(entry, filter, flags)
           \/ Enters(entry, flags, depth) /\ e \in Range(below[entry.folder])
    BY <1>4, <1>5, <1>8
<1> QED
    BY <1>7, <1>8, <1>9, <1>10

LEMMA LoadFolderIs ==
    ASSUME NEW dir, IsTree(dir), NEW filter, NEW flags, NEW depth \in Nat, NEW below,
           depth = 0 \/ below \in [DOMAIN dir -> Seq(Entries(dir))], NEW x \in DOMAIN dir
    PROVE  LET list == LoadFolder(dir, x, filter, flags, depth, below)
               Pieces(k) == Piece(dir[x][k], filter, flags, depth, below)
           IN /\ list \in Seq(Entries(dir))
              /\ \A e : e \in Range(list) <=> \E k \in DOMAIN dir[x] : e \in Range(Pieces(k))
              /\ /\ \A k \in DOMAIN dir[x] : Distinct(Pieces(k))
                 /\ \A j, k \in DOMAIN dir[x] : j # k =>
                        \A e \in Range(Pieces(j)), d \in Range(Pieces(k)) : e.path # d.path
                 => Distinct(list)
<1> DEFINE ss == [k \in DOMAIN dir[x] |-> Piece(dir[x][k], filter, flags, depth, below)]
<1>1. LoadFolder(dir, x, filter, flags, depth, below) = FlattenSeq(ss)
    BY DEF LoadFolder, Piece
<1>2. Len(dir[x]) \in Nat /\ DOMAIN dir[x] = 1..Len(dir[x])
    BY TreeIs
<1>3. ASSUME NEW k \in DOMAIN dir[x]
      PROVE  Piece(dir[x][k], filter, flags, depth, below) \in Seq(Entries(dir))
    <2>1. dir[x][k] \in Range(dir[x])
        BY DEF Range
    <2> QED
        BY <2>1, PieceIs
<1>4. ss \in Seq(Seq(Entries(dir))) /\ DOMAIN ss = DOMAIN dir[x]
    BY <1>2, <1>3
<1>5. \A k \in DOMAIN dir[x] : ss[k] = Piece(dir[x][k], filter, flags, depth, below)
    OBVIOUS
<1> HIDE DEF ss
<1>6. /\ FlattenSeq(ss) \in Seq(Entries(dir))
      /\ \A e : e \in Range(FlattenSeq(ss)) <=> \E i \in DOMAIN ss : e \in Range(ss[i])
      /\ /\ \A i \in DOMAIN ss : Distinct(ss[i])
         /\ \A i, j \in DOMAIN ss : i # j =>
                \A e \in Range(ss[i]), d \in Range(ss[j]) : e.path # d.path
         => Distinct(FlattenSeq(ss))
    BY <1>4, FlattenedIs
<1> QED
    BY <1>1, <1>4, <1>5, <1>6

LEMMA FolderAtZero ==
    ASSUME NEW dir, NEW filter, NEW flags, NEW x, NEW A, NEW B
    PROVE  LoadFolder(dir, x, filter, flags, 0, A) = LoadFolder(dir, x, filter, flags, 0, B)
<1>1. \A k \in DOMAIN dir[x] : ~Enters(dir[x][k], flags, 0)
    BY DEF Enters
<1>2. [k \in DOMAIN dir[x] |-> Piece(dir[x][k], filter, flags, 0, A)]
          = [k \in DOMAIN dir[x] |-> Piece(dir[x][k], filter, flags, 0, B)]
    BY <1>1 DEF Piece
<1> QED
    BY <1>2 DEF LoadFolder, Piece

(* What the recursion has at each depth and for each folder. *)
Loads(g, dir, filter, flags, n) ==
    /\ g \in [0..n -> [DOMAIN dir -> Seq(Entries(dir))]]
    /\ \A d \in 0..n, x \in DOMAIN dir :
           g[d][x] = LoadFolder(dir, x, filter, flags, d, g[d - 1])

LEMMA LoadIs ==
    ASSUME NEW dir, IsTree(dir), NEW filter, NEW flags, NEW n \in Nat
    PROVE  \E g : Loads(g, dir, filter, flags, n)
                  /\ InternalLoadPath(dir, filter, flags, n) = g[n]
<1> DEFINE T == [DOMAIN dir -> Seq(Entries(dir))]
           At(d, below) == [x \in DOMAIN dir |-> LoadFolder(dir, x, filter, flags, d, below)]
           s == [d \in Nat |-> [below \in T |-> At(d, below)]]
<1>1. At(0, << >>) \in T
    BY LoadFolderIs
<1>2. ASSUME NEW d \in Nat, NEW below \in T PROVE At(d, below) \in T
    BY LoadFolderIs
<1>3. s \in [Nat -> [T -> T]]
    BY <1>2
<1>4. PICK g : Iterated(g, n, T, At(0, << >>), s)
    <2> HIDE DEF s, T, At
    <2> QED
        BY <1>1, <1>3, Iterates
<1>5. g \in [0..n -> T] /\ g[0] = At(0, << >>) /\ \A d \in 1..n : g[d] = s[d][g[d - 1]]
    BY <1>4 DEF Iterated
<1>6. \A d \in 0..n : g[d] = At(d, g[d - 1])
    <2> TAKE d \in 0..n
    <2>1. CASE d = 0
        <3>1. At(0, << >>) = At(0, g[0 - 1])
            BY FolderAtZero
        <3> QED
            BY <1>5, <2>1, <3>1
    <2>2. CASE d # 0
        <3>1. d \in 1..n /\ d \in Nat /\ d - 1 \in 0..n
            BY <2>2
        <3>2. g[d - 1] \in T
            BY <1>5, <3>1
        <3>3. s[d][g[d - 1]] = At(d, g[d - 1])
            BY <3>1, <3>2
        <3> HIDE DEF s
        <3> QED
            BY <1>5, <3>1, <3>3
    <2> QED
        BY <2>1, <2>2
<1> DEFINE Eq(h) == h = [d \in 0..n |->
                            [x \in DOMAIN dir |->
                                LoadFolder(dir, x, filter, flags, d, h[d - 1])]]
           fn == CHOOSE h : Eq(h)
<1>7. InternalLoadPath(dir, filter, flags, n) = fn[n]
    BY DEF InternalLoadPath
<1>8. Eq(fn)
    <2>1. g = [d \in 0..n |-> g[d]]
        BY <1>5
    <2>2. Eq(g)
        BY <1>6, <2>1
    <2> QED
        BY <2>2
<1> HIDE DEF fn
<1>9. \A d \in 0..n : fn[d] = At(d, fn[d - 1])
    BY <1>8
<1> HIDE DEF At
<1> DEFINE P == {d \in Nat : d \in 0..n => fn[d] = g[d]}
<1>10. 0 \in P
    <2>1. At(0, fn[0 - 1]) = At(0, g[0 - 1])
        BY FolderAtZero DEF At
    <2> QED
        BY <1>6, <1>9, <2>1
<1>11. ASSUME NEW d \in Nat, d \in P PROVE d + 1 \in P
    <2> SUFFICES ASSUME d + 1 \in 0..n PROVE fn[d + 1] = g[d + 1]
        OBVIOUS
    <2>1. PICK m \in 0..n : m = d + 1 /\ m - 1 = d /\ d \in 0..n
        OBVIOUS
    <2>2. fn[d] = g[d]
        BY <1>11, <2>1
    <2>3. fn[m] = At(m, fn[m - 1]) /\ g[m] = At(m, g[m - 1])
        BY <1>6, <1>9, <2>1
    <2> QED
        BY <2>1, <2>2, <2>3
<1>12. n \in P
    <2> HIDE DEF P
    <2> QED
        BY <1>10, <1>11, AllNumbers
<1>13. fn[n] = g[n]
    BY <1>12
<1>14. ASSUME NEW d \in 0..n, NEW x \in DOMAIN dir
       PROVE  g[d][x] = LoadFolder(dir, x, filter, flags, d, g[d - 1])
    BY <1>6 DEF At
<1>15. Loads(g, dir, filter, flags, n)
    BY <1>5, <1>14 DEF Loads
<1> QED
    BY <1>7, <1>13, <1>15

-----------------------------------------------------------------------------
(* The folders that are searched for a folder, at a depth. *)
Searches(dir, x, flags, depth) ==
    IF "CheckSubfolders" \in flags THEN Within(dir, x, depth) ELSE {x}

(* The list of a folder at a depth is right: it has what is asked for, once. *)
FolderRight(list, dir, x, filter, flags, depth) ==
    /\ \A e : e \in Range(list) <=>
           \E y \in Searches(dir, x, flags, depth) :
               e \in Range(dir[y]) /\ Listed(e, filter, flags)
    /\ Distinct(list)

(* An entry of a folder and what is below it, whichever it is. *)
LEMMA SearchesAre ==
    ASSUME NEW dir, IsTree(dir), NEW x \in DOMAIN dir, NEW flags, NEW d \in Nat
    PROVE  \A y : y \in Searches(dir, x, flags, d) <=>
               \/ y = x
               \/ \E e \in Range(dir[x]) :
                      Enters(e, flags, d) /\ y \in Searches(dir, e.folder, flags, d - 1)
<1>1. CASE "CheckSubfolders" \in flags /\ d # 0
    <2>1. PICK m \in Nat : m = d - 1 /\ m + 1 = d
        BY <1>1
    <2>2. \A e : Enters(e, flags, d) <=> isDir(e) /\ ~e.dots
        BY <1>1 DEF Enters
    <2>3. ASSUME NEW y
          PROVE  y \in Within(dir, x, m + 1) <=>
                     y = x \/ \E e \in Range(dir[x]) :
                                  isDir(e) /\ ~e.dots /\ y \in Within(dir, e.folder, m)
        <3>1. y \in Within(dir, x, m + 1) <=>
                  y = x \/ \E c \in Subfolders(dir, {x}) : y \in Within(dir, c, m)
            BY WithinBelow
        <3>2. \A c : c \in Subfolders(dir, {x}) <=>
                  \E e \in Range(dir[x]) : isDir(e) /\ ~e.dots /\ e.folder = c
            BY SubfoldersAre
        <3> QED
            BY <3>1, <3>2
    <2> QED
        BY <1>1, <2>1, <2>2, <2>3 DEF Searches
<1>2. CASE "CheckSubfolders" \notin flags
    BY <1>2 DEF Searches, Enters
<1>3. CASE d = 0
    <2>1. Searches(dir, x, flags, 0) = {x}
        BY WithinGrows DEF Searches
    <2>2. \A e : ~Enters(e, flags, 0)
        BY DEF Enters
    <2> QED
        BY <1>3, <2>1, <2>2
<1> QED
    BY <1>1, <1>2, <1>3

(* What is searched for two entries of a folder, and the folder itself, are apart. *)
LEMMA SearchesApart ==
    ASSUME NEW dir, IsTree(dir), NEW x \in DOMAIN dir, NEW flags, NEW d \in Nat,
           NEW j \in DOMAIN dir[x], NEW k \in DOMAIN dir[x],
           Enters(dir[x][j], flags, d)
    PROVE  /\ dir[x][j].folder \in DOMAIN dir
           /\ \A y \in Searches(dir, dir[x][j].folder, flags, d - 1) : y \in DOMAIN dir /\ y # x
           /\ j # k /\ Enters(dir[x][k], flags, d) =>
                  Searches(dir, dir[x][j].folder, flags, d - 1)
                      \cap Searches(dir, dir[x][k].folder, flags, d - 1) = {}
<1>1. PICK m \in Nat : m = d - 1
    BY DEF Enters
<1>2. /\ "CheckSubfolders" \in flags /\ isDir(dir[x][j]) /\ ~dir[x][j].dots
      /\ dir[x][j] \in Range(dir[x])
    BY DEF Enters, Range
<1>3. dir[x][j].folder \in Subfolders(dir, {x}) /\ dir[x][j].folder \in DOMAIN dir
    BY <1>2, SubfoldersAre, TreeIs
<1>4. Within(dir, dir[x][j].folder, m) \in SUBSET DOMAIN dir
    BY <1>3, WithinGrows
<1>5. x \notin Within(dir, dir[x][j].folder, m)
    BY <1>3, NotBelow
<1>6. ASSUME j # k, Enters(dir[x][k], flags, d)
      PROVE  Within(dir, dir[x][j].folder, m) \cap Within(dir, dir[x][k].folder, m) = {}
    <2>1. isDir(dir[x][k]) /\ ~dir[x][k].dots /\ dir[x][k] \in Range(dir[x])
        BY <1>6 DEF Enters, Range
    <2>2. dir[x][k].folder \in Subfolders(dir, {x})
        BY <2>1, SubfoldersAre
    <2>3. dir[x][j].folder # dir[x][k].folder
        BY <1>2, <1>6, <2>1, TreeIs
    <2> QED
        BY <1>3, <2>2, <2>3, SiblingsApart
<1> QED
    BY <1>1, <1>2, <1>3, <1>4, <1>5, <1>6 DEF Searches

(* One more depth: if the lists of the folders below are right, so is that of a folder. *)
LEMMA FolderStep ==
    ASSUME NEW dir, IsTree(dir), NEW filter, NEW flags, NEW d \in Nat, NEW below,
           d = 0 \/ (/\ below \in [DOMAIN dir -> Seq(Entries(dir))]
                     /\ \A y \in DOMAIN dir :
                            FolderRight(below[y], dir, y, filter, flags, d - 1)),
           NEW x \in DOMAIN dir
    PROVE  FolderRight(LoadFolder(dir, x, filter, flags, d, below), dir, x, filter, flags, d)
<1> DEFINE Entry(k) == dir[x][k]
           Pieces(k) == Piece(Entry(k), filter, flags, d, below)
           list == LoadFolder(dir, x, filter, flags, d, below)
           Down(k) == Searches(dir, Entry(k).folder, flags, d - 1)
<1>1. \A k \in DOMAIN dir[x] : Entry(k) \in Range(dir[x])
    BY DEF Range
<1>2. d = 0 \/ below \in [DOMAIN dir -> Seq(Entries(dir))]
    OBVIOUS
<1>3. ASSUME NEW k \in DOMAIN dir[x], Enters(Entry(k), flags, d)
      PROVE  /\ \A e : e \in Range(below[Entry(k).folder]) <=>
                    \E y \in Down(k) : e \in Range(dir[y]) /\ Listed(e, filter, flags)
             /\ Distinct(below[Entry(k).folder])
    <2>1. d # 0
        BY <1>3 DEF Enters
    <2>2. Entry(k).folder \in DOMAIN dir
        BY <1>3, SearchesApart
    <2> QED
        BY <2>1, <2>2 DEF FolderRight
(* Of what an entry adds: it is the entry, or in what is searched below it. *)
<1>4. ASSUME NEW k \in DOMAIN dir[x], NEW e
      PROVE  e \in Range(Pieces(k)) <=>
                 \/ e = Entry(k) /\ Listed(e, filter, flags)
                 \/ /\ Enters(Entry(k), flags, d)
                    /\ \E y \in Down(k) : e \in Range(dir[y]) /\ Listed(e, filter, flags)
    <2>1. e \in Range(Pieces(k)) <=>
              \/ e = Entry(k) /\ Listed(Entry(k), filter, flags)
              \/ Enters(Entry(k), flags, d) /\ e \in Range(below[Entry(k).folder])
        BY <1>1, <1>2, PieceIs
    <2> QED
        BY <1>3, <2>1
<1>5. ASSUME NEW e
      PROVE  e \in Range(list) <=> \E y \in Searches(dir, x, flags, d) :
                                       e \in Range(dir[y]) /\ Listed(e, filter, flags)
    <2>1. e \in Range(list) <=> \E k \in DOMAIN dir[x] : e \in Range(Pieces(k))
        BY <1>2, LoadFolderIs
    <2>2. \A y : y \in Searches(dir, x, flags, d) <=>
              y = x \/ \E c \in Range(dir[x]) :
                           Enters(c, flags, d) /\ y \in Searches(dir, c.folder, flags, d - 1)
        BY SearchesAre
    <2>3. \A c : c \in Range(dir[x]) <=> \E k \in DOMAIN dir[x] : c = Entry(k)
        BY DEF Range
    <2> HIDE DEF list, Pieces
    <2>4. ASSUME e \in Range(list)
          PROVE  \E y \in Searches(dir, x, flags, d) :
                     e \in Range(dir[y]) /\ Listed(e, filter, flags)
        <3>1. PICK k \in DOMAIN dir[x] : e \in Range(Pieces(k))
            BY <2>1, <2>4
        <3> QED
            BY <1>1, <1>4, <2>2, <3>1
    <2>5. ASSUME NEW y \in Searches(dir, x, flags, d), e \in Range(dir[y]),
                 Listed(e, filter, flags)
          PROVE  e \in Range(list)
        <3>1. CASE y = x
            <4>1. PICK k \in DOMAIN dir[x] : e = Entry(k)
                BY <2>3, <2>5, <3>1
            <4> QED
                BY <1>4, <2>1, <2>5, <4>1
        <3>2. CASE y # x
            <4>1. PICK k \in DOMAIN dir[x] : Enters(Entry(k), flags, d) /\ y \in Down(k)
                BY <2>2, <2>3, <2>5, <3>2
            <4> QED
                BY <1>4, <2>1, <2>5, <4>1
        <3> QED
            BY <3>1, <3>2
    <2> QED
        BY <2>4, <2>5
<1>6. \A e : Listed(e, filter, flags) => ~e.dots
    BY DEF Listed
<1>7. ASSUME NEW k \in DOMAIN dir[x] PROVE Distinct(Pieces(k))
    <2>1. ASSUME NEW e, Enters(Entry(k), flags, d), e \in Range(below[Entry(k).folder])
          PROVE  e.path # Entry(k).path
        <3>1. PICK y \in Down(k) : e \in Range(dir[y]) /\ Listed(e, filter, flags)
            BY <1>3, <2>1
        <3>2. y \in DOMAIN dir /\ y # x
            BY <2>1, <3>1, SearchesApart
        <3>3. ~Entry(k).dots
            BY <2>1 DEF Enters
        <3> QED
            BY <1>1, <1>6, <3>1, <3>2, <3>3, TreeIs
    <2> QED
        BY <1>1, <1>2, <1>3, <2>1, PieceIs
<1>8. ASSUME NEW j \in DOMAIN dir[x], NEW k \in DOMAIN dir[x], j # k,
             NEW e \in Range(Pieces(j)), NEW c \in Range(Pieces(k))
      PROVE  e.path # c.path
    <2>0. x \in DOMAIN dir /\ ~e.dots /\ ~c.dots
        BY <1>4, <1>6
    <2>1. CASE e = Entry(j) /\ c = Entry(k)
        BY <1>8, <2>0, <2>1, TreeIs
    <2>2. CASE e = Entry(j) /\ c # Entry(k)
        <3>1. PICK y \in Down(k) : c \in Range(dir[y]) /\ Enters(Entry(k), flags, d)
            BY <1>4, <2>2
        <3>2. y \in DOMAIN dir /\ y # x
            BY <3>1, SearchesApart
        <3> QED
            BY <1>1, <2>0, <2>2, <3>1, <3>2, TreeIs
    <2>3. CASE e # Entry(j) /\ c = Entry(k)
        <3>1. PICK y \in Down(j) : e \in Range(dir[y]) /\ Enters(Entry(j), flags, d)
            BY <1>4, <2>3
        <3>2. y \in DOMAIN dir /\ y # x
            BY <3>1, SearchesApart
        <3> QED
            BY <1>1, <2>0, <2>3, <3>1, <3>2, TreeIs
    <2>4. CASE e # Entry(j) /\ c # Entry(k)
        <3>1. PICK y \in Down(j) : e \in Range(dir[y]) /\ Enters(Entry(j), flags, d)
            BY <1>4, <2>4
        <3>2. PICK z \in Down(k) : c \in Range(dir[z]) /\ Enters(Entry(k), flags, d)
            BY <1>4, <2>4
        <3>3. y \in DOMAIN dir /\ z \in DOMAIN dir /\ y # z
            BY <1>8, <3>1, <3>2, SearchesApart
        <3> QED
            BY <2>0, <3>1, <3>2, <3>3, TreeIs
    <2> QED
        BY <2>1, <2>2, <2>3, <2>4
<1>9. Distinct(list)
    BY <1>2, <1>7, <1>8, LoadFolderIs
<1> QED
    BY <1>5, <1>9 DEF FolderRight

(* What InternalLoadPath lists of a folder. *)
LEMMA ListIsRight ==
    ASSUME NEW dir, IsTree(dir), NEW filter, NEW flags, NEW n \in Nat, NEW x \in DOMAIN dir
    PROVE  LET list == InternalLoadPath(dir, filter, flags, n)[x]
           IN list \in Seq(Entries(dir)) /\ FolderRight(list, dir, x, filter, flags, n)
<1>1. PICK g : Loads(g, dir, filter, flags, n)
               /\ InternalLoadPath(dir, filter, flags, n) = g[n]
    BY LoadIs
<1>2. /\ g \in [0..n -> [DOMAIN dir -> Seq(Entries(dir))]]
      /\ \A d \in 0..n, y \in DOMAIN dir :
             g[d][y] = LoadFolder(dir, y, filter, flags, d, g[d - 1])
    BY <1>1 DEF Loads
<1> DEFINE P == {d \in Nat : d \in 0..n => \A y \in DOMAIN dir :
                                FolderRight(g[d][y], dir, y, filter, flags, d)}
<1>3. 0 \in P
    <2>1. ASSUME NEW y \in DOMAIN dir PROVE FolderRight(g[0][y], dir, y, filter, flags, 0)
        <3>1. g[0][y] = LoadFolder(dir, y, filter, flags, 0, g[0 - 1])
            BY <1>2
        <3>2. FolderRight(LoadFolder(dir, y, filter, flags, 0, g[0 - 1]),
                          dir, y, filter, flags, 0)
            BY FolderStep
        <3> QED
            BY <3>1, <3>2
    <2> QED
        BY <2>1
<1>4. ASSUME NEW d \in Nat, d \in P PROVE d + 1 \in P
    <2> SUFFICES ASSUME d + 1 \in 0..n, NEW y \in DOMAIN dir
                 PROVE  FolderRight(g[d + 1][y], dir, y, filter, flags, d + 1)
        OBVIOUS
    <2>1. PICK m \in 0..n : m = d + 1 /\ m - 1 = d /\ d \in 0..n /\ m \in Nat
        OBVIOUS
    <2>2. \A z \in DOMAIN dir : FolderRight(g[d][z], dir, z, filter, flags, d)
        BY <1>4, <2>1
    <2>3. g[m][y] = LoadFolder(dir, y, filter, flags, m, g[m - 1])
        BY <1>2
    <2>4. g[m - 1] \in [DOMAIN dir -> Seq(Entries(dir))]
        BY <1>2, <2>1
    <2>5. FolderRight(LoadFolder(dir, y, filter, flags, m, g[m - 1]), dir, y, filter, flags, m)
        BY <2>1, <2>2, <2>4, FolderStep
    <2> QED
        BY <2>1, <2>3, <2>5
<1>5. n \in P
    <2> HIDE DEF P
    <2> QED
        BY <1>3, <1>4, AllNumbers
<1>6. n \in 0..n
    OBVIOUS
<1> QED
    BY <1>1, <1>2, <1>5, <1>6

-----------------------------------------------------------------------------
(* Sorting *)

(* a has to be in front of b. *)
Precedes(a, b) == (isDir(b) => isDir(a)) /\ (isDir(a) = isDir(b) => a.path < b.path)

LEMMA CallbackIs ==
    ASSUME NEW a, NEW b, a.path \in Nat, b.path \in Nat, a.path # b.path
    PROVE  /\ SortCallback(a, b) <=> Precedes(a, b)
           /\ SortCallback(b, a) <=> ~SortCallback(a, b)
<1> isDir(a) \in BOOLEAN /\ isDir(b) \in BOOLEAN
    BY DEF isDir
<1> QED
    BY DEF SortCallback, Precedes

LEMMA PrecedesTransitive ==
    ASSUME NEW a, NEW b, NEW c, a.path \in Nat, b.path \in Nat, c.path \in Nat,
           Precedes(a, b), Precedes(b, c)
    PROVE  Precedes(a, c)
<1> isDir(a) \in BOOLEAN /\ isDir(b) \in BOOLEAN /\ isDir(c) \in BOOLEAN
    BY DEF isDir
<1> QED
    BY DEF Precedes

LEMMA SortedIs ==
    ASSUME NEW E, NEW list \in Seq(E), \A e \in E : e.path \in Nat, Distinct(list)
    PROVE  LET sorted == SortList(list)
           IN /\ sorted \in Seq(Range(list))
              /\ Range(sorted) = Range(list)
              /\ \A j, k \in DOMAIN sorted : j < k => Precedes(sorted[j], sorted[k])
<1> DEFINE D == DOMAIN list
           Ahead(k) == {l \in D \ {k} : SortCallback(list[l], list[k])}
           n == Len(list)
           rank == [k \in D |-> Cardinality(Ahead(k))]
<1>1. n \in Nat /\ D = 1..n /\ \A k \in D : list[k].path \in Nat
    OBVIOUS
<1>2. IsFiniteSet(D) /\ Cardinality(D) = n
    <2>1. IsFiniteSet(1..n) /\ Cardinality(1..n) = IF 1 > n THEN 0 ELSE n - 1 + 1
        BY <1>1, FS_Interval
    <2> HIDE DEF D, n
    <2>2. (IF 1 > n THEN 0 ELSE n - 1 + 1) = n
        BY <1>1
    <2> QED
        BY <1>1, <2>1, <2>2
<1>3. \A l, k \in D : l # k =>
          /\ SortCallback(list[l], list[k]) <=> Precedes(list[l], list[k])
          /\ SortCallback(list[k], list[l]) <=> ~SortCallback(list[l], list[k])
    BY <1>1, CallbackIs DEF Distinct
<1>4. ASSUME NEW k \in D
      PROVE  /\ IsFiniteSet(Ahead(k)) /\ rank[k] = Cardinality(Ahead(k))
             /\ rank[k] \in 0..(n - 1)
    <2>1. Ahead(k) \in SUBSET (D \ {k})
        OBVIOUS
    <2>2. IsFiniteSet(D \ {k}) /\ Cardinality(D \ {k}) = n - 1
        BY <1>2, FS_RemoveElement
    <2>3. IsFiniteSet(Ahead(k)) /\ Cardinality(Ahead(k)) <= n - 1
        BY <2>1, <2>2, FS_Subset
    <2>4. Cardinality(Ahead(k)) \in Nat
        BY <2>3, FS_CardinalityType
    <2> QED
        BY <1>1, <2>3, <2>4
<1>5. ASSUME NEW l \in D, NEW k \in D, l # k, SortCallback(list[l], list[k])
      PROVE  rank[l] < rank[k]
    <2>1. l \in Ahead(k) /\ l \notin Ahead(l)
        BY <1>5
    <2>2. ASSUME NEW j \in Ahead(l) PROVE j \in Ahead(k)
        <3>1. j \in D /\ j # l /\ Precedes(list[j], list[l]) /\ Precedes(list[l], list[k])
            BY <1>3, <1>5
        <3>2. Precedes(list[j], list[k])
            BY <1>1, <3>1, PrecedesTransitive
        <3>3. j # k
            BY <1>3, <1>5, <3>1
        <3> QED
            BY <1>3, <3>1, <3>2, <3>3
    <2>3. Ahead(l) \in SUBSET (Ahead(k) \ {l})
        BY <2>1, <2>2
    <2> HIDE DEF Ahead
    <2>4. IsFiniteSet(Ahead(k)) /\ Cardinality(Ahead(k)) \in Nat
        BY <1>4, FS_CardinalityType
    <2>5. IsFiniteSet(Ahead(k) \ {l}) /\ Cardinality(Ahead(k) \ {l}) = Cardinality(Ahead(k)) - 1
        BY <2>1, <2>4, FS_RemoveElement
    <2>6. Cardinality(Ahead(l)) <= Cardinality(Ahead(k)) - 1
        BY <2>3, <2>5, FS_Subset
    <2>7. Cardinality(Ahead(l)) \in Nat
        BY <1>4, FS_CardinalityType
    <2> QED
        BY <1>4, <2>4, <2>6, <2>7
<1> HIDE DEF Ahead
<1>6. /\ \A k \in D : rank[k] \in 0..(n - 1)
      /\ \A l, k \in D : rank[l] = rank[k] => l = k
      /\ \A l, k \in D : rank[l] < rank[k] => l # k /\ SortCallback(list[l], list[k])
    <2>1. \A l, k \in D : l # k => rank[l] < rank[k] \/ rank[k] < rank[l]
        BY <1>3, <1>5
    <2>2. \A k \in D : rank[k] \in Nat
        BY <1>1, <1>4
    <2>3. ASSUME NEW l \in D, NEW k \in D, rank[l] < rank[k]
          PROVE  l # k /\ SortCallback(list[l], list[k])
        <3>1. l # k /\ ~(rank[k] < rank[l])
            BY <2>2, <2>3
        <3> QED
            BY <1>3, <1>5, <3>1
    <2> HIDE DEF rank, D
    <2> QED
        BY <1>4, <2>1, <2>2, <2>3
<1>7. ASSUME NEW j \in D PROVE \E k \in D : rank[k] = j - 1
    <2>1. rank \in Injection(D, 0..(n - 1))
        <3>1. rank \in [D -> 0..(n - 1)]
            BY <1>6
        <3> HIDE DEF rank, D
        <3> QED
            BY <1>6, <3>1 DEF Injection, IsInjective
    <2>2. IsFiniteSet(0..(n - 1)) /\ Cardinality(0..(n - 1)) = n
        <3>1. 0 \in Int /\ n - 1 \in Int
            BY <1>1
        <3>2. /\ IsFiniteSet(0..(n - 1))
              /\ Cardinality(0..(n - 1)) = IF 0 > n - 1 THEN 0 ELSE n - 1 - 0 + 1
            BY <3>1, FS_Interval
        <3> HIDE DEF n
        <3>3. (IF 0 > n - 1 THEN 0 ELSE n - 1 - 0 + 1) = n
            BY <1>1
        <3> QED
            BY <3>2, <3>3
    <2>3. rank \in Surjection(D, 0..(n - 1))
        BY <1>2, <2>1, <2>2, FS_Injection
    <2>4. j - 1 \in 0..(n - 1)
        BY <1>1
    <2> HIDE DEF rank, D
    <2> QED
        BY <2>3, <2>4 DEF Surjection
<1> DEFINE at == [j \in D |-> CHOOSE k \in D : Cardinality(Ahead(k)) = j - 1]
<1>8. \A j \in D : at[j] \in D /\ rank[at[j]] = j - 1
    <2> TAKE j \in D
    <2>1. \E k \in D : Cardinality(Ahead(k)) = j - 1
        BY <1>4, <1>7
    <2>2. at[j] \in D /\ Cardinality(Ahead(at[j])) = j - 1
        BY <2>1
    <2> QED
        BY <1>4, <2>2
<1>9. SortList(list) = [j \in D |-> list[at[j]]]
    BY DEF SortList, Ahead
<1> HIDE DEF at, rank
<1>10. ASSUME NEW k \in D PROVE \E j \in D : at[j] = k
    <2>1. rank[k] \in 0..(n - 1)
        BY <1>6
    <2>2. PICK j \in D : j = rank[k] + 1
        BY <1>1, <2>1
    <2>3. rank[at[j]] = rank[k] /\ at[j] \in D
        <3>1. j - 1 = rank[k]
            BY <1>1, <2>1, <2>2
        <3> QED
            BY <1>8, <3>1
    <2> QED
        BY <1>6, <2>3
<1> DEFINE sorted == [j \in D |-> list[at[j]]]
<1>11. sorted \in Seq(Range(list))
    <2>1. \A j \in D : list[at[j]] \in Range(list)
        BY <1>8 DEF Range
    <2> QED
        BY <1>1, <2>1
<1>12. Range(sorted) = Range(list)
    BY <1>8, <1>10 DEF Range
<1>13. ASSUME NEW j \in D, NEW k \in D, j < k PROVE Precedes(sorted[j], sorted[k])
    <2>1. rank[at[j]] < rank[at[k]] /\ at[j] \in D /\ at[k] \in D
        BY <1>1, <1>8, <1>13
    <2>2. at[j] # at[k] /\ SortCallback(list[at[j]], list[at[k]])
        BY <1>6, <2>1
    <2>3. Precedes(list[at[j]], list[at[k]])
        BY <1>3, <2>1, <2>2
    <2> QED
        BY <2>3
<1> QED
    BY <1>9, <1>11, <1>12, <1>13

(* The listing of any folder of any tree has what is asked for, once and in order. *)
LEMMA LoadPathIs ==
    ASSUME NEW dir, IsTree(dir), NEW filter, NEW flags, NEW depth \in Nat,
           NEW x \in DOMAIN dir
    PROVE  /\ AsAsked(dir, x, filter, flags, depth)
           /\ LoadPath(dir, x, filter, flags, depth) \in
                  Seq({e \in Entries(dir) : Listed(e, filter, flags)})
<1> DEFINE list == InternalLoadPath(dir, filter, flags, depth)[x]
           sorted == SortList(list)
           S == Searches(dir, x, flags, depth)
           asked == {e \in UNION {Range(dir[y]) : y \in S} : Listed(e, filter, flags)}
<1>1. list \in Seq(Entries(dir)) /\ FolderRight(list, dir, x, filter, flags, depth)
    BY ListIsRight
<1>2. \A e \in Entries(dir) : e.path \in Nat
    BY TreeIs DEF Entries
<1> HIDE DEF list
<1>3. /\ sorted \in Seq(Range(list)) /\ Range(sorted) = Range(list)
      /\ \A j, k \in DOMAIN sorted : j < k => Precedes(sorted[j], sorted[k])
    BY <1>1, <1>2, SortedIs DEF FolderRight
<1>4. Range(list) = asked
    <2>1. \A e : e \in Range(list) <=>
              \E y \in S : e \in Range(dir[y]) /\ Listed(e, filter, flags)
        BY <1>1 DEF FolderRight
    <2>2. \A e : e \in asked <=> \E y \in S : e \in Range(dir[y]) /\ Listed(e, filter, flags)
        OBVIOUS
    <2> HIDE DEF asked, S
    <2> QED
        BY <2>1, <2>2
<1>5. LoadPath(dir, x, filter, flags, depth) = sorted
    BY DEF LoadPath, list
<1> HIDE DEF sorted
<1>6. AsAsked(dir, x, filter, flags, depth)
    BY <1>3, <1>4, <1>5 DEF AsAsked, Searches, Precedes
<1>7. Range(list) \subseteq {e \in Entries(dir) : Listed(e, filter, flags)}
    <2>1. Range(list) \subseteq Entries(dir)
        BY <1>1 DEF Range
    <2> QED
        BY <1>4, <2>1
<1> QED
    BY <1>3, <1>5, <1>6, <1>7

(* In each of the folders that the program may find, the listing has entries of the folder
   of the modules, and those that were asked for. *)
LEMMA ListingsHold == ListingsAreRight
<1> SUFFICES ASSUME NEW t \in Directories
             PROVE  /\ Listing(t) \in Seq(Range(t[modules]))
                    /\ AsAsked(t, modules, {".wms"}, {"Files"}, 1)
    BY DEF ListingsAreRight
<1> DEFINE asked == {entry \in UNION {Range(t[x]) : x \in {modules}} :
                         Listed(entry, {".wms"}, {"Files"})}
<1>1. modules \in DOMAIN t /\ IsTree(t)
    BY DirectoriesAssumption
<1>2. /\ AsAsked(t, modules, {".wms"}, {"Files"}, 1)
      /\ Listing(t) \in Seq({e \in Entries(t) : Listed(e, {".wms"}, {"Files"})})
    BY <1>1, LoadPathIs DEF Listing
<1>3. "CheckSubfolders" \notin {"Files"}
    OBVIOUS
<1>4. Range(Listing(t)) = asked
    BY <1>2, <1>3 DEF AsAsked, Listing
<1>5. \A j \in DOMAIN Listing(t) : Listing(t)[j] \in Range(t[modules])
    <2>1. \A e \in asked : e \in Range(t[modules])
        OBVIOUS
    <2>2. \A j \in DOMAIN Listing(t) : Listing(t)[j] \in Range(Listing(t))
        BY DEF Range
    <2> QED
        BY <1>4, <2>1, <2>2
<1>6. Listing(t) \in Seq(Range(t[modules]))
    BY <1>2, <1>5
<1> QED
    BY <1>2, <1>6

-----------------------------------------------------------------------------
(* The listing has files only, and each is what DirectoriesAssumption says. *)
LEMMA ListingIs ==
    ASSUME ListingsAreRight, NEW t \in Directories
    PROVE  /\ Len(Listing(t)) \in Nat
           /\ DOMAIN Listing(t) = 1..Len(Listing(t))
           /\ \A j \in DOMAIN Listing(t) : Listing(t)[j].file \in File
<1> DEFINE list == Listing(t)
           asked == {entry \in UNION {Range(t[x]) : x \in {modules}} :
                         Listed(entry, {".wms"}, {"Files"})}
<1>1. list \in Seq(Range(t[modules])) /\ AsAsked(t, modules, {".wms"}, {"Files"}, 1)
    BY DEF ListingsAreRight
<1>2. "CheckSubfolders" \notin {"Files"} /\ "Dirs" \notin {"Files"}
    OBVIOUS
<1>3. Range(list) = asked
    BY <1>1, <1>2 DEF AsAsked, Listing
<1>4. Len(list) \in Nat /\ DOMAIN list = 1..Len(list)
    BY <1>1
<1>5. ASSUME NEW j \in DOMAIN list PROVE list[j].file \in File
    <2>1. list[j] \in Range(list)
        BY DEF Range
    <2>2. list[j] \in Range(t[modules]) /\ ~isDir(list[j])
        BY <1>2, <1>3, <2>1 DEF Listed
    <2>3. modules \in DOMAIN t
        BY DirectoriesAssumption
    <2> QED
        BY <2>2, <2>3, DirectoriesAssumption
<1> QED
    BY <1>4, <1>5

LEMMA FilesAre ==
    ASSUME ListingsAreRight, Control, pc # "list"
    PROVE  /\ Len(files) \in Nat /\ DOMAIN files = 1..Len(files)
           /\ \A j \in 1..Len(files) : files[j].file \in File
           /\ f \in Nat /\ 1 <= f
BY ListingIs DEF Control

LEMMA CurIs ==
    ASSUME ListingsAreRight, Control, pc \in InFile
    PROVE  /\ f \in 1..Len(files) /\ cur = files[f].file
           /\ cur \in File
           /\ cur.relocs \in Seq(Relocation) /\ cur.meta \in Seq(Line)
           /\ cur.symbols \in Nat /\ cur.names \subseteq Rpls
           /\ Len(cur.relocs) \in Nat /\ DOMAIN cur.relocs = 1..Len(cur.relocs)
           /\ \A j \in DOMAIN cur.relocs :
                 /\ cur.relocs[j].placed \in BOOLEAN
                 /\ cur.relocs[j].symbol \in {"local", "import", "stray", "low", "bad"}
                 /\ cur.relocs[j].rpl \in Rpls
<1>1. f \in 1..Len(files) /\ cur = files[f].file /\ cur \in File
    BY FilesAre DEF InFile, Control, cur
<1>2. /\ cur.relocs \in Seq(Relocation) /\ cur.meta \in Seq(Line)
      /\ cur.symbols \in Nat /\ cur.names \subseteq Rpls
    BY <1>1 DEF File, Line
<1>3. \A j \in DOMAIN cur.relocs : cur.relocs[j] \in Relocation
    BY <1>2
<1> QED
    BY <1>1, <1>2, <1>3 DEF Relocation

(* The steps by where they lead. *)
Inside ==
    \/ NoBuffer \/ ReadShort \/ ReadFile \/ NoElf \/ LoadElf
    \/ ReadMetadata \/ Ignore \/ Misplaced \/ PlaceSections
    \/ LinkLocal \/ LeaveImport \/ LinkFails \/ LinkedAll
    \/ PassOver \/ AddImport \/ SearchFails \/ SearchedAll
    \/ ReadLists \/ ReadSymbol \/ Loaded

LEMMA InsideStays ==
    ASSUME Inside
    PROVE  /\ UNCHANGED <<tree, files, f, gLoadedModules>>
           /\ pc \in InFile /\ pc' \in InFile /\ cur' = cur
           /\ pc' \in {"imports", "lists", "symbols", "loaded"} =>
                 pc \in {"link", "imports", "lists", "symbols"}
           /\ pc' = "link" => (pc = "meta" /\ cur.content = "module") \/ pc = "link"
<1>1. CASE NoBuffer \/ ReadShort \/ ReadFile
    BY <1>1 DEF NoBuffer, ReadShort, ReadFile, Stay, InFile, cur
<1>2. CASE NoElf \/ Ignore \/ Misplaced \/ LinkFails \/ Loaded
    BY <1>2 DEF NoElf, Ignore, Misplaced, LinkFails, Loaded, GiveUp, InFile, cur
<1>3. CASE LoadElf \/ ReadMetadata \/ PlaceSections
    BY <1>3 DEF LoadElf, ReadMetadata, PlaceSections, Stay, InFile, cur
<1>4. CASE LinkLocal \/ LeaveImport \/ LinkedAll
    BY <1>4 DEF LinkLocal, LeaveImport, LinkedAll, Linking, Stay, InFile, cur
<1>5. CASE PassOver \/ AddImport \/ SearchFails \/ SearchedAll
    BY <1>5 DEF PassOver, AddImport, SearchFails, SearchedAll, Searching, Stay, InFile, cur
<1>6. CASE ReadLists \/ ReadSymbol
    BY <1>6 DEF ReadLists, ReadSymbol, Stay, InFile, cur
<1> QED
    BY <1>1, <1>2, <1>3, <1>4, <1>5, <1>6 DEF Inside

LEMMA StepsAre ==
    Next <=> \/ Inside \/ ListFiles \/ SkipFile \/ OpenFile \/ EndOfDirectory
             \/ Overflow \/ UnknownSection \/ KeepModule \/ FailToLoad
BY DEF Next, Inside

LEMMA ControlStep ==
    ASSUME ListingsAreRight, Control, [Next]_vars
    PROVE  Control'
<1>1. CASE Inside
    <2>1. pc \in InFile /\ pc # "list" /\ pc' \in InFile /\ pc' \notin {"list", "file", "done"}
        BY <1>1, InsideStays DEF InFile
    <2>2. pc' \in Phases
        BY <2>1 DEF Phases, InFile
    <2>3. pc' \in {"link", "imports", "lists", "symbols", "loaded"} => cur'.content = "module"
        BY <1>1, InsideStays DEF Control
    <2> QED
        BY <1>1, <2>1, <2>2, <2>3, InsideStays DEF Control
<1>2. CASE ListFiles
    <2>1. /\ files' = Listing(tree) /\ tree' = tree /\ f' = f /\ f = 1 /\ pc' = "file"
          /\ tree \in Directories
        BY <1>2 DEF ListFiles, Listing, Control
    <2>2. 1 <= Len(Listing(tree)) + 1
        BY <2>1, ListingIs
    <2> QED
        BY <2>1, <2>2 DEF Control, Phases, InFile
<1>3. CASE SkipFile \/ KeepModule \/ FailToLoad
    <2>1. /\ pc # "list" /\ f \in Nat /\ f <= Len(files) /\ f' = f + 1 /\ pc' = "file"
          /\ tree' = tree /\ files' = files /\ Len(files) \in Nat
        BY <1>3, FilesAre DEF SkipFile, KeepModule, FailToLoad, NextFile, Control, InFile
    <2>2. f + 1 <= Len(files) + 1
        BY <2>1
    <2> QED
        BY <2>1, <2>2 DEF Control, Phases, InFile
<1>4. CASE OpenFile
    BY <1>4 DEF OpenFile, Stay, Control, Phases, InFile, cur
<1>5. CASE EndOfDirectory
    <2>1. /\ pc = "file" /\ f \in Nat /\ f > Len(files) /\ f <= Len(files) + 1
          /\ Len(files) \in Nat /\ f' = f /\ files' = files /\ tree' = tree /\ pc' = "done"
        BY <1>5, FilesAre DEF EndOfDirectory, Stay, Control
    <2>2. f = Len(files) + 1
        BY <2>1
    <2> QED
        BY <2>1, <2>2 DEF Control, Phases, InFile
<1>6. CASE Overflow \/ UnknownSection
    BY <1>6 DEF Overflow, UnknownSection, Searching, Stay, Control, Phases, InFile
<1>7. CASE UNCHANGED vars
    BY <1>7 DEF vars, Control, cur
<1> QED
    BY <1>1, <1>2, <1>3, <1>4, <1>5, <1>6, <1>7, StepsAre

-----------------------------------------------------------------------------
(* The buffers of the files before the next are those before this one, and this one's
   if it is not read to its end. *)
LEMMA ShortsAfter ==
    ASSUME ListingsAreRight, Control, pc # "list", f <= Len(files)
    PROVE  /\ f \notin Shorts(f)
           /\ cur.hidden \/ cur.content # "short" => Shorts(f + 1) = Shorts(f)
           /\ ~cur.hidden /\ cur.content = "short" => Shorts(f + 1) = Shorts(f) \cup {f}
<1>1. f \in Nat /\ 1 <= f /\ cur = files[f].file
    BY FilesAre DEF cur
<1>2. f \in 1..((f + 1) - 1) /\ \A j \in 1..((f + 1) - 1) : j = f \/ j \in 1..(f - 1)
    BY <1>1
<1>3. \A j \in 1..(f - 1) : j \in 1..((f + 1) - 1) /\ j # f
    BY <1>1
<1> QED
    BY <1>1, <1>2, <1>3 DEF Shorts

LEMMA HeapStep ==
    ASSUME ListingsAreRight, Control, Heap, [Next]_vars
    PROVE  Heap'
<1>1. CASE Inside
    <2>1. /\ pc \in InFile /\ pc # "list" /\ ~cur.hidden /\ f <= Len(files)
          /\ cur' = cur /\ f' = f /\ files' = files
        BY <1>1, InsideStays DEF Control, InFile
    <2>2. /\ \A n \in {f, f + 1} : Shorts(n)' = Shorts(n)
          /\ f \notin Shorts(f)
          /\ cur.content # "short" => Shorts(f + 1) = Shorts(f)
          /\ cur.content = "short" => Shorts(f + 1) = Shorts(f) \cup {f}
        <3>1. \A n \in {f, f + 1} : Shorts(n)' = Shorts(n)
            BY <2>1 DEF Shorts
        <3> QED
            BY <2>1, <3>1, ShortsAfter
    <2>3. Shorts(f)' = Shorts(f) /\ Shorts(f + 1)' = Shorts(f + 1)
        BY <2>1 DEF Shorts
    <2>4. CASE NoBuffer
        BY <2>1, <2>2, <2>3, <2>4 DEF NoBuffer, Stay, Heap, InFile
    <2>5. CASE ReadShort
        BY <2>1, <2>2, <2>3, <2>5 DEF ReadShort, Heap, InFile
    <2>6. CASE ReadFile
        BY <2>1, <2>2, <2>3, <2>6 DEF ReadFile, Heap, InFile
    <2>7. CASE NoElf \/ Ignore \/ Misplaced \/ LinkFails
        <3>1. /\ pc \in {"elf", "meta", "link"} /\ pc' = "failed"
              /\ buffers' = buffers \ {f}
            BY <2>7 DEF NoElf, Ignore, Misplaced, LinkFails, GiveUp
        <3>2. buffers' = Shorts(f) /\ cur.content # "short"
            BY <2>2, <3>1 DEF Heap, InFile
        <3> QED
            BY <2>1, <2>2, <2>3, <3>1, <3>2 DEF Heap, InFile
    <2>8. CASE Loaded
        BY <2>1, <2>2, <2>3, <2>8 DEF Loaded, Heap, InFile
    <2>9. CASE LoadElf \/ ReadMetadata \/ PlaceSections \/ LinkLocal \/ LeaveImport \/ LinkedAll
        BY <2>1, <2>3, <2>9 DEF LoadElf, ReadMetadata, PlaceSections, LinkLocal, LeaveImport,
                              LinkedAll, Linking, Stay, Heap, InFile
    <2>10. CASE PassOver \/ AddImport \/ SearchFails \/ SearchedAll \/ ReadLists \/ ReadSymbol
        BY <2>1, <2>3, <2>10 DEF PassOver, AddImport, SearchFails, SearchedAll, ReadLists,
                               ReadSymbol, Searching, Stay, Heap, InFile
    <2> QED
        BY <1>1, <2>4, <2>5, <2>6, <2>7, <2>8, <2>9, <2>10 DEF Inside
<1>2. CASE ListFiles
    <2>1. f = 1 /\ f' = 1 /\ buffers' = buffers /\ pc = "list" /\ pc' = "file"
        BY <1>2 DEF ListFiles, Control
    <2>2. Shorts(f) = {} /\ Shorts(f)' = {}
        BY <2>1 DEF Shorts
    <2> QED
        BY <2>1, <2>2 DEF Heap, InFile
<1>3. CASE SkipFile \/ KeepModule \/ FailToLoad
    <2>1. /\ pc \in {"file", "loaded", "failed"} /\ f <= Len(files)
          /\ pc = "file" => cur.hidden
          /\ pc' = "file" /\ f' = f + 1 /\ files' = files /\ buffers' = buffers
        BY <1>3 DEF SkipFile, KeepModule, FailToLoad, NextFile, Control, InFile
    <2>2. buffers = Shorts(f + 1)
        BY <2>1, ShortsAfter DEF Heap, InFile
    <2>3. Shorts(f)' = Shorts(f + 1)
        BY <2>1 DEF Shorts
    <2> QED
        BY <2>1, <2>2, <2>3 DEF Heap, InFile
<1>4. CASE OpenFile \/ EndOfDirectory
    <2>1. /\ pc = "file" /\ pc' \in {"read", "done"}
          /\ f' = f /\ files' = files /\ buffers' = buffers
        BY <1>4 DEF OpenFile, EndOfDirectory, Stay
    <2>2. Shorts(f)' = Shorts(f)
        BY <2>1 DEF Shorts
    <2> QED
        BY <2>1, <2>2 DEF Heap, InFile
<1>5. CASE Overflow \/ UnknownSection
    BY <1>5 DEF Overflow, UnknownSection, Heap, InFile
<1>6. CASE UNCHANGED vars
    BY <1>6 DEF vars, Heap, Shorts, cur
<1> QED
    BY <1>1, <1>2, <1>3, <1>4, <1>5, <1>6, StepsAre

-----------------------------------------------------------------------------
(* The relocations before the next are those before this one and this one; and those
   before the first and those before the last's successor. *)
LEMMA BeforeNext ==
    ASSUME NEW rs, Len(rs) \in Nat, DOMAIN rs = 1..Len(rs), NEW symbol, NEW p \in 1..Len(rs)
    PROVE  /\ rs[p].symbol = symbol => Before(rs, p + 1, symbol) = Before(rs, p, symbol) \cup {p}
           /\ rs[p].symbol # symbol => Before(rs, p + 1, symbol) = Before(rs, p, symbol)
<1>1. \A j \in DOMAIN rs : j < p + 1 <=> j < p \/ j = p
    OBVIOUS
<1>2. p \in DOMAIN rs /\ ~(p < p)
    OBVIOUS
<1> QED
    BY <1>1, <1>2 DEF Before

LEMMA BeforeEnds ==
    ASSUME NEW rs, Len(rs) \in Nat, DOMAIN rs = 1..Len(rs), NEW symbol
    PROVE  /\ Before(rs, 1, symbol) = {}
           /\ Before(rs, Len(rs) + 1, symbol) = {j \in DOMAIN rs : rs[j].symbol = symbol}
<1>1. \A j \in DOMAIN rs : ~(j < 1) /\ j < Len(rs) + 1
    OBVIOUS
<1> QED
    BY <1>1 DEF Before

(* Both passes by one relocation. *)
LEMMA LinkStep ==
    ASSUME ListingsAreRight, Control, Relocs, Inside, LinkLocal \/ LeaveImport
    PROVE  Relocs'
<1>1. /\ pc = "link" /\ pc' = "link" /\ cur' = cur
      /\ position' = position + 1 /\ position <= Len(cur.relocs) /\ position \in Nat
      /\ position \in 1..(Len(cur.relocs) + 1)
      /\ imports' = imports /\ dependencies' = dependencies
      /\ LinkedUpTo(cur.relocs, position)
      /\ linked \subseteq PlacedOnes(cur.relocs) /\ imports = << >>
      /\ dependencies \subseteq Rpls
    <2>1. /\ pc = "link" /\ pc' = "link" /\ cur' = cur
          /\ position' = position + 1 /\ position <= Len(cur.relocs)
          /\ imports' = imports /\ dependencies' = dependencies
        BY InsideStays DEF LinkLocal, LeaveImport, Linking, sections
    <2> QED
        BY <2>1 DEF Relocs
<1>2. PICK rs : rs = cur.relocs
    OBVIOUS
<1>3. PICK p : p = position
    OBVIOUS
<1>4. Len(rs) \in Nat /\ DOMAIN rs = 1..Len(rs) /\ p \in 1..Len(rs)
    BY <1>1, <1>2, <1>3, CurIs DEF InFile
<1>5. PICK before : before = Before(rs, p, "local")
    OBVIOUS
<1>6. PICK after : after = Before(rs, p + 1, "local")
    OBVIOUS
<1>7. /\ rs[p].symbol = "local" => after = before \cup {p}
      /\ rs[p].symbol # "local" => after = before
    BY <1>4, <1>5, <1>6, BeforeNext
<1>8. PICK done : done = linked
    OBVIOUS
<1>9. PICK placed : placed = PlacedOnes(rs)
    OBVIOUS
<1>10. done = placed \cap before
    BY <1>1, <1>2, <1>3, <1>5, <1>8, <1>9 DEF LinkedUpTo
<1>11. linked' = placed \cap after
    <2>1. p \in placed <=> rs[p].placed
        BY <1>4, <1>9 DEF PlacedOnes
    <2>2. CASE LinkLocal
        <3>1. linked' = done \cup {p} /\ p \in placed /\ rs[p].symbol = "local"
            BY <2>1, <2>2, <1>2, <1>3, <1>8 DEF LinkLocal, reloc
        <3> QED
            BY <3>1, <1>7, <1>10
    <2>3. CASE LeaveImport
        <3>1. linked' = done /\ (p \in placed => rs[p].symbol # "local")
            BY <2>1, <2>3, <1>2, <1>3, <1>8 DEF LeaveImport, reloc, sections
        <3> QED
            BY <3>1, <1>7, <1>10
    <2> QED
        BY <2>2, <2>3
<1>12. \A j \in placed : j < p + 1 => rs[j].symbol \in {"local", "import", "stray"}
    <2>1. p \in placed => rs[p].symbol \in {"local", "import", "stray"}
        BY <1>2, <1>3, <1>9, CurIs DEF LinkLocal, LeaveImport, reloc, PlacedOnes
    <2>2. \A j \in placed : j < p + 1 => j < p \/ j = p
        BY <1>4, <1>9 DEF PlacedOnes
    <2> QED
        BY <2>1, <2>2, <1>1, <1>2, <1>3, <1>9 DEF LinkedUpTo
<1>13. cur'.relocs = rs /\ position' = p + 1
    BY <1>1, <1>2, <1>3
<1>14. LinkedUpTo(cur.relocs, position)'
    BY <1>6, <1>9, <1>11, <1>12, <1>13 DEF LinkedUpTo
<1>15. linked' \subseteq PlacedOnes(rs) /\ PlacedOnes(rs) \subseteq Nat
    BY <1>4, <1>9, <1>11 DEF PlacedOnes
<1>16. (linked \subseteq PlacedOnes(cur.relocs))'
    BY <1>13, <1>15
<1>17. position' \in 1..(Len(cur'.relocs) + 1) /\ position' \in Nat
    BY <1>4, <1>13
<1> QED
    BY <1>1, <1>14, <1>15, <1>16, <1>17 DEF Relocs

LEMMA SearchStep ==
    ASSUME ListingsAreRight, Control, Relocs, Inside, PassOver \/ AddImport
    PROVE  Relocs'
<1>1. /\ pc = "imports" /\ pc' = "imports" /\ cur' = cur
      /\ position' = position + 1 /\ position <= Len(cur.relocs)
      /\ position \in 1..(Len(cur.relocs) + 1)
      /\ linked' = linked /\ linked \subseteq Nat /\ imports \in Seq(Nat)
      /\ dependencies \subseteq Rpls
      /\ KeptUpTo(cur.relocs, position)
      /\ LinkedUpTo(cur.relocs, Len(cur.relocs) + 1) /\ Linkable(cur)
    <2>1. /\ pc = "imports" /\ pc' = "imports" /\ cur' = cur
          /\ position' = position + 1 /\ position <= Len(cur.relocs)
          /\ linked' = linked
        BY InsideStays DEF PassOver, AddImport, Searching, sections
    <2> QED
        BY <2>1 DEF Relocs
<1>2. PICK rs : rs = cur.relocs
    OBVIOUS
<1>3. PICK p : p = position
    OBVIOUS
<1>4. Len(rs) \in Nat /\ DOMAIN rs = 1..Len(rs) /\ p \in 1..Len(rs) /\ rs[p].rpl \in Rpls
    BY <1>1, <1>2, <1>3, CurIs DEF InFile
<1>5. PICK now : now = imports
    OBVIOUS
<1>6. PICK rpls : rpls = dependencies
    OBVIOUS
<1>7. /\ {now[j] : j \in DOMAIN now} = Before(rs, p, "import")
      /\ \A j, l \in DOMAIN now : j < l => now[j] < now[l]
      /\ \A j \in Before(rs, p, "import") : rs[j].rpl \in rpls
      /\ now \in Seq(Nat) /\ rpls \subseteq Rpls
    BY <1>1, <1>2, <1>3, <1>5, <1>6 DEF KeptUpTo
<1>8. /\ rs[p].symbol \notin {"stray", "bad"}
      /\ \/ rs[p].symbol = "import" /\ imports' = Append(now, p)
            /\ dependencies' = rpls \cup {rs[p].rpl}
         \/ rs[p].symbol # "import" /\ imports' = now /\ dependencies' = rpls
    BY <1>2, <1>3, <1>5, <1>6 DEF PassOver, AddImport, reloc, sections
<1>9. Before(rs, p + 1, "stray") = {} /\ Before(rs, p + 1, "bad") = {}
    <2>1. Before(rs, p, "stray") = {} /\ Before(rs, p, "bad") = {}
        BY <1>1, <1>2, <1>3 DEF KeptUpTo
    <2> QED
        BY <2>1, <1>4, <1>8, BeforeNext
<1>10. PICK new : new = imports'
    OBVIOUS
<1>11. PICK newRpls : newRpls = dependencies'
    OBVIOUS
<1>12. /\ {new[j] : j \in DOMAIN new} = Before(rs, p + 1, "import")
       /\ \A j, l \in DOMAIN new : j < l => new[j] < new[l]
       /\ \A j \in Before(rs, p + 1, "import") : rs[j].rpl \in newRpls
       /\ new \in Seq(Nat) /\ newRpls \subseteq Rpls
    <2>1. CASE rs[p].symbol # "import"
        <3>1. Before(rs, p + 1, "import") = Before(rs, p, "import")
            BY <2>1, <1>4, BeforeNext
        <3> QED
            BY <2>1, <3>1, <1>7, <1>8, <1>10, <1>11
    <2>2. CASE rs[p].symbol = "import"
        <3>1. new = Append(now, p) /\ newRpls = rpls \cup {rs[p].rpl}
            BY <2>2, <1>8, <1>10, <1>11
        <3>2. Before(rs, p + 1, "import") = Before(rs, p, "import") \cup {p}
            <4>1. PICK before : before = Before(rs, p, "import")
                OBVIOUS
            <4>2. PICK after : after = Before(rs, p + 1, "import")
                OBVIOUS
            <4>3. after = before \cup {p}
                BY <2>2, <4>1, <4>2, <1>4, BeforeNext
            <4> QED
                BY <4>1, <4>2, <4>3
        <3>3. PICK n : n = Len(now)
            OBVIOUS
        <3>4. /\ n \in Nat /\ DOMAIN now = 1..n /\ DOMAIN new = 1..(n + 1)
              /\ new \in Seq(Nat) /\ new[n + 1] = p
              /\ \A j \in 1..n : new[j] = now[j]
            BY <3>1, <3>3, <1>4, <1>7
        <3>5. \A j \in DOMAIN now : now[j] < p /\ now[j] \in Nat
            <4>1. \A j \in DOMAIN now : now[j] \in Before(rs, p, "import")
                BY <1>7
            <4> QED
                BY <4>1, <1>4 DEF Before
        <3>6. \A j, l \in DOMAIN new : j < l => new[j] < new[l]
            BY <3>4, <3>5, <1>7, SMTT(60)
        <3>7. {new[j] : j \in DOMAIN new} = Before(rs, p + 1, "import")
            <4>1. \A j \in DOMAIN new : j \in DOMAIN now \/ j = n + 1
                BY <3>4
            <4>2. \A j \in DOMAIN now : j \in DOMAIN new /\ new[j] = now[j]
                BY <3>4
            <4>3. n + 1 \in DOMAIN new /\ new[n + 1] = p
                BY <3>4
            <4> QED
                BY <4>1, <4>2, <4>3, <3>2, <1>7
        <3> QED
            BY <3>1, <3>2, <3>4, <3>6, <3>7, <1>4, <1>7
    <2> QED
        BY <2>1, <2>2
<1>13. cur'.relocs = rs /\ position' = p + 1
    BY <1>1, <1>2, <1>3
<1>14. KeptUpTo(cur.relocs, position)'
    BY <1>9, <1>10, <1>11, <1>12, <1>13 DEF KeptUpTo
<1>15. (LinkedUpTo(cur.relocs, Len(cur.relocs) + 1))' /\ Linkable(cur)'
    BY <1>1 DEF LinkedUpTo
<1>16. position' \in 1..(Len(cur'.relocs) + 1) /\ position' \in Nat
    BY <1>4, <1>13
<1> QED
    BY <1>1, <1>10, <1>11, <1>12, <1>14, <1>15, <1>16 DEF Relocs

LEMMA RelocsInside ==
    ASSUME ListingsAreRight, Control, Relocs, Inside
    PROVE  Relocs'
<1>1. /\ pc \in InFile /\ cur' = cur
      /\ linked \subseteq Nat /\ imports \in Seq(Nat) /\ dependencies \subseteq Rpls
      /\ position \in Nat
    BY InsideStays DEF Relocs
<1>2. PICK rs : rs = cur.relocs
    OBVIOUS
<1>3. Len(rs) \in Nat /\ DOMAIN rs = 1..Len(rs) /\ cur'.relocs = rs
    BY <1>1, <1>2, CurIs
<1>4. CASE LinkLocal \/ LeaveImport
    BY <1>4, LinkStep
<1>5. CASE PassOver \/ AddImport
    BY <1>5, SearchStep
<1>6. CASE NoBuffer \/ ReadShort \/ ReadFile \/ NoElf \/ LoadElf \/ ReadMetadata \/ Ignore
           \/ Misplaced \/ LinkFails
    <2>1. /\ pc \in {"read", "elf", "meta", "link"}
          /\ pc' \in {"elf", "meta", "failed"} /\ (pc' # "failed" => pc \in {"read", "elf", "meta"})
          /\ UNCHANGED <<position, linked, imports, dependencies>>
        <3>1. CASE NoBuffer \/ ReadShort \/ ReadFile
            BY <3>1 DEF NoBuffer, ReadShort, ReadFile, sections
        <3>2. CASE NoElf \/ Ignore \/ Misplaced \/ LinkFails
            BY <3>2 DEF NoElf, Ignore, Misplaced, LinkFails, GiveUp, sections
        <3>3. CASE LoadElf \/ ReadMetadata
            BY <3>3 DEF LoadElf, ReadMetadata, sections
        <3> QED
            BY <1>6, <3>1, <3>2, <3>3
    <2> QED
        BY <1>1, <2>1 DEF Relocs
<1>7. CASE PlaceSections
    <2>1. /\ pc = "meta" /\ pc' = "link" /\ position' = 1
          /\ linked' = linked /\ imports' = imports /\ dependencies' = dependencies
        BY <1>7 DEF PlaceSections, sections
    <2>2. linked = {} /\ imports = << >>
        BY <2>1 DEF Relocs
    <2>3. \A j \in PlacedOnes(rs) : ~(j < 1)
        BY <1>3 DEF PlacedOnes
    <2>4. LinkedUpTo(cur.relocs, position)'
        BY <1>3, <2>1, <2>2, <2>3, BeforeEnds DEF LinkedUpTo
    <2>5. position' \in 1..(Len(cur'.relocs) + 1) /\ position' \in Nat
        BY <1>3, <2>1
    <2> QED
        BY <1>1, <1>3, <2>1, <2>2, <2>4, <2>5 DEF Relocs
<1>8. CASE LinkedAll
    <2>1. /\ pc = "link" /\ pc' = "imports" /\ position' = 1 /\ position > Len(rs)
          /\ ~Clashes(cur)
          /\ linked' = linked /\ imports' = imports /\ dependencies' = dependencies
        BY <1>1, <1>2, <1>3, <1>8 DEF LinkedAll, Linking, sections
    <2>2. imports = << >> /\ position \in 1..(Len(rs) + 1) /\ LinkedUpTo(rs, position)
        BY <1>2, <2>1 DEF Relocs
    <2>3. position = Len(rs) + 1
        BY <1>3, <2>1, <2>2
    <2>4. LinkedUpTo(rs, Len(rs) + 1)
        BY <2>2, <2>3
    <2>5. Linkable(cur)
        <3>1. \A j \in DOMAIN rs : rs[j].placed => j \in PlacedOnes(rs) /\ j < Len(rs) + 1
            BY <1>3 DEF PlacedOnes
        <3> QED
            BY <1>2, <2>1, <2>4, <3>1 DEF LinkedUpTo, Linkable
    <2>6. (LinkedUpTo(cur.relocs, Len(cur.relocs) + 1))' /\ Linkable(cur)'
        BY <1>1, <1>3, <2>1, <2>4, <2>5 DEF LinkedUpTo
    <2>7. KeptUpTo(cur.relocs, position)'
        <3>1. \A symbol \in {"import", "stray", "bad"} : Before(rs, 1, symbol) = {}
            BY <1>3, BeforeEnds
        <3> QED
            BY <1>3, <2>1, <2>2, <3>1 DEF KeptUpTo
    <2>8. position' \in 1..(Len(cur'.relocs) + 1) /\ position' \in Nat
        BY <1>3, <2>1
    <2> QED
        BY <1>1, <2>1, <2>6, <2>7, <2>8 DEF Relocs
<1>9. CASE SearchFails \/ SearchedAll
    <2>1. /\ pc = "imports" /\ pc' = "lists"
          /\ UNCHANGED <<position, linked, imports, dependencies>>
          /\ position <= Len(rs) => rs[position].symbol = "bad"
        BY <1>1, <1>2, <1>3, <1>9 DEF SearchFails, SearchedAll, Searching, reloc, sections
    <2>2. /\ position \in 1..(Len(rs) + 1) /\ KeptUpTo(rs, position)
          /\ LinkedUpTo(rs, Len(rs) + 1) /\ Linkable(cur)
        BY <1>2, <2>1 DEF Relocs
    <2>3. PICK p : p = position
        OBVIOUS
    <2>4. (\E q \in 1..(Len(cur.relocs) + 1) :
              /\ KeptUpTo(cur.relocs, q)
              /\ q <= Len(cur.relocs) => cur.relocs[q].symbol = "bad")'
        <3>1. p \in 1..(Len(rs) + 1) /\ (p <= Len(rs) => rs[p].symbol = "bad")
            BY <2>1, <2>2, <2>3
        <3>2. KeptUpTo(rs, p)'
            BY <2>1, <2>2, <2>3 DEF KeptUpTo
        <3> QED
            BY <1>3, <3>1, <3>2 DEF KeptUpTo
    <2>5. (LinkedUpTo(cur.relocs, Len(cur.relocs) + 1))' /\ Linkable(cur)'
        BY <1>1, <1>3, <2>1, <2>2 DEF LinkedUpTo
    <2> QED
        BY <1>1, <2>1, <2>4, <2>5 DEF Relocs
<1>10. CASE ReadLists \/ ReadSymbol \/ Loaded
    <2>1. /\ pc \in {"lists", "symbols"} /\ pc' \in {"symbols", "loaded"}
          /\ linked' = linked /\ imports' = imports
          /\ dependencies \subseteq dependencies' /\ dependencies' \subseteq Rpls
          /\ position' \in Nat
        <3>1. CASE ReadLists
            BY <1>1, <3>1, CurIs DEF ReadLists
        <3>2. CASE ReadSymbol
            <4>1. position' \in Nat
                BY <1>1, <3>2, HalfAssumption DEF ReadSymbol
            <4> QED
                BY <1>1, <3>2, <4>1 DEF ReadSymbol, sections
        <3>3. CASE Loaded
            BY <1>1, <3>3 DEF Loaded, sections
        <3> QED
            BY <1>10, <3>1, <3>2, <3>3
    <2>2. LinkedUpTo(rs, Len(rs) + 1) /\ Linkable(cur)
        BY <1>2, <2>1 DEF Relocs
    <2>3. PICK p \in 1..(Len(rs) + 1) :
              KeptUpTo(rs, p) /\ (p <= Len(rs) => rs[p].symbol = "bad")
        BY <1>2, <2>1 DEF Relocs
    <2>4. KeptUpTo(rs, p)'
        BY <2>1, <2>3 DEF KeptUpTo
    <2>5. (\E q \in 1..(Len(cur.relocs) + 1) :
              /\ KeptUpTo(cur.relocs, q)
              /\ q <= Len(cur.relocs) => cur.relocs[q].symbol = "bad")'
        BY <1>3, <2>3, <2>4 DEF KeptUpTo
    <2>6. (LinkedUpTo(cur.relocs, Len(cur.relocs) + 1))' /\ Linkable(cur)'
        BY <1>1, <1>3, <2>1, <2>2 DEF LinkedUpTo
    <2> QED
        BY <1>1, <2>1, <2>5, <2>6 DEF Relocs
<1> QED
    BY <1>4, <1>5, <1>6, <1>7, <1>8, <1>9, <1>10 DEF Inside

LEMMA RelocsStep ==
    ASSUME ListingsAreRight, Control, Relocs, [Next]_vars
    PROVE  Relocs'
<1>1. CASE Inside
    BY <1>1, RelocsInside
<1>2. CASE ListFiles \/ SkipFile \/ EndOfDirectory \/ Overflow \/ UnknownSection \/ KeepModule
           \/ FailToLoad
    <2>1. /\ pc' \in {"file", "done", "fatal"}
          /\ UNCHANGED <<position, linked, imports, dependencies>>
        BY <1>2 DEF ListFiles, SkipFile, EndOfDirectory, Overflow, UnknownSection, KeepModule,
                    FailToLoad, NextFile, sections
    <2> QED
        BY <2>1 DEF Relocs
<1>3. CASE OpenFile
    <2>1. /\ pc' = "read" /\ position' = position
          /\ linked' = {} /\ imports' = << >> /\ dependencies' = {}
        BY <1>3 DEF OpenFile
    <2> QED
        BY <2>1 DEF Relocs
<1>4. CASE UNCHANGED vars
    BY <1>4, SMTT(60) DEF vars, sections, Relocs, LinkedUpTo, KeptUpTo, cur
<1> QED
    BY <1>1, <1>2, <1>3, <1>4, StepsAre

(* What is kept of a module whose relocations have been gone over. *)
LEMMA OnceLoaded ==
    ASSUME ListingsAreRight, Control, Relocs, pc = "loaded",
           NEW module, module.linked = linked, module.imports = imports,
           module.dependencies = dependencies
    PROVE  Once(module, cur.relocs)
<1>1. PICK rs : rs = cur.relocs
    OBVIOUS
<1>2. /\ Len(rs) \in Nat /\ DOMAIN rs = 1..Len(rs)
      /\ LinkedUpTo(rs, Len(rs) + 1)
    BY <1>1, CurIs DEF InFile, Relocs
<1>3. PICK p \in 1..(Len(rs) + 1) :
          KeptUpTo(rs, p) /\ (p <= Len(rs) => rs[p].symbol = "bad")
    BY <1>1 DEF Relocs
<1> DEFINE Of(symbol) == {j \in DOMAIN rs : rs[j].symbol = symbol}
           reached == {j \in DOMAIN rs : \A l \in Of("bad") : j < l}
           kept == {module.imports[j] : j \in DOMAIN module.imports}
<1>4. \A j \in DOMAIN rs : j < p <=> j \in reached
    <2>1. \A l \in Of("bad") : l \in Nat /\ ~(l < p)
        BY <1>2, <1>3 DEF KeptUpTo, Before
    <2>2. p \in DOMAIN rs => p \in Of("bad")
        BY <1>2, <1>3
    <2>3. \A j \in DOMAIN rs : j < p => j \in reached
        BY <1>2, <1>3, <2>1
    <2>4. \A j \in DOMAIN rs : j \in reached => j < p
        BY <1>2, <1>3, <2>2
    <2> QED
        BY <2>3, <2>4
<1>5. module.linked = PlacedOnes(rs) \cap Of("local")
    BY <1>2, BeforeEnds DEF LinkedUpTo
<1>6. kept = Before(rs, p, "import")
    BY <1>3 DEF KeptUpTo
<1>7. kept = Of("import") \cap reached
    BY <1>4, <1>6 DEF Before
<1>8. PlacedOnes(rs) \cap reached \subseteq module.linked \cup kept
    <2> SUFFICES ASSUME NEW j \in PlacedOnes(rs), j \in reached
                 PROVE  j \in module.linked \/ j \in kept
        OBVIOUS
    <2>1. j \in DOMAIN rs /\ j < p /\ j < Len(rs) + 1
        BY <1>2, <1>4 DEF PlacedOnes
    <2>2. rs[j].symbol \in {"local", "import", "stray"}
        BY <1>2, <2>1 DEF LinkedUpTo
    <2>3. rs[j].symbol # "stray"
        BY <1>3, <2>1 DEF KeptUpTo, Before
    <2> QED
        BY <1>5, <1>7, <2>1, <2>2, <2>3
<1>9. \A j, l \in DOMAIN module.imports : j < l => module.imports[j] < module.imports[l]
    BY <1>3 DEF KeptUpTo
<1>10. {rs[j].rpl : j \in kept} \subseteq module.dependencies
    BY <1>3, <1>6 DEF KeptUpTo
<1> QED
    BY <1>1, <1>5, <1>7, <1>8, <1>9, <1>10 DEF Once

-----------------------------------------------------------------------------
(* What is still to be read, behind a string: the lines behind the first, n places
   before their old ones, and if no value holds an '=', no other line with a key. *)
Follows(m, new, n) ==
    /\ \A j \in DOMAIN m : j > 1 => j - n \in DOMAIN new /\ new[j - n] = m[j]
    /\ Plain(m) => \A i \in DOMAIN new :
           Len(new[i]) > 1 => i + n \in DOMAIN m /\ i + n > 1 /\ new[i] = m[i + n]
    /\ Plain(m) => Plain(new)

LEMMA FirstLine ==
    ASSUME rest \in Seq(Line), rest # << >>
    PROVE  /\ Len(rest) \in Nat /\ Len(rest) >= 1 /\ DOMAIN rest = 1..Len(rest)
           /\ Head(rest) = rest[1] /\ rest[1] \in Line /\ rest[1] \in Seq(STRING)
           /\ Len(rest[1]) \in Nat
           /\ Tail(rest) \in Seq(Line) /\ Len(Tail(rest)) = Len(rest) - 1
           /\ \A j \in 1..(Len(rest) - 1) : Tail(rest)[j] = rest[j + 1]
           /\ IsEntry => /\ value \in Line /\ value \in Seq(STRING)
                         /\ Len(value) = Len(rest[1]) - 1
                         /\ key \in STRING /\ key = rest[1][1] /\ value = Tail(rest[1])
<1>1. /\ Len(rest) \in Nat /\ Len(rest) >= 1 /\ DOMAIN rest = 1..Len(rest)
      /\ Head(rest) = rest[1] /\ rest[1] \in Line
      /\ Tail(rest) \in Seq(Line) /\ Len(Tail(rest)) = Len(rest) - 1
      /\ \A j \in 1..(Len(rest) - 1) : Tail(rest)[j] = rest[j + 1]
    OBVIOUS
<1>2. PICK h : h = rest[1]
    OBVIOUS
<1>3. h \in Seq(STRING) /\ h # << >> /\ Len(h) \in Nat
    BY <1>1, <1>2 DEF Line
<1>4. ASSUME Len(h) > 1
      PROVE  /\ Tail(h) \in Seq(STRING) /\ Len(Tail(h)) = Len(h) - 1 /\ Tail(h) # << >>
             /\ Head(h) = h[1] /\ h[1] \in STRING
    <2>1. Tail(h) \in Seq(STRING) /\ Len(Tail(h)) = Len(h) - 1 /\ Head(h) = h[1]
        BY <1>3
    <2>2. 1 \in DOMAIN h
        BY <1>3, <1>4
    <2>3. h[1] \in STRING
        BY <1>3, <2>2
    <2>4. Tail(h) # << >>
        <3>1. PICK t : t = Tail(h)
            OBVIOUS
        <3>2. Len(t) # 0
            BY <1>3, <1>4, <2>1, <3>1, SMTT(60)
        <3>3. t # << >>
            BY <3>2
        <3> QED
            BY <3>1, <3>3
    <2> QED
        BY <2>1, <2>3, <2>4
<1> QED
    BY <1>1, <1>2, <1>3, <1>4 DEF Line, IsEntry, value, key

LEMMA BehindIs ==
    ASSUME rest \in Seq(Line), rest # << >>
    PROVE  Behind \in Seq(Line) /\ \E n \in {0, 1} : Follows(rest, Behind, n)
<1>1. PICK m : m = rest
    OBVIOUS
<1>2. PICK u : u = Tail(rest)
    OBVIOUS
<1>3. PICK len : len = Len(m)
    OBVIOUS
<1>4. /\ len \in Nat /\ len >= 1 /\ DOMAIN m = 1..len
      /\ u \in Seq(Line) /\ Len(u) = len - 1 /\ DOMAIN u = 1..(len - 1)
      /\ \A j \in 1..(len - 1) : u[j] = m[j + 1]
    BY <1>1, <1>2, <1>3, FirstLine
<1>5. CASE IsEntry
    <2>1. PICK v : v = value
        OBVIOUS
    <2>2. v \in Line /\ Len(v) = Len(m[1]) - 1 /\ Len(m[1]) \in Nat
        BY <1>1, <1>5, <2>1, FirstLine
    <2>3. PICK w : w = <<v>> \o u
        OBVIOUS
    <2>4. w \in Seq(Line) /\ DOMAIN w = 1..len /\ w[1] = v /\ \A j \in 2..len : w[j] = u[j - 1]
        BY <1>4, <2>2, <2>3
    <2>5. \A j \in 2..len : w[j] = m[j]
        <3>1. \A j \in 2..len : j - 1 \in 1..(len - 1) /\ (j - 1) + 1 = j
            BY <1>4
        <3> QED
            BY <1>4, <2>4, <3>1
    <2>6. Plain(m) => Len(v) <= 1
        BY <1>4, <2>2 DEF Plain
    <2>7. \A j \in DOMAIN m : j + 0 = j /\ j - 0 = j /\ (j > 1 => j \in 2..len)
        BY <1>4
    <2>8. \A i \in DOMAIN w : i = 1 \/ i \in 2..len
        BY <1>4, <2>4
    <2>9. Plain(m) => Plain(w)
        BY <1>4, <2>2, <2>4, <2>5, <2>6, <2>8 DEF Plain
    <2>10. \A j \in DOMAIN m : j > 1 => j - 0 \in DOMAIN w /\ w[j - 0] = m[j]
        BY <1>4, <2>4, <2>5, <2>7
    <2>11. Plain(m) => \A i \in DOMAIN w :
               Len(w[i]) > 1 => i + 0 \in DOMAIN m /\ i + 0 > 1 /\ w[i] = m[i + 0]
        <3> SUFFICES ASSUME Plain(m), NEW i \in DOMAIN w, Len(w[i]) > 1
                     PROVE  i + 0 \in DOMAIN m /\ i + 0 > 1 /\ w[i] = m[i + 0]
            OBVIOUS
        <3>1. i # 1
            BY <2>2, <2>4, <2>6
        <3>2. i \in 2..len
            BY <2>8, <3>1
        <3> QED
            BY <1>4, <2>5, <3>2
    <2>12. Follows(m, w, 0)
        BY <2>9, <2>10, <2>11 DEF Follows
    <2>13. Behind = w
        BY <1>2, <1>5, <2>1, <2>3 DEF Behind
    <2> QED
        BY <1>1, <2>4, <2>12, <2>13
<1>6. CASE ~IsEntry
    <2>1. \A j \in DOMAIN m : j > 1 => j - 1 \in 1..(len - 1) /\ (j - 1) + 1 = j
        BY <1>4
    <2>2. \A i \in DOMAIN u : i + 1 \in DOMAIN m /\ i + 1 > 1
        BY <1>4
    <2>3. Plain(m) => Plain(u)
        BY <1>4, <2>2 DEF Plain
    <2>4. \A j \in DOMAIN m : j > 1 => j - 1 \in DOMAIN u /\ u[j - 1] = m[j]
        BY <1>4, <2>1
    <2>5. \A i \in DOMAIN u : i + 1 \in DOMAIN m /\ i + 1 > 1 /\ u[i] = m[i + 1]
        BY <1>4, <2>2
    <2>6. Follows(m, u, 1)
        BY <2>3, <2>4, <2>5 DEF Follows
    <2>7. Behind = u
        BY <1>2, <1>6 DEF Behind
    <2> QED
        BY <1>1, <1>4, <2>6, <2>7
<1> QED
    BY <1>5, <1>6

(* There is a last line for a key, if there is one at all; and it gives the value. *)
LEMMA LastLine ==
    ASSUME NEW meta \in Seq(Line), NEW keys, LinesOf(meta, keys) # {}
    PROVE  \E j \in LinesOf(meta, keys) : \A l \in LinesOf(meta, keys) : l <= j
<1>1. PICK len : len = Len(meta)
    OBVIOUS
<1>2. len \in Nat /\ \A j \in LinesOf(meta, keys) : j \in 1..len
    BY <1>1 DEF LinesOf
<1> DEFINE R == {ss \in Nat \X Nat : ss[1] < ss[2]}
           T == {len - j : j \in LinesOf(meta, keys)}
<1>3. IsWellFoundedOn(R, Nat)
    BY NatLessThanWellFounded DEF OpToRel
<1>4. T \subseteq Nat /\ T # {}
    BY <1>2
<1>5. PICK a \in T : \A b \in T : ~(<<b, a>> \in R)
    <2> HIDE DEF R, T
    <2> QED
        BY <1>3, <1>4, WFMin
<1>6. \A b \in T : ~(b < a)
    BY <1>4, <1>5
<1>7. PICK j \in LinesOf(meta, keys) : a = len - j
    BY <1>5
<1>8. \A l \in LinesOf(meta, keys) : ~(len - l < len - j)
    BY <1>6, <1>7
<1> QED
    BY <1>2, <1>7, <1>8

LEMMA SaysIs ==
    ASSUME NEW meta \in Seq(Line), NEW k, NEW default
    PROVE  /\ LinesOf(meta, {k}) = {} => Says(meta, k, default) = default
           /\ \A j \in LinesOf(meta, {k}) :
                 (\A l \in LinesOf(meta, {k}) : l <= j) => Says(meta, k, default) = Tail(meta[j])
<1>1. LinesOf(meta, {k}) \subseteq Nat
    BY DEF LinesOf
<1>2. ASSUME NEW j \in LinesOf(meta, {k}), \A l \in LinesOf(meta, {k}) : l <= j
      PROVE  Says(meta, k, default) = Tail(meta[j])
    <2>1. PICK at : at = LinesOf(meta, {k})
        OBVIOUS
    <2>2. PICK c : c = CHOOSE i \in at : \A l \in at : l <= i
        OBVIOUS
    <2>3. c \in at /\ \A l \in at : l <= c
        BY <1>2, <2>1, <2>2
    <2>4. c = j
        <3>1. c \in Nat /\ j \in Nat
            BY <1>1, <1>2, <2>1, <2>3
        <3>2. c <= j
            BY <1>2, <2>1, <2>3
        <3>3. j <= c
            BY <1>2, <2>1, <2>3
        <3> QED
            BY <3>1, <3>2, <3>3
    <2>5. at # {}
        BY <1>2, <2>1
    <2> QED
        BY <2>1, <2>2, <2>4, <2>5 DEF Says
<1> QED
    BY <1>2 DEF Says

LEMMA LinesNext ==
    ASSUME NEW m \in Seq(Line), NEW new \in Seq(Line), NEW n \in {0, 1}, Follows(m, new, n), NEW keys
    PROVE  /\ \A j \in LinesOf(m, keys) :
                  j > 1 => j - n \in LinesOf(new, keys) /\ new[j - n] = m[j]
           /\ Plain(m) => \A i \in LinesOf(new, keys) :
                  i + n \in LinesOf(m, keys) /\ i + n > 1 /\ new[i] = m[i + n]
<1>1. ASSUME NEW j \in LinesOf(m, keys), j > 1
      PROVE  j - n \in LinesOf(new, keys) /\ new[j - n] = m[j]
    <2>1. j \in DOMAIN m /\ Len(m[j]) > 1 /\ m[j][1] \in keys
        BY DEF LinesOf
    <2>2. j - n \in DOMAIN new /\ new[j - n] = m[j]
        BY <1>1, <2>1 DEF Follows
    <2> QED
        BY <2>1, <2>2 DEF LinesOf
<1>2. ASSUME Plain(m), NEW i \in LinesOf(new, keys)
      PROVE  i + n \in LinesOf(m, keys) /\ i + n > 1 /\ new[i] = m[i + n]
    <2>1. i \in DOMAIN new /\ Len(new[i]) > 1 /\ new[i][1] \in keys
        BY DEF LinesOf
    <2>2. i + n \in DOMAIN m /\ i + n > 1 /\ new[i] = m[i + n]
        BY <1>2, <2>1 DEF Follows
    <2> QED
        BY <2>1, <2>2 DEF LinesOf
<1> QED
    BY <1>1, <1>2

(* What a section says does not change if its first line is taken off and becomes what
   is said without a line. *)
LEMMA SaysNext ==
    ASSUME NEW m \in Seq(Line), Len(m) >= 1, NEW new \in Seq(Line), NEW n \in {0, 1},
           Follows(m, new, n), Plain(m), NEW k, NEW before, NEW after,
           Len(m[1]) > 1 /\ m[1][1] = k => after = Tail(m[1]),
           ~(Len(m[1]) > 1 /\ m[1][1] = k) => after = before
    PROVE  Says(new, k, after) = Says(m, k, before)
<1>1. PICK A : A = LinesOf(m, {k})
    OBVIOUS
<1>2. PICK B : B = LinesOf(new, {k})
    OBVIOUS
<1>3. /\ \A j \in A : j > 1 => j - n \in B /\ new[j - n] = m[j]
      /\ \A i \in B : i + n \in A /\ i + n > 1 /\ new[i] = m[i + n]
    BY <1>1, <1>2, LinesNext
<1>4. /\ \A j \in A : j \in Nat /\ j >= 1
      /\ \A i \in B : i \in Nat
      /\ 1 \in A <=> Len(m[1]) > 1 /\ m[1][1] = k
    BY <1>1, <1>2 DEF LinesOf
<1>5. CASE B = {}
    <2>1. \A j \in A : j = 1
        BY <1>3, <1>4, <1>5
    <2>2. Says(new, k, after) = after
        BY <1>2, <1>5, SaysIs
    <2>3. CASE 1 \in A
        <3>1. \A l \in A : l <= 1
            BY <2>1
        <3>2. Says(m, k, before) = Tail(m[1])
            BY <1>1, <2>3, <3>1, SaysIs
        <3> QED
            BY <1>4, <2>2, <2>3, <3>2
    <2>4. CASE 1 \notin A
        <3>1. A = {}
            BY <2>1, <2>4
        <3>2. Says(m, k, before) = before
            BY <1>1, <3>1, SaysIs
        <3> QED
            BY <1>4, <2>2, <2>4, <3>2
    <2> QED
        BY <2>3, <2>4
<1>6. CASE B # {}
    <2>1. PICK b \in B : \A l \in B : l <= b
        BY <1>2, <1>6, LastLine
    <2>2. PICK a : a = b + n
        OBVIOUS
    <2>3. a \in A /\ new[b] = m[a] /\ a > 1
        BY <1>3, <2>2
    <2>4. \A l \in A : l <= a
        <3> SUFFICES ASSUME NEW l \in A, l > 1 PROVE l <= a
            BY <1>4, <2>3
        <3>1. l - n <= b
            BY <1>3, <2>1
        <3> QED
            BY <1>4, <2>2, <3>1
    <2>5. Says(new, k, after) = Tail(new[b])
        BY <1>2, <2>1, SaysIs
    <2>6. Says(m, k, before) = Tail(m[a])
        BY <1>1, <2>3, <2>4, SaysIs
    <2> QED
        BY <2>3, <2>5, <2>6
<1> QED
    BY <1>5, <1>6

-----------------------------------------------------------------------------
(* One string of the metadata. *)
LEMMA MetaTypesStep ==
    ASSUME MetaTypes, ReadMeta
    PROVE  MetaTypes'
<1>1. CASE SkipString \/ ReadField \/ SupportedVersion
    <2>1. rest \in Seq(Line) /\ rest # << >> /\ rest' = Behind /\ verdict' = "none"
        BY <1>1 DEF SkipString, ReadField, SupportedVersion, Reading, MetaTypes
    <2>2. rest' \in Seq(Line)
        BY <2>1, BehindIs
    <2>3. export_name' \in Seq(STRING)
        BY <1>1, <2>1, FirstLine DEF SkipString, ReadField, SupportedVersion, MetaTypes, fields
    <2>4. {skipInitFini', initBeforeRelocationDoneHook', checkedVersion'} \subseteq BOOLEAN
        <3>1. CASE SkipString
            BY <3>1 DEF SkipString, MetaTypes, fields
        <3>2. CASE SupportedVersion
            BY <3>2 DEF SupportedVersion, MetaTypes, fields
        <3>3. CASE ReadField
            <4>1. skipInitFini' \in BOOLEAN
                BY <3>3 DEF ReadField, MetaTypes
            <4>2. initBeforeRelocationDoneHook' \in BOOLEAN
                BY <3>3 DEF ReadField, MetaTypes
            <4> QED
                BY <4>1, <4>2, <3>3 DEF ReadField, MetaTypes
        <3> QED
            BY <1>1, <3>1, <3>2, <3>3
    <2> QED
        BY <2>1, <2>2, <2>3, <2>4 DEF MetaTypes
<1>2. CASE UnsupportedVersion \/ EndOfMeta
    BY <1>2 DEF UnsupportedVersion, EndOfMeta, MetaTypes, fields
<1> QED
    BY <1>1, <1>2 DEF ReadMeta

LEMMA VersionsStep ==
    ASSUME MetaTypes, NEW meta \in Seq(Line), VersionsLeft(meta), ReadMeta
    PROVE  VersionsLeft(meta)'
<1>1. PICK m : m = rest
    OBVIOUS
<1>2. PICK new : new = rest'
    OBVIOUS
<1>3. PICK L : L = LinesOf(meta, VersionKeys)
    OBVIOUS
<1>4. PICK A : A = LinesOf(m, VersionKeys)
    OBVIOUS
<1>5. PICK B : B = LinesOf(new, VersionKeys)
    OBVIOUS
<1>6. verdict = "none"
    BY DEF ReadMeta, SkipString, ReadField, SupportedVersion, UnsupportedVersion, EndOfMeta, Reading
<1>7. /\ \A l \in L : Supported(Tail(meta[l])) \/ \E j \in A : m[j] = meta[l]
      /\ Plain(meta) => /\ Plain(m)
                        /\ \A j \in A : \E l \in L : meta[l] = m[j]
                        /\ checkedVersion => L # {}
                        /\ L # {} => checkedVersion \/ A # {}
    BY <1>1, <1>3, <1>4, <1>6 DEF VersionsLeft
<1>8. CASE SkipString \/ ReadField \/ SupportedVersion
    <2>1. /\ m # << >> /\ new = Behind /\ verdict' = "none" /\ m \in Seq(Line)
          /\ SupportedVersion => IsEntry /\ key \in VersionKeys /\ Supported(value)
                                 /\ checkedVersion'
          /\ ~SupportedVersion => (IsEntry => key \notin VersionKeys)
                                  /\ checkedVersion' = checkedVersion
        BY <1>1, <1>2, <1>8 DEF SkipString, ReadField, SupportedVersion, Reading, MetaTypes
    <2>2. new \in Seq(Line)
        BY <1>1, <2>1, BehindIs
    <2>3. PICK n \in {0, 1} : Follows(m, new, n)
        BY <1>1, <2>1, BehindIs
    <2>4. /\ \A j \in A : j > 1 => j - n \in B /\ new[j - n] = m[j]
          /\ Plain(m) => \A i \in B : i + n \in A /\ i + n > 1 /\ new[i] = m[i + n]
        BY <1>4, <1>5, <2>1, <2>2, <2>3, LinesNext
    <2>5. 1 \in A <=> SupportedVersion
        <3>1. 1 \in A <=> Len(m[1]) > 1 /\ m[1][1] \in VersionKeys
            BY <1>1, <1>4, <2>1, FirstLine DEF LinesOf
        <3>2. IsEntry <=> Len(m[1]) > 1
            BY <1>1, <2>1, FirstLine DEF IsEntry
        <3>3. IsEntry => key = m[1][1]
            BY <1>1, <2>1, FirstLine
        <3> QED
            BY <2>1, <3>1, <3>2, <3>3
    <2>6. 1 \in A => Supported(Tail(m[1]))
        BY <1>1, <2>1, <2>5, FirstLine
    <2>7. \A j \in A : j = 1 \/ j > 1
        BY <1>4, <2>1 DEF LinesOf
    <2>8. ASSUME NEW l \in L
          PROVE  Supported(Tail(meta[l])) \/ \E j \in B : new[j] = meta[l]
        <3>1. CASE Supported(Tail(meta[l]))
            BY <3>1
        <3>2. CASE \E j \in A : m[j] = meta[l]
            <4>1. PICK j \in A : m[j] = meta[l]
                BY <3>2
            <4>2. CASE j = 1
                BY <4>1, <4>2, <2>6
            <4>3. CASE j > 1
                BY <4>1, <4>3, <2>4
            <4> QED
                BY <4>2, <4>3, <2>7
        <3> QED
            BY <1>7, <3>1, <3>2
    <2>9. ASSUME Plain(meta)
          PROVE  /\ Plain(new)
                 /\ \A j \in B : \E l \in L : meta[l] = new[j]
                 /\ checkedVersion' => L # {}
                 /\ L # {} => checkedVersion' \/ B # {}
        <3>1. /\ Plain(m)
              /\ \A j \in A : \E l \in L : meta[l] = m[j]
              /\ checkedVersion => L # {}
              /\ L # {} => checkedVersion \/ A # {}
            BY <1>7, <2>9
        <3>2. Plain(new)
            BY <2>3, <3>1 DEF Follows
        <3>3. \A j \in B : \E l \in L : meta[l] = new[j]
            BY <2>4, <3>1
        <3>4. checkedVersion' => L # {}
            <4>1. CASE SupportedVersion
                BY <4>1, <2>5, <3>1
            <4>2. CASE ~SupportedVersion
                BY <4>2, <2>1, <3>1
            <4> QED
                BY <4>1, <4>2
        <3>5. L # {} => checkedVersion' \/ B # {}
            <4>1. CASE SupportedVersion
                BY <4>1, <2>1
            <4>2. CASE ~SupportedVersion
                <5>1. A # {} => B # {}
                    BY <4>2, <2>4, <2>5, <2>7
                <5> QED
                    BY <4>2, <2>1, <3>1, <5>1
            <4> QED
                BY <4>1, <4>2
        <3> QED
            BY <3>2, <3>3, <3>4, <3>5
    <2> QED
        BY <1>2, <1>3, <1>5, <2>1, <2>8, <2>9 DEF VersionsLeft
<1>9. CASE UnsupportedVersion
    <2>1. /\ m \in Seq(Line) /\ m # << >> /\ IsEntry /\ key \in VersionKeys /\ ~Supported(value)
          /\ checkedVersion' /\ verdict' = "ignored" /\ new = m
        BY <1>1, <1>2, <1>9 DEF UnsupportedVersion, Reading, MetaTypes
    <2>2. 1 \in A /\ ~Supported(Tail(m[1]))
        <3>1. /\ 1 \in DOMAIN m /\ Head(m) = m[1]
              /\ key = m[1][1] /\ value = Tail(m[1])
            BY <1>1, <2>1, FirstLine
        <3>2. Len(m[1]) > 1
            BY <1>1, <2>1, <3>1 DEF IsEntry
        <3> QED
            BY <1>4, <2>1, <3>1, <3>2 DEF LinesOf
    <2>3. Plain(meta) => L # {} /\ ~VersionsFit(meta)
        BY <1>3, <1>7, <2>2 DEF VersionsFit
    <2>4. B = A
        BY <1>4, <1>5, <2>1
    <2> QED
        BY <1>2, <1>3, <1>5, <1>7, <2>1, <2>3, <2>4 DEF VersionsLeft
<1>10. CASE EndOfMeta
    <2>1. /\ m = << >> /\ new = m /\ checkedVersion' = checkedVersion
          /\ checkedVersion => verdict' = "accepted"
          /\ ~checkedVersion => verdict' = "ignored"
        BY <1>1, <1>2, <1>10 DEF EndOfMeta
    <2>2. A = {} /\ B = A
        BY <1>4, <1>5, <2>1 DEF LinesOf
    <2>3. Plain(meta) /\ ~checkedVersion => ~VersionsFit(meta)
        BY <1>3, <1>7, <2>2 DEF VersionsFit
    <2>4. \A l \in L : Supported(Tail(meta[l]))
        BY <1>7, <2>2
    <2> QED
        BY <1>2, <1>3, <1>5, <1>7, <2>1, <2>2, <2>3, <2>4 DEF VersionsLeft
<1> QED
    BY <1>8, <1>9, <1>10 DEF ReadMeta

(* A flag without a line may be any word: only whether that is "true" counts. *)
LEMMA WordIs ==
    ASSUME NEW m, NEW k, NEW d, NEW e, d = <<"true">> <=> e = <<"true">>
    PROVE  Says(m, k, d) = <<"true">> <=> Says(m, k, e) = <<"true">>
<1>1. CASE LinesOf(m, {k}) = {}
    BY <1>1 DEF Says
<1>2. CASE LinesOf(m, {k}) # {}
    BY <1>2 DEF Says
<1> QED
    BY <1>1, <1>2

LEMMA WordTrue ==
    ASSUME NEW x \in BOOLEAN
    PROVE  Word(x) = <<"true">> <=> x
<1>1. <<"true">> # <<"false">>
    OBVIOUS
<1> QED
    BY <1>1 DEF Word

LEMMA FieldsStep ==
    ASSUME MetaTypes, NEW meta \in Seq(Line), Plain(meta) => Plain(rest), FieldsLeft(meta), ReadMeta
    PROVE  FieldsLeft(meta)'
<1>1. CASE UnsupportedVersion \/ EndOfMeta
    <2>1. rest' = rest /\ UNCHANGED fields
        BY <1>1 DEF UnsupportedVersion, EndOfMeta
    <2> QED
        BY <2>1 DEF FieldsLeft, fields
<1>2. CASE SkipString \/ ReadField \/ SupportedVersion
    <2> SUFFICES ASSUME Plain(meta) PROVE FieldsLeft(meta)'
        BY DEF FieldsLeft
    <2>1. PICK m : m = rest
        OBVIOUS
    <2>2. PICK new : new = rest'
        OBVIOUS
    <2>3. /\ m # << >> /\ m \in Seq(Line) /\ new = Behind /\ Plain(m)
        BY <1>2, <2>1, <2>2 DEF SkipString, ReadField, SupportedVersion, Reading, MetaTypes
    <2>4. new \in Seq(Line) /\ Len(m) >= 1
        BY <2>1, <2>3, BehindIs, FirstLine
    <2>5. PICK n \in {0, 1} : Follows(m, new, n)
        BY <2>1, <2>3, BehindIs
    <2>6. /\ IsEntry <=> Len(m[1]) > 1
          /\ IsEntry => key = m[1][1] /\ value = Tail(m[1])
        BY <2>1, <2>3, FirstLine DEF IsEntry
    <2> DEFINE Named(k) == IsEntry /\ key = k
               Then(k, d) == IF Named(k) THEN Tail(m[1]) ELSE d
    <2>7. ASSUME NEW k, NEW d
          PROVE  Says(new, k, Then(k, d)) = Says(m, k, d)
        <3>1. /\ Len(m[1]) > 1 /\ m[1][1] = k => Then(k, d) = Tail(m[1])
              /\ ~(Len(m[1]) > 1 /\ m[1][1] = k) => Then(k, d) = d
            BY <2>6
        <3> HIDE DEF Then
        <3> QED
            BY <2>3, <2>4, <2>5, <3>1, SaysNext
    <2>8. ASSUME NEW k \in {"export_name", "skipInitFini", "initBeforeRelocationDoneHook"}, Named(k)
          PROVE  ReadField
        <3>1. k \notin VersionKeys
            BY DEF VersionKeys
        <3> QED
            BY <1>2, <2>8, <3>1 DEF SkipString, SupportedVersion
    <2>9. export_name' = Then("export_name", export_name)
        <3>1. CASE Named("export_name")
            BY <2>6, <2>8, <3>1 DEF ReadField
        <3>2. CASE ~Named("export_name")
            <4>1. export_name' = export_name
                BY <1>2, <3>2 DEF SkipString, ReadField, SupportedVersion, fields
            <4> QED
                BY <3>2, <4>1
        <3> QED
            BY <3>1, <3>2
    <2>10. Word(skipInitFini') = <<"true">> <=>
               Then("skipInitFini", Word(skipInitFini)) = <<"true">>
        <3>1. CASE Named("skipInitFini")
            <4>1. skipInitFini' <=> Tail(m[1]) = <<"true">>
                BY <2>6, <2>8, <3>1 DEF ReadField
            <4>2. Word(skipInitFini') = <<"true">> <=> skipInitFini'
                BY MetaTypesStep, WordTrue DEF MetaTypes
            <4> QED
                BY <3>1, <4>1, <4>2
        <3>2. CASE ~Named("skipInitFini")
            <4>1. skipInitFini' = skipInitFini
                BY <1>2, <3>2 DEF SkipString, ReadField, SupportedVersion, fields
            <4> QED
                BY <3>2, <4>1
        <3> QED
            BY <3>1, <3>2
    <2>11. Word(initBeforeRelocationDoneHook') = <<"true">> <=>
               Then("initBeforeRelocationDoneHook", Word(initBeforeRelocationDoneHook)) = <<"true">>
        <3>1. CASE Named("initBeforeRelocationDoneHook")
            <4>1. initBeforeRelocationDoneHook' <=> Tail(m[1]) = <<"true">>
                BY <2>6, <2>8, <3>1 DEF ReadField
            <4>2. Word(initBeforeRelocationDoneHook') = <<"true">> <=> initBeforeRelocationDoneHook'
                BY MetaTypesStep, WordTrue DEF MetaTypes
            <4> QED
                BY <3>1, <4>1, <4>2
        <3>2. CASE ~Named("initBeforeRelocationDoneHook")
            <4>1. initBeforeRelocationDoneHook' = initBeforeRelocationDoneHook
                BY <1>2, <3>2 DEF SkipString, ReadField, SupportedVersion, fields
            <4> QED
                BY <3>2, <4>1
        <3> QED
            BY <3>1, <3>2
    <2> HIDE DEF Then
    <2>12. /\ Says(m, "export_name", export_name) = Says(meta, "export_name", << >>)
           /\ Says(m, "skipInitFini", Word(skipInitFini)) = <<"true">> <=> Flag(meta, "skipInitFini")
           /\ Says(m, "initBeforeRelocationDoneHook", Word(initBeforeRelocationDoneHook)) = <<"true">>
                 <=> Flag(meta, "initBeforeRelocationDoneHook")
        BY <2>1 DEF FieldsLeft
    <2>13. Says(new, "export_name", export_name') = Says(meta, "export_name", << >>)
        BY <2>7, <2>9, <2>12
    <2>14. PICK x : x = Word(skipInitFini')
        OBVIOUS
    <2>15. Says(new, "skipInitFini", x) = <<"true">> <=> Flag(meta, "skipInitFini")
        <3>1. PICK y : y = Then("skipInitFini", Word(skipInitFini))
            OBVIOUS
        <3>2. Says(new, "skipInitFini", x) = <<"true">> <=> Says(new, "skipInitFini", y) = <<"true">>
            BY <2>10, <2>14, <3>1, WordIs
        <3>3. Says(new, "skipInitFini", y) = Says(m, "skipInitFini", Word(skipInitFini))
            BY <2>7, <3>1
        <3> QED
            BY <2>12, <3>2, <3>3
    <2>16. PICK z : z = Word(initBeforeRelocationDoneHook')
        OBVIOUS
    <2>17. Says(new, "initBeforeRelocationDoneHook", z) = <<"true">>
               <=> Flag(meta, "initBeforeRelocationDoneHook")
        <3>1. PICK y : y = Then("initBeforeRelocationDoneHook", Word(initBeforeRelocationDoneHook))
            OBVIOUS
        <3>2. Says(new, "initBeforeRelocationDoneHook", z) = <<"true">>
                  <=> Says(new, "initBeforeRelocationDoneHook", y) = <<"true">>
            BY <2>11, <2>16, <3>1, WordIs
        <3>3. Says(new, "initBeforeRelocationDoneHook", y)
                  = Says(m, "initBeforeRelocationDoneHook", Word(initBeforeRelocationDoneHook))
            BY <2>7, <3>1
        <3> QED
            BY <2>12, <3>2, <3>3
    <2> QED
        BY <2>2, <2>13, <2>14, <2>15, <2>16, <2>17 DEF FieldsLeft
<1> QED
    BY <1>1, <1>2 DEF ReadMeta

LEMMA MetaStep ==
    ASSUME ListingsAreRight, Control, MetaRead, [Next]_vars
    PROVE  MetaRead'
<1> DEFINE After == {"meta", "link", "imports", "lists", "symbols", "loaded"}
<1>1. CASE LoadElf
    <2>1. pc' = "meta" /\ cur' = cur /\ pc \in InFile
        BY <1>1, InsideStays DEF Inside, LoadElf
    <2>2. PICK meta : meta = cur.meta
        OBVIOUS
    <2>3. meta \in Seq(Line) /\ cur'.meta = meta
        BY <2>1, <2>2, CurIs
    <2>4. /\ rest' = meta /\ export_name' = << >> /\ skipInitFini' = FALSE
          /\ initBeforeRelocationDoneHook' = FALSE /\ checkedVersion' = FALSE /\ verdict' = "none"
        BY <1>1, <2>2 DEF LoadElf, StartMeta
    <2>5. MetaTypes'
        <3>1. {skipInitFini', initBeforeRelocationDoneHook', checkedVersion'} \subseteq BOOLEAN
            BY <2>4
        <3>2. export_name' \in Seq(STRING)
            BY <2>4
        <3> QED
            BY <2>3, <2>4, <3>1, <3>2 DEF MetaTypes
    <2>6. VersionsLeft(meta)'
        BY <2>4 DEF VersionsLeft
    <2>7. FieldsLeft(meta)'
        BY <2>4 DEF FieldsLeft, Flag, Word
    <2>8. VersionsLeft(cur.meta)' /\ FieldsLeft(cur.meta)'
        BY <2>3, <2>6, <2>7 DEF VersionsLeft, FieldsLeft
    <2> QED
        BY <2>1, <2>5, <2>8 DEF MetaRead
<1>2. CASE ReadMetadata
    <2>1. pc = "meta" /\ pc' = "meta" /\ cur' = cur /\ pc \in InFile /\ ReadMeta
        BY <1>2, InsideStays DEF Inside, ReadMetadata
    <2>2. PICK meta : meta = cur.meta
        OBVIOUS
    <2>3. meta \in Seq(Line) /\ cur'.meta = meta
        BY <2>1, <2>2, CurIs
    <2>4. MetaTypes /\ VersionsLeft(meta) /\ FieldsLeft(meta)
        BY <2>1, <2>2 DEF MetaRead
    <2>5. verdict # "ignored"
        BY <2>1 DEF ReadMeta, SkipString, ReadField, SupportedVersion, UnsupportedVersion,
                    EndOfMeta, Reading
    <2>6. Plain(meta) => Plain(rest)
        BY <2>4 DEF VersionsLeft
    <2>7. MetaTypes' /\ VersionsLeft(meta)' /\ FieldsLeft(meta)'
        BY <2>1, <2>3, <2>4, <2>6, MetaTypesStep, VersionsStep, FieldsStep
    <2>8. VersionsLeft(cur.meta)' /\ FieldsLeft(cur.meta)'
        BY <2>3, <2>7 DEF VersionsLeft, FieldsLeft
    <2> QED
        BY <2>1, <2>7, <2>8 DEF MetaRead
<1>3. CASE Inside /\ ~LoadElf /\ ~ReadMetadata
    <2>1. /\ UNCHANGED metaVars /\ cur' = cur
          /\ pc' \in After => pc \in After
          /\ pc' \in After \ {"meta"} => verdict = "accepted" \/ pc \in After \ {"meta"}
        <3>1. CASE NoBuffer \/ ReadShort \/ ReadFile \/ PlaceSections
            BY <1>3, <3>1, InsideStays DEF NoBuffer, ReadShort, ReadFile, PlaceSections, Stay
        <3>2. CASE NoElf \/ Ignore \/ Misplaced \/ LinkFails \/ Loaded
            BY <1>3, <3>2, InsideStays DEF NoElf, Ignore, Misplaced, LinkFails, GiveUp, Loaded
        <3>3. CASE LinkLocal \/ LeaveImport \/ LinkedAll
            BY <1>3, <3>3, InsideStays DEF LinkLocal, LeaveImport, LinkedAll, Linking, Stay
        <3>4. CASE PassOver \/ AddImport \/ SearchFails \/ SearchedAll \/ ReadLists \/ ReadSymbol
            BY <1>3, <3>4, InsideStays DEF PassOver, AddImport, SearchFails, SearchedAll, Searching,
                                         ReadLists, ReadSymbol, Stay
        <3> QED
            BY <1>3, <3>1, <3>2, <3>3, <3>4 DEF Inside
    <2> QED
        BY <2>1 DEF MetaRead, MetaTypes, VersionsLeft, FieldsLeft, metaVars
<1>4. CASE \/ ListFiles \/ SkipFile \/ OpenFile \/ EndOfDirectory
           \/ Overflow \/ UnknownSection \/ KeepModule \/ FailToLoad
    <2>1. UNCHANGED metaVars /\ pc' \in {"file", "read", "done", "fatal"}
        BY <1>4 DEF ListFiles, SkipFile, OpenFile, EndOfDirectory, Overflow, UnknownSection,
                    KeepModule, FailToLoad, NextFile, Stay
    <2> QED
        BY <2>1 DEF MetaRead, MetaTypes, metaVars
<1>5. CASE UNCHANGED vars
    BY <1>5 DEF vars, metaVars, MetaRead, MetaTypes, VersionsLeft, FieldsLeft, cur
<1> QED
    BY <1>1, <1>2, <1>3, <1>4, <1>5, StepsAre

(* What a section has said when it is read to its end. *)
LEMMA MetaAccepted ==
    ASSUME ListingsAreRight, Control, MetaRead, pc \in {"link", "imports", "lists", "symbols", "loaded"}
    PROVE  /\ \A l \in LinesOf(cur.meta, VersionKeys) : Supported(Tail(cur.meta[l]))
           /\ Plain(cur.meta) => /\ VersionsFit(cur.meta)
                                 /\ fields = WrittenFields(cur.meta)
<1>1. PICK meta : meta = cur.meta
    OBVIOUS
<1>2. VersionsLeft(meta) /\ FieldsLeft(meta) /\ verdict = "accepted" /\ MetaTypes
    BY <1>1 DEF MetaRead
<1>3. rest = << >> /\ checkedVersion /\ LinesOf(rest, VersionKeys) = {}
    BY <1>2 DEF VersionsLeft, LinesOf
<1>4. \A l \in LinesOf(meta, VersionKeys) : Supported(Tail(meta[l]))
    BY <1>2, <1>3 DEF VersionsLeft
<1>5. Plain(meta) => VersionsFit(meta)
    BY <1>2, <1>3, <1>4 DEF VersionsLeft, VersionsFit
<1>6. ASSUME Plain(meta)
      PROVE  fields = WrittenFields(meta)
    <2>1. \A k, d : Says(rest, k, d) = d
        BY <1>3 DEF Says, LinesOf
    <2>2. export_name = Says(meta, "export_name", << >>)
        BY <1>2, <1>6, <2>1 DEF FieldsLeft
    <2>3. /\ skipInitFini \in BOOLEAN /\ initBeforeRelocationDoneHook \in BOOLEAN
        BY <1>2 DEF MetaTypes
    <2>4. skipInitFini = Flag(meta, "skipInitFini")
        <3>1. Word(skipInitFini) = <<"true">> <=> Flag(meta, "skipInitFini")
            BY <1>2, <1>6, <2>1 DEF FieldsLeft
        <3>2. Flag(meta, "skipInitFini") \in BOOLEAN
            BY DEF Flag
        <3> QED
            BY <2>3, <3>1, <3>2, WordTrue
    <2>5. initBeforeRelocationDoneHook = Flag(meta, "initBeforeRelocationDoneHook")
        <3>1. Word(initBeforeRelocationDoneHook) = <<"true">>
                  <=> Flag(meta, "initBeforeRelocationDoneHook")
            BY <1>2, <1>6, <2>1 DEF FieldsLeft
        <3>2. Flag(meta, "initBeforeRelocationDoneHook") \in BOOLEAN
            BY DEF Flag
        <3> QED
            BY <2>3, <3>1, <3>2, WordTrue
    <2> QED
        BY <2>2, <2>4, <2>5 DEF fields, WrittenFields
<1> QED
    BY <1>1, <1>4, <1>5, <1>6

-----------------------------------------------------------------------------
(* Within a file nothing is kept; and one that is good does not fail. *)
LEMMA KeptInside ==
    ASSUME ListingsAreRight, Control, MetaRead, Relocs, Kept, Inside
    PROVE  Kept'
<1>1. UNCHANGED <<files, f, gLoadedModules>> /\ cur' = cur /\ pc \in InFile
    BY InsideStays
<1>2. ASSUME pc' = "failed", Plain(cur.meta)
      PROVE  ~Good(cur)
    <2>1. CASE NoBuffer \/ ReadShort \/ NoElf \/ Misplaced
        BY <2>1 DEF NoBuffer, ReadShort, NoElf, Misplaced, Good
    <2>2. CASE Ignore
        <3>1. pc = "meta" /\ verdict = "ignored"
            BY <2>2 DEF Ignore
        <3>2. ~VersionsFit(cur.meta)
            BY <1>2, <3>1 DEF MetaRead, VersionsLeft
        <3> QED
            BY <3>2 DEF Good
    <2>3. CASE LinkFails
        <3>1. \/ Linking /\ reloc.placed /\ reloc.symbol \in {"low", "bad"}
              \/ Clashes(cur)
            BY <2>3 DEF LinkFails
        <3>2. ASSUME Linking, reloc.placed, reloc.symbol \in {"low", "bad"}
              PROVE  ~Linkable(cur)
            <4>1. position \in DOMAIN cur.relocs
                <5>1. position \in 1..(Len(cur.relocs) + 1) /\ position <= Len(cur.relocs)
                    BY <3>2 DEF Linking, Relocs
                <5>2. Len(cur.relocs) \in Nat /\ DOMAIN cur.relocs = 1..Len(cur.relocs)
                    BY <1>1, CurIs
                <5> QED
                    BY <5>1, <5>2
            <4> QED
                BY <3>2, <4>1 DEF Linkable, reloc
        <3>3. ~Linkable(cur)
            BY <3>1, <3>2 DEF Linkable
        <3> QED
            BY <3>3 DEF Good
    <2>4. CASE \/ ReadFile \/ LoadElf \/ ReadMetadata \/ PlaceSections
               \/ LinkLocal \/ LeaveImport \/ LinkedAll
        BY <1>1, <1>2, <2>4 DEF ReadFile, LoadElf, ReadMetadata, PlaceSections, LinkLocal, LeaveImport,
                          LinkedAll, Linking
    <2>5. CASE \/ PassOver \/ AddImport \/ SearchFails \/ SearchedAll
               \/ ReadLists \/ ReadSymbol \/ Loaded
        BY <1>1, <1>2, <2>5 DEF PassOver, AddImport, SearchFails, SearchedAll, Searching, ReadLists,
                          ReadSymbol, Loaded
    <2> QED
        BY <2>1, <2>2, <2>3, <2>4, <2>5 DEF Inside
<1>3. LoadedFiles' = LoadedFiles
    BY <1>1 DEF LoadedFiles
<1> QED
    BY <1>1, <1>2, <1>3 DEF Kept

(* The module that is kept, behind those before. *)
LEMMA KeptAfter ==
    ASSUME ListingsAreRight, Control, MetaRead, Relocs, Kept, KeepModule
    PROVE  Kept'
<1>1. /\ pc = "loaded" /\ pc' = "file" /\ f' = f + 1 /\ files' = files
      /\ f \in 1..Len(files) /\ Len(files) \in Nat /\ cur = files[f].file
    BY FilesAre, CurIs DEF KeepModule, NextFile, InFile
<1>2. PICK r : r = [file |-> f, fields |-> fields, linked |-> linked, imports |-> imports,
                    dependencies |-> dependencies]
    OBVIOUS
<1>3. PICK now : now = gLoadedModules
    OBVIOUS
<1>4. PICK new : new = gLoadedModules'
    OBVIOUS
<1>5. PICK n : n = Len(now)
    OBVIOUS
<1>6. now \in Seq(Module) /\ n \in Nat /\ DOMAIN now = 1..n
    BY <1>3, <1>5 DEF Kept
<1>7. r \in Module
    <2>1. fields \in Seq(STRING) \X BOOLEAN \X BOOLEAN
        BY DEF MetaRead, MetaTypes, fields
    <2> QED
        BY <1>1, <1>2, <2>1 DEF Module, Relocs
<1>8. new = Append(now, r)
    BY <1>2, <1>3, <1>4 DEF KeepModule
<1>9. /\ new \in Seq(Module) /\ DOMAIN new = 1..(n + 1) /\ new[n + 1] = r
      /\ \A j \in 1..n : new[j] = now[j]
    BY <1>5, <1>6, <1>7, <1>8
<1>10. PICK old : old = {now[m].file : m \in DOMAIN now}
    OBVIOUS
<1>11. PICK all : all = {new[m].file : m \in DOMAIN new}
    OBVIOUS
<1>12. PICK p : p = f
    OBVIOUS
<1>13. r.file = p /\ p \in 1..Len(files)
    BY <1>1, <1>2, <1>12
<1>14. all = old \cup {p}
    <2>1. \A j \in DOMAIN new : j \in DOMAIN now \/ j = n + 1
        BY <1>6, <1>9
    <2>2. \A j \in DOMAIN now : j \in DOMAIN new /\ new[j] = now[j]
        BY <1>6, <1>9
    <2>3. n + 1 \in DOMAIN new /\ new[n + 1].file = p
        BY <1>6, <1>9, <1>13
    <2> QED
        BY <1>10, <1>11, <2>1, <2>2, <2>3
<1>15. old \subseteq 1..(p - 1)
    BY <1>3, <1>10, <1>12 DEF Kept, LoadedFiles
<1>16. Right(r, cur)
    <2>1. Once(r, cur.relocs)
        BY <1>1, <1>2, OnceLoaded
    <2> QED
        BY <1>1, <1>2, <2>1, MetaAccepted DEF Right
<1>17. Plain(cur.meta) => Good(cur)
    <2>1. ~cur.hidden /\ cur.content = "module" /\ Linkable(cur)
        BY <1>1 DEF Control, InFile, Relocs
    <2> QED
        BY <1>1, <2>1, MetaAccepted DEF Good
<1>18. \A m \in DOMAIN new : Right(new[m], files[new[m].file].file)
    <2>1. \A m \in DOMAIN now : Right(now[m], files[now[m].file].file)
        BY <1>3 DEF Kept
    <2>2. Right(new[n + 1], files[new[n + 1].file].file)
        BY <1>1, <1>9, <1>12, <1>13, <1>16
    <2> QED
        BY <1>6, <1>9, <2>1, <2>2
<1>19. \A j, l \in DOMAIN new : j < l => new[j].file < new[l].file
    <2>1. \A j, l \in DOMAIN now : j < l => now[j].file < now[l].file
        BY <1>3 DEF Kept
    <2>2. \A j \in DOMAIN now : now[j].file < p
        <3>1. \A j \in DOMAIN now : now[j].file \in 1..(p - 1)
            BY <1>10, <1>15
        <3> QED
            BY <1>13, <3>1
    <2> QED
        BY <1>6, <1>9, <1>13, <2>1, <2>2
<1>20. \A l \in 1..((p + 1) - 1) :
           Plain(files[l].file.meta) => (l \in all <=> Good(files[l].file))
    <2>1. \A l \in 1..(p - 1) :
              Plain(files[l].file.meta) => (l \in old <=> Good(files[l].file))
        BY <1>3, <1>10, <1>12 DEF Kept, LoadedFiles
    <2>2. \A l \in 1..((p + 1) - 1) : l = p \/ l \in 1..(p - 1)
        BY <1>13
    <2>3. \A l \in 1..(p - 1) : l # p
        BY <1>13
    <2>4. p \in all /\ (Plain(files[p].file.meta) => Good(files[p].file))
        BY <1>1, <1>12, <1>14, <1>17
    <2> QED
        BY <1>14, <2>1, <2>2, <2>3, <2>4
<1>21. all \subseteq 1..((p + 1) - 1)
    BY <1>13, <1>14, <1>15
<1>22. f' = p + 1 /\ LoadedFiles' = all
    BY <1>1, <1>4, <1>11, <1>12 DEF LoadedFiles
<1> QED
    BY <1>1, <1>4, <1>9, <1>18, <1>19, <1>20, <1>21, <1>22 DEF Kept

LEMMA KeptStep ==
    ASSUME ListingsAreRight, Control, MetaRead, Relocs, Kept, [Next]_vars
    PROVE  Kept'
<1>1. CASE Inside
    BY <1>1, KeptInside
<1>2. CASE KeepModule
    BY <1>2, KeptAfter
<1>3. CASE ListFiles
    <2>1. /\ f' = 1 /\ gLoadedModules' = << >> /\ pc' = "file"
        BY <1>3 DEF ListFiles, Control
    <2>2. LoadedFiles' = {}
        BY <2>1 DEF LoadedFiles
    <2> QED
        BY <2>1, <2>2 DEF Kept
<1>4. CASE SkipFile \/ FailToLoad
    <2>1. /\ f' = f + 1 /\ files' = files /\ gLoadedModules' = gLoadedModules /\ pc' = "file"
          /\ f \in Nat /\ 1 <= f /\ cur = files[f].file
          /\ Plain(cur.meta) => ~Good(cur)
        BY <1>4, FilesAre DEF SkipFile, FailToLoad, NextFile, Kept, Good, cur
    <2>2. PICK p : p = f
        OBVIOUS
    <2>3. PICK old : old = LoadedFiles
        OBVIOUS
    <2>4. old \subseteq 1..(p - 1) /\ p \in Nat /\ 1 <= p
        BY <2>1, <2>2, <2>3 DEF Kept
    <2>5. p \notin old /\ old \subseteq 1..((p + 1) - 1)
        BY <2>4
    <2>6. \A l \in 1..((p + 1) - 1) : l = p \/ l \in 1..(p - 1)
        BY <2>4
    <2>7. \A l \in 1..((p + 1) - 1) :
              Plain(files[l].file.meta) => (l \in old <=> Good(files[l].file))
        BY <2>1, <2>2, <2>3, <2>5, <2>6 DEF Kept
    <2>8. LoadedFiles' = old
        BY <2>1, <2>3 DEF LoadedFiles
    <2> QED
        BY <2>1, <2>2, <2>5, <2>7, <2>8 DEF Kept
<1>5. CASE OpenFile \/ EndOfDirectory \/ Overflow \/ UnknownSection
    <2>1. f' = f /\ files' = files /\ gLoadedModules' = gLoadedModules /\ pc' # "failed"
        BY <1>5 DEF OpenFile, EndOfDirectory, Overflow, UnknownSection, Stay
    <2>2. LoadedFiles' = LoadedFiles
        BY <2>1 DEF LoadedFiles
    <2> QED
        BY <2>1, <2>2 DEF Kept
<1>6. CASE UNCHANGED vars
    <2>1. f' = f /\ files' = files /\ gLoadedModules' = gLoadedModules /\ pc' = pc /\ cur' = cur
        BY <1>6 DEF vars, cur
    <2>2. LoadedFiles' = LoadedFiles
        BY <2>1 DEF LoadedFiles
    <2> QED
        BY <2>1, <2>2 DEF Kept
<1> QED
    BY <1>1, <1>2, <1>3, <1>4, <1>5, <1>6, StepsAre

-----------------------------------------------------------------------------
LEMMA LoadInit ==
    ASSUME Init
    PROVE  LoadInv
<1>1. Control
    BY DEF Init, Control, Phases, InFile
<1>2. Shorts(f) = {}
    BY DEF Init, Shorts
<1>3. Heap
    BY <1>2 DEF Init, Heap, InFile
<1>4. MetaTypes
    <2>1. /\ rest = << >> /\ export_name = << >> /\ verdict = "none"
          /\ skipInitFini = FALSE /\ initBeforeRelocationDoneHook = FALSE
          /\ checkedVersion = FALSE
        BY DEF Init, MetaInit
    <2>2. {skipInitFini, initBeforeRelocationDoneHook, checkedVersion} \subseteq BOOLEAN
        BY <2>1
    <2>3. rest \in Seq(Line) /\ export_name \in Seq(STRING)
        BY <2>1
    <2> QED
        BY <2>1, <2>2, <2>3 DEF MetaTypes
<1>5. MetaRead
    BY <1>4 DEF Init, MetaRead
<1>6. Relocs
    BY DEF Init, Relocs
<1>7. gLoadedModules = << >> /\ LoadedFiles = {} /\ f = 1
    BY DEF Init, LoadedFiles
<1>8. Kept
    BY <1>7 DEF Init, Kept
<1> QED
    BY <1>1, <1>3, <1>5, <1>6, <1>8 DEF LoadInv

LEMMA LoadIsInvariant == Spec => []LoadInv
<1> USE ListingsHold
<1>1. LoadInv /\ [Next]_vars => LoadInv'
    BY ControlStep, HeapStep, MetaStep, RelocsStep, KeptStep DEF LoadInv
<1> QED
    BY <1>1, LoadInit, PTL DEF Spec

(* While the folder is listed, for each filter, each set of flags and each depth the list
   holds the entries that are asked for and nothing else, each once and in the order of
   paths: of the folder, or of all that can be reached in so many steps down, however
   folders are nested. "." and ".." are entered by no search. *)
THEOREM ListingIsRight == Spec => []ListsWhatIsAsked
<1>1. LoadInv => ListsWhatIsAsked
    <2> SUFFICES ASSUME LoadInv, pc = "list" PROVE ListsWhatIsAsked
        BY DEF ListsWhatIsAsked
    <2>1. modules \in DOMAIN tree /\ IsTree(tree)
        BY DirectoriesAssumption DEF LoadInv, Control
    <2>2. 0..2 \subseteq Nat
        OBVIOUS
    <2> QED
        BY <2>1, <2>2, LoadPathIs DEF ListsWhatIsAsked
<1> QED
    BY <1>1, LoadIsInvariant, PTL

(* The default heap is left as it was found, but for the buffers of files that could not
   be read to their end: on whichever of the many ways out of LoadFileToMem and load each
   of any number of files leaves. *)
THEOREM HeapIsLeftClean == Spec => []HeapLeftClean
<1>1. LoadInv => HeapLeftClean
    BY DEF LoadInv, Heap, Shorts, HeapLeftClean
<1> QED
    BY <1>1, LoadIsInvariant, PTL

(* Of every module that load() returns, each relocation is linked or kept for the starts,
   and in the order of the file, although the pass of linkSection and the search for
   imports each have conditions of their own and a failed search is ignored. *)
THEOREM RelocationsOnce == Spec => []EveryRelocationOnce
<1>1. LoadInv => EveryRelocationOnce
    <2> SUFFICES ASSUME LoadInv, NEW m \in DOMAIN gLoadedModules
                 PROVE  Once(gLoadedModules[m], files[gLoadedModules[m].file].file.relocs)
        BY DEF EveryRelocationOnce, Once, PlacedOnes
    <2> QED
        BY DEF LoadInv, Kept, Right
<1> QED
    BY <1>1, LoadIsInvariant, PTL

(* The fields of each module hold what its own metadata says last, for metadata of any
   length in which no value holds an '=': reading every value once more, as a string of
   its own, has no effect then. *)
THEOREM FieldsAreAsWritten == Spec => []FieldsAsWritten
<1>1. LoadInv => FieldsAsWritten
    <2> SUFFICES ASSUME LoadInv, NEW m \in DOMAIN gLoadedModules,
                        Plain(files[gLoadedModules[m].file].file.meta)
                 PROVE  gLoadedModules[m].fields =
                            WrittenFields(files[gLoadedModules[m].file].file.meta)
        BY DEF FieldsAsWritten, WrittenFields, Flag
    <2> QED
        BY DEF LoadInv, Kept, Right
<1> QED
    BY <1>1, LoadIsInvariant, PTL

(* When all files have been gone over, the modules are the good files of the folder and
   in the order of their names, and no other file has had a part in that. *)
THEOREM TheGoodAreLoaded == Spec => []LoadsTheGood
<1>1. LoadInv => LoadsTheGood
    <2> SUFFICES ASSUME LoadInv, pc = "done" PROVE LoadsTheGood
        BY DEF LoadsTheGood
    <2> DEFINE entries == {entry \in Range(tree[modules]) : ~isDir(entry) /\ entry.ext = ".wms"}
               Entry(j) == files[gLoadedModules[j].file]
               loaded == {Entry(j) : j \in DOMAIN gLoadedModules}
    <2>1. /\ files = Listing(tree) /\ tree \in Directories /\ f = Len(files) + 1
          /\ Len(files) \in Nat /\ DOMAIN files = 1..Len(files) /\ Kept
        BY FilesAre, ListingsHold DEF LoadInv, Control
    <2>2. \A l \in DOMAIN files : l \in 1..(f - 1)
        BY <2>1
    <2>3. AsAsked(tree, modules, {".wms"}, {"Files"}, 1)
        BY <2>1, ListingsHold DEF ListingsAreRight
    <2>4. "CheckSubfolders" \notin {"Files"} /\ "Dirs" \notin {"Files"} /\ {".wms"} # {}
        OBVIOUS
    <2>5. Range(files) = {entry \in UNION {Range(tree[x]) : x \in {modules}} :
                             Listed(entry, {".wms"}, {"Files"})}
        BY <2>1, <2>3, <2>4 DEF AsAsked, Listing
    <2>6. \A entry \in Range(tree[modules]) : isDir(entry) \/ ~entry.dots
        BY <2>1, DirectoriesAssumption
    <2>7. Range(files) = entries
        BY <2>4, <2>5, <2>6 DEF Listed, Matches
    <2>8. \A m \in DOMAIN gLoadedModules :
              /\ gLoadedModules[m].file \in LoadedFiles
              /\ gLoadedModules[m].file \in DOMAIN files
              /\ Right(gLoadedModules[m], Entry(m).file)
        <3>1. \A m \in DOMAIN gLoadedModules : gLoadedModules[m].file \in LoadedFiles
            BY DEF LoadedFiles
        <3>2. LoadedFiles \subseteq DOMAIN files
            BY <2>1 DEF Kept
        <3> QED
            BY <2>1, <3>1, <3>2 DEF Kept
    <2>9. loaded \subseteq entries
        <3>1. \A m \in DOMAIN gLoadedModules : Entry(m) \in Range(files)
            BY <2>8 DEF Range
        <3> QED
            BY <2>7, <3>1
    <2>10. ASSUME NEW entry \in entries, Plain(entry.file.meta)
           PROVE  entry \in loaded <=> Good(entry.file)
        <3>1. PICK l \in DOMAIN files : files[l] = entry
            BY <2>7 DEF Range
        <3>2. \A i \in DOMAIN files :
                  files[i] = entry => (i \in LoadedFiles <=> Good(entry.file))
            BY <2>1, <2>2, <2>10 DEF Kept
        <3>3. l \in LoadedFiles => entry \in loaded
            BY <3>1 DEF LoadedFiles
        <3>4. ASSUME entry \in loaded PROVE Good(entry.file)
            BY <2>8, <3>2, <3>4
        <3> QED
            BY <3>1, <3>2, <3>3, <3>4
    <2>11. ASSUME NEW entry \in loaded, NEW l \in LinesOf(entry.file.meta, VersionKeys)
           PROVE  Supported(Tail(entry.file.meta[l]))
        BY <2>8 DEF Right
    <2>12. ASSUME NEW j \in DOMAIN gLoadedModules, NEW l \in DOMAIN gLoadedModules, j < l
           PROVE  Entry(j).path < Entry(l).path
        <3>1. PICK a : a = gLoadedModules[j].file
            OBVIOUS
        <3>2. PICK b : b = gLoadedModules[l].file
            OBVIOUS
        <3>3. a \in DOMAIN files /\ b \in DOMAIN files /\ a < b
            BY <2>1, <2>8, <2>12, <3>1, <3>2 DEF Kept
        <3>4. ~isDir(files[a]) /\ ~isDir(files[b])
            BY <2>7, <3>3 DEF Range
        <3>5. isDir(files[a]) = isDir(files[b])
            BY <3>4 DEF isDir
        <3>6. files[a].path < files[b].path
            BY <2>1, <2>3, <3>3, <3>5 DEF AsAsked, Listing
        <3> QED
            BY <3>1, <3>2, <3>6
    <2> HIDE DEF entries, loaded
    <2>13. /\ \A entry \in entries :
                 Plain(entry.file.meta) => (entry \in loaded <=> Good(entry.file))
           /\ \A entry \in loaded : \A l \in LinesOf(entry.file.meta, VersionKeys) :
                 Supported(Tail(entry.file.meta[l]))
        BY <2>10, <2>11
    <2> USE DEF entries, loaded
    <2> QED
        BY <2>9, <2>12, <2>13 DEF LoadsTheGood
<1> QED
    BY <1>1, LoadIsInvariant, PTL

=============================================================================
