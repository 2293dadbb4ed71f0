------------------------- MODULE ModuleOrderProofs --------------------------
(***************************************************************************)
(* Proofs about ModuleOrder, for every catalog of descriptors and every    *)
(* number of modules.                                                      *)
(***************************************************************************)
EXTENDS ModuleOrder, TLAPS, SequenceTheorems, WellFoundedInduction

(* What is left when one element is erased is still a list of modules. *)
LEMMA RemoveAtType ==
    ASSUME NEW S, NEW s \in Seq(S), NEW k \in DOMAIN s
    PROVE  /\ RemoveAt(s, k) \in Seq(S)
           /\ s[k] \in S
BY DEF RemoveAt

(* A step leaves the descriptors, and so the modules, alone. *)
LEMMA DescUnchanged == [Next]_vars => desc' = desc
BY DEF Next, vars, SkipPlaced, RejectBackendImport, LeaveForLater, PlaceModule, NextPass,
       FailToResolve, ReturnOrder, MoveBackendLast, NoBackend, BaseMissing, NoReorder,
       StartReorder, CopyRegular, BaseToFront, BaseNotCopied, MoveRegular, EndReorder,
       CheckPasses, CheckFails

-----------------------------------------------------------------------------
(* Type correctness. The flags are apart from the other variables: Zenon takes
   Boolean values, SMT everything else. *)
FlagsOK == canBreak \in BOOLEAN /\ weDidSomething \in BOOLEAN

DataOK ==
    /\ pc \in {"order", "backend", "base", "copy", "move", "check", "done", "fatal"}
    /\ fatal \in Reasons
    /\ fatal # "none" <=> pc = "fatal"
    /\ gLoadedModules \in Seq(Modules)
    /\ finalOrder \in Seq(Modules)
    /\ i \in Nat \ {0}
    /\ gLoadedModulesCopy \in Seq(Modules)

LEMMA TypeParts == TypeOK <=> DescInit /\ DataOK /\ FlagsOK
BY Zenon DEF TypeOK, DataOK, FlagsOK

LEMMA TypeInit == Init => TypeOK
<1> SUFFICES ASSUME Init PROVE TypeOK
    OBVIOUS
<1>1. PICK n \in 0..MaxModules : desc \in [1..n -> Catalog]
    BY DEF Init, DescInit
<1>2. gLoadedModules \in Seq(Modules)
    BY <1>1, MaxModulesAssumption DEF Init, Modules
<1>3. DataOK
    BY <1>2 DEF Init, DataOK, Reasons
<1>4. FlagsOK
    BY Zenon DEF Init, FlagsOK
<1> QED
    BY <1>3, <1>4, TypeParts DEF Init

LEMMA FlagsStep == FlagsOK /\ [Next]_vars => FlagsOK'
BY Zenon
   DEF FlagsOK, scan, Next, vars, SkipPlaced, RejectBackendImport, LeaveForLater, PlaceModule,
       NextPass, FailToResolve, ReturnOrder, MoveBackendLast, NoBackend, BaseMissing, NoReorder,
       StartReorder, CopyRegular, BaseToFront, BaseNotCopied, MoveRegular, EndReorder,
       CheckPasses, CheckFails

LEMMA DataStep == DataOK /\ [Next]_vars => DataOK'
<1> SUFFICES ASSUME DataOK, [Next]_vars PROVE DataOK'
    OBVIOUS
<1>0. Modules' = Modules
    BY DescUnchanged DEF Modules
<1> USE <1>0 DEF DataOK, Reasons, OSFatal, scan
<1>1. CASE SkipPlaced
    BY <1>1 DEF SkipPlaced
<1>2. CASE RejectBackendImport
    BY <1>2 DEF RejectBackendImport
<1>3. CASE LeaveForLater
    BY <1>3 DEF LeaveForLater
<1>4. CASE PlaceModule
    BY <1>4 DEF PlaceModule, InPass, cur
<1>5. CASE NextPass
    BY <1>5 DEF NextPass
<1>6. CASE FailToResolve
    BY <1>6 DEF FailToResolve
<1>7. CASE ReturnOrder
    BY <1>7 DEF ReturnOrder, PassOver
<1>8. CASE MoveBackendLast
    <2>1. PICK it \in DOMAIN gLoadedModules :
             gLoadedModules' = Append(RemoveAt(gLoadedModules, it), gLoadedModules[it])
        BY <1>8 DEF MoveBackendLast
    <2>2. gLoadedModules' \in Seq(Modules)
        BY <2>1, RemoveAtType
    <2> QED
        BY <1>8, <2>2 DEF MoveBackendLast
<1>9. CASE NoBackend
    BY <1>9 DEF NoBackend
<1>10. CASE BaseMissing
    BY <1>10 DEF BaseMissing
<1>11. CASE NoReorder
    BY <1>11 DEF NoReorder
<1>12. CASE StartReorder
    BY <1>12 DEF StartReorder
<1>13. CASE CopyRegular
    BY <1>13 DEF CopyRegular, cur
<1>14. CASE BaseToFront
    <2>1. PICK it \in DOMAIN gLoadedModulesCopy :
             gLoadedModulesCopy' = <<gLoadedModulesCopy[it]>> \o RemoveAt(gLoadedModulesCopy, it)
        BY <1>14 DEF BaseToFront
    <2>2. gLoadedModulesCopy' \in Seq(Modules)
        BY <2>1, RemoveAtType
    <2> QED
        BY <1>14, <2>2 DEF BaseToFront
<1>15. CASE BaseNotCopied
    BY <1>15 DEF BaseNotCopied
<1>16. CASE MoveRegular
    <2>1. PICK it \in DOMAIN gLoadedModules :
             gLoadedModules' = Append(RemoveAt(gLoadedModules, it), Head(gLoadedModulesCopy))
        BY <1>16 DEF MoveRegular
    <2>2. gLoadedModules' \in Seq(Modules)
        BY <1>16, <2>1, RemoveAtType DEF MoveRegular
    <2> QED
        BY <1>16, <2>2 DEF MoveRegular
<1>17. CASE EndReorder
    BY <1>17 DEF EndReorder
<1>18. CASE CheckPasses
    BY <1>18 DEF CheckPasses
<1>19. CASE CheckFails
    BY <1>19 DEF CheckFails
<1>20. CASE UNCHANGED vars
    BY <1>20 DEF vars
<1> QED
    BY <1>1, <1>2, <1>3, <1>4, <1>5, <1>6, <1>7, <1>8, <1>9, <1>10, <1>11, <1>12, <1>13,
       <1>14, <1>15, <1>16, <1>17, <1>18, <1>19, <1>20 DEF Next

LEMMA TypeStep == TypeOK /\ [Next]_vars => TypeOK'
<1> SUFFICES ASSUME TypeOK, [Next]_vars PROVE TypeOK'
    OBVIOUS
<1>1. DescInit'
    BY DescUnchanged, TypeParts DEF DescInit
<1>2. DataOK' /\ FlagsOK'
    BY DataStep, FlagsStep, TypeParts
<1>3. TypeOK' <=> (DescInit /\ DataOK /\ FlagsOK)'
    BY Zenon DEF TypeOK, DataOK, FlagsOK
<1> QED
    BY <1>1, <1>2, <1>3

(* Type correctness of the ordering and reordering (entry.cpp, doStart). *)
THEOREM TypeCorrect == Spec => []TypeOK
BY TypeInit, TypeStep, PTL DEF Spec
-----------------------------------------------------------------------------
(* The order. The other variables of a step that is not part of the scan do not
   matter to it: such a step leaves finalOrder alone. *)
ScanStep == SkipPlaced \/ RejectBackendImport \/ LeaveForLater \/ PlaceModule \/ NextPass
            \/ FailToResolve \/ ReturnOrder

LEMMA OtherSteps ==
    ASSUME TypeOK, Next, ~ScanStep
    PROVE  /\ finalOrder' = finalOrder
           /\ pc \notin {"order", "fatal"}
           /\ pc' # "order"
           /\ fatal' \notin {"unresolved", "backend"}
BY DEF TypeOK, ScanStep, OSFatal, scan, Next, MoveBackendLast, NoBackend, BaseMissing, NoReorder,
       StartReorder, CopyRegular, BaseToFront, BaseNotCopied, MoveRegular, EndReorder,
       CheckPasses, CheckFails

(* Appending a module whose imports are exported keeps the order. *)
LEMMA AppendInOrder ==
    ASSUME NEW s \in Seq(Modules), NEW m \in Modules, DepsFirst(s), Satisfied(m, Elements(s))
    PROVE  DepsFirst(Append(s, m))
<1> DEFINE t == Append(s, m)
<1>1. /\ t \in Seq(Modules)
      /\ Len(t) = Len(s) + 1
      /\ \A j \in 1..Len(s) : t[j] = s[j]
      /\ t[Len(s) + 1] = m
      /\ DOMAIN t = 1..(Len(s) + 1)
      /\ DOMAIN s = 1..Len(s)
      /\ Len(s) \in Nat
    OBVIOUS
<1> HIDE DEF t
<1>2. ASSUME NEW k \in DOMAIN t PROVE Satisfied(t[k], {t[j] : j \in 1..(k - 1)})
    <2>1. CASE k = Len(s) + 1
        <3>1. {t[j] : j \in 1..(k - 1)} = Elements(s)
            BY <1>1, <2>1 DEF Elements
        <3> QED
            BY <1>1, <2>1, <3>1
    <2>2. CASE k \in 1..Len(s)
        <3>1. {t[j] : j \in 1..(k - 1)} = {s[j] : j \in 1..(k - 1)}
            BY <1>1, <2>2
        <3>2. Satisfied(s[k], {s[j] : j \in 1..(k - 1)})
            BY <2>2 DEF DepsFirst
        <3> QED
            BY <1>1, <2>2, <3>1, <3>2
    <2>3. k = Len(s) + 1 \/ k \in 1..Len(s)
        BY <1>1, <1>2
    <2> QED
        BY <2>1, <2>2, <2>3, Zenon
<1> QED
    BY <1>2 DEF DepsFirst, t

LEMMA AppendElements ==
    ASSUME NEW S, NEW s \in Seq(S), NEW m \in S
    PROVE  Elements(Append(s, m)) = Elements(s) \cup {m}
<1> DEFINE t == Append(s, m)
<1>1. /\ DOMAIN t = DOMAIN s \cup {Len(s) + 1}
      /\ \A j \in DOMAIN s : t[j] = s[j]
      /\ t[Len(s) + 1] = m
    OBVIOUS
<1> HIDE DEF t
<1>2. Elements(t) = Elements(s) \cup {m}
    BY <1>1 DEF Elements
<1> QED
    BY <1>2 DEF t

LEMMA AppendDistinct ==
    ASSUME NEW S, NEW s \in Seq(S), NEW m \in S, Distinct(s), m \notin Elements(s)
    PROVE  Distinct(Append(s, m))
BY DEF Elements, Distinct

LEMMA PlacedStep == TypeOK /\ PlacedInOrder /\ [Next]_vars => PlacedInOrder'
<1> SUFFICES ASSUME TypeOK, PlacedInOrder, [Next]_vars PROVE PlacedInOrder'
    OBVIOUS
<1>1. desc' = desc
    BY DescUnchanged
<1>2. CASE PlaceModule
    <2>1. /\ finalOrder \in Seq(Modules)
          /\ cur \in Modules
          /\ cur \notin Placed
          /\ Satisfied(cur, Placed)
          /\ ~ReachesBackend(cur, Placed)
          /\ finalOrder' = Append(finalOrder, cur)
        BY <1>2 DEF PlaceModule, InPass, cur, TypeOK
    <2>2. Backend \notin Required(cur)
        BY <2>1 DEF ReachesBackend, Satisfied
    <2>3. DepsFirst(finalOrder')
        BY <2>1, AppendInOrder DEF PlacedInOrder, Placed
    <2>4. Distinct(finalOrder')
        BY <2>1, AppendDistinct DEF PlacedInOrder, Placed
    <2>5. Elements(finalOrder') = Placed \cup {cur}
        BY <2>1, AppendElements DEF Placed
    <2>6. \A m \in Elements(finalOrder') : Backend \notin Required(m)
        BY <2>2, <2>5 DEF PlacedInOrder
    <2> QED
        BY <1>1, <2>3, <2>4, <2>6
        DEF PlacedInOrder, Placed, DepsFirst, Satisfied, Required, Exports
<1>3. CASE finalOrder' = finalOrder
    BY <1>1, <1>3 DEF PlacedInOrder, Placed, DepsFirst, Satisfied, Required, Exports
<1>4. CASE ~PlaceModule /\ finalOrder' # finalOrder
    BY <1>4, OtherSteps
    DEF ScanStep, SkipPlaced, RejectBackendImport, LeaveForLater, NextPass, FailToResolve,
        ReturnOrder, scan, vars
<1> QED
    BY <1>2, <1>3, <1>4

(* No module is put in line before one it imports from (OrderModulesByDependencies). *)
THEOREM OrderRespectsImports == Spec => []PlacedInOrder
<1>1. Init => PlacedInOrder
    BY DEF Init, PlacedInOrder, Placed, Elements, DepsFirst, Distinct
<1> QED
    BY <1>1, PlacedStep, TypeCorrect, PTL DEF Spec
-----------------------------------------------------------------------------
(* The flags of a pass, and what the loop knows when it ends. *)

(* While the scan runs, the list is the files' own. *)
LEMMA FileOrder ==
    ASSUME TypeOK, gLoadedModules = [k \in Modules |-> k], i <= Len(gLoadedModules) + 1
    PROVE  /\ gLoadedModules \in Seq(Modules)
           /\ Modules = 1..Len(gLoadedModules)
           /\ Len(gLoadedModules) \in Nat
           /\ \A k \in Modules : gLoadedModules[k] = k
           /\ i \in 1..(Len(gLoadedModules) + 1)
BY DEF TypeOK, DescInit, Modules

(* The modules the pass has been past are 1 to i - 1. *)
PastFlags ==
    pc = "order" =>
        /\ gLoadedModules = [k \in Modules |-> k]
        /\ i <= Len(gLoadedModules) + 1
        /\ canBreak => \A k \in 1..(i - 1) : k \in Placed
        /\ ~weDidSomething => \A k \in 1..(i - 1) : k \notin Placed => ~Satisfied(k, Placed)
        /\ ~weDidSomething /\ ~canBreak => \E k \in 1..(i - 1) : k \notin Placed

LEMMA PastIsPrefix == TypeOK => (PassFlags <=> PastFlags)
<1> SUFFICES ASSUME TypeOK, pc = "order", gLoadedModules = [k \in Modules |-> k],
                    i <= Len(gLoadedModules) + 1
             PROVE  {gLoadedModules[k] : k \in 1..(i - 1)} = 1..(i - 1)
    BY DEF PassFlags, PastFlags
<1>1. /\ Modules = 1..Len(gLoadedModules)
      /\ Len(gLoadedModules) \in Nat
      /\ i \in 1..(Len(gLoadedModules) + 1)
    BY FileOrder
<1> QED
    BY <1>1

LEMMA PastStep == TypeOK /\ PastFlags /\ [Next]_vars => PastFlags'
<1> SUFFICES ASSUME TypeOK, PastFlags, [Next]_vars, pc' = "order" PROVE PastFlags'
    BY DEF PastFlags
<1>1. /\ pc = "order"
      /\ ScanStep \/ UNCHANGED vars
    BY OtherSteps DEF ScanStep, SkipPlaced, RejectBackendImport, LeaveForLater, PlaceModule,
       NextPass, FailToResolve, ReturnOrder, InPass, PassOver, vars
<1>2. desc' = desc /\ Modules' = Modules
    BY DescUnchanged DEF Modules
<1>3. /\ gLoadedModules \in Seq(Modules)
      /\ Modules = 1..Len(gLoadedModules)
      /\ Len(gLoadedModules) \in Nat
      /\ \A k \in Modules : gLoadedModules[k] = k
      /\ i \in 1..(Len(gLoadedModules) + 1)
    BY <1>1, FileOrder DEF PastFlags
<1>4. CASE SkipPlaced
    <2>1. cur = i /\ i \in Placed
        BY <1>3, <1>4 DEF SkipPlaced, InPass, cur
    <2> QED
        BY <1>1, <1>2, <1>3, <1>4, <2>1, SMTT(60)
        DEF SkipPlaced, InPass, PastFlags, Placed, Satisfied, Required, Exports
<1>5. CASE LeaveForLater
    <2>1. cur = i /\ ~Satisfied(i, Placed)
        BY <1>3, <1>5 DEF LeaveForLater, InPass, cur
    <2> QED
        BY <1>1, <1>2, <1>3, <1>5, <2>1
        DEF LeaveForLater, InPass, PastFlags, Placed, Satisfied, Required, Exports
<1>6. CASE PlaceModule
    BY <1>1, <1>2, <1>3, <1>6 DEF PlaceModule, InPass, PastFlags
<1>7. CASE NextPass
    BY <1>1, <1>2, <1>3, <1>7 DEF NextPass, PastFlags
<1>8. CASE UNCHANGED vars
    BY <1>1, <1>2, <1>8 DEF vars, PastFlags, Placed, Satisfied, Required, Exports
<1>9. CASE RejectBackendImport \/ FailToResolve \/ ReturnOrder
    BY <1>9 DEF RejectBackendImport, FailToResolve, ReturnOrder, OSFatal
<1> QED
    BY <1>1, <1>4, <1>5, <1>6, <1>7, <1>8, <1>9 DEF ScanStep

LEMMA PastInit == Init => PastFlags
<1> SUFFICES ASSUME Init PROVE PastFlags
    OBVIOUS
<1>1. PICK n \in 0..MaxModules : desc \in [1..n -> Catalog]
    BY DEF Init, DescInit
<1> QED
    BY <1>1, MaxModulesAssumption DEF Init, PastFlags, Modules

(* Why OrderModulesByDependencies may trust canBreak and weDidSomething. *)
THEOREM FlagsTellTheTruth == Spec => []PassFlags
<1>1. Spec => []PastFlags
    BY PastInit, PastStep, TypeCorrect, PTL DEF Spec
<1> QED
    BY <1>1, TypeCorrect, PastIsPrefix, PTL

LEMMA AllPlacedStep == TypeOK /\ PassFlags /\ AllPlaced /\ [Next]_vars => AllPlaced'
<1> SUFFICES ASSUME TypeOK, PassFlags, AllPlaced, [Next]_vars, pc' \notin {"order", "fatal"}
             PROVE  Elements(finalOrder)' = Modules'
    BY DEF AllPlaced
<1>1. Modules' = Modules
    BY DescUnchanged DEF Modules
<1>2. CASE ReturnOrder
    <2>1. /\ pc = "order"
          /\ i = Len(gLoadedModules) + 1
          /\ \A k \in 1..(i - 1) : k \in Placed
          /\ finalOrder' = finalOrder
        BY <1>2, FileOrder, PastIsPrefix DEF ReturnOrder, PassOver, PassFlags, PastFlags, scan
    <2>2. Modules \subseteq Placed
        BY <2>1, FileOrder DEF PassFlags
    <2>3. Placed \subseteq Modules
        BY DEF TypeOK, Placed, Elements
    <2> QED
        BY <1>1, <2>1, <2>2, <2>3 DEF Placed
<1>3. CASE ~ReturnOrder
    <2>1. finalOrder' = finalOrder /\ pc \notin {"order", "fatal"}
        BY <1>3, OtherSteps DEF ScanStep, SkipPlaced, RejectBackendImport, LeaveForLater,
           PlaceModule, NextPass, FailToResolve, InPass, PassOver, OSFatal, vars
    <2> QED
        BY <1>1, <2>1 DEF AllPlaced
<1> QED
    BY <1>2, <1>3

(* OrderModulesByDependencies returns every module it was given. *)
THEOREM OrderIsComplete == Spec => []AllPlaced
<1>1. Init => AllPlaced
    BY DEF Init, AllPlaced
<1> QED
    BY <1>1, AllPlacedStep, TypeCorrect, FlagsTellTheTruth, PTL DEF Spec

(* The test for imports from the backend in CheckModulesByDependencies is dead
   code: the ordering has stopped the console before. *)
THEOREM BackendImportsStopEarly == Spec => []BackendNotImported
<1>1. PlacedInOrder /\ AllPlaced => BackendNotImported
    BY DEF PlacedInOrder, AllPlaced, BackendNotImported, Placed
<1> QED
    BY <1>1, OrderRespectsImports, OrderIsComplete, PTL
-----------------------------------------------------------------------------
(* Giving up. *)

LEMMA StuckStep == TypeOK /\ PassFlags /\ UnresolvedIsStuck /\ [Next]_vars => UnresolvedIsStuck'
<1> SUFFICES ASSUME TypeOK, PassFlags, UnresolvedIsStuck, [Next]_vars, fatal' = "unresolved"
             PROVE  /\ Modules' \ Placed' # {}
                    /\ \A m \in Modules' \ Placed' : ~Satisfied(m, Placed)'
    BY DEF UnresolvedIsStuck
<1>1. desc' = desc /\ Modules' = Modules
    BY DescUnchanged DEF Modules
<1>2. CASE FailToResolve
    <2>1. /\ pc = "order"
          /\ i = Len(gLoadedModules) + 1
          /\ \A k \in 1..(i - 1) : k \notin Placed => ~Satisfied(k, Placed)
          /\ \E k \in 1..(i - 1) : k \notin Placed
          /\ finalOrder' = finalOrder
        BY <1>2, FileOrder, PastIsPrefix
        DEF FailToResolve, PassOver, PassFlags, PastFlags, scan
    <2>2. Modules = 1..(i - 1)
        BY <2>1, FileOrder DEF PassFlags
    <2> QED
        BY <1>1, <2>1, <2>2 DEF Placed, Satisfied, Required, Exports
<1>3. CASE ~FailToResolve
    <2>1. finalOrder' = finalOrder /\ fatal = "unresolved"
        BY <1>3, OtherSteps DEF TypeOK, ScanStep, SkipPlaced, RejectBackendImport, LeaveForLater,
           PlaceModule, NextPass, ReturnOrder, InPass, PassOver, OSFatal, scan, vars
    <2> QED
        BY <1>1, <2>1 DEF UnresolvedIsStuck, Placed, Satisfied, Required, Exports
<1> QED
    BY <1>2, <1>3

(* "Failed to resolve dependencies" (entry.cpp:327) is never premature. *)
THEOREM GivesUpOnlyWhenStuck == Spec => []UnresolvedIsStuck
<1>1. Init => UnresolvedIsStuck
    BY DEF Init, UnresolvedIsStuck
<1> QED
    BY <1>1, StuckStep, TypeCorrect, FlagsTellTheTruth, PTL DEF Spec

(* Any set of natural numbers that is not empty has a least element. *)
LEMMA LeastNumber ==
    ASSUME NEW T, T \subseteq Nat, T # {}
    PROVE  \E k \in T : \A j \in T : k <= j
<1> DEFINE R == {ss \in Nat \X Nat : ss[1] < ss[2]}
<1>1. IsWellFoundedOn(R, Nat)
    BY NatLessThanWellFounded DEF OpToRel
<1>2. PICK k \in T : \A j \in T : ~(<<j, k>> \in R)
    <2> HIDE DEF R
    <2> QED
        BY <1>1, WFMin
<1>3. \A j \in T : ~(j < k)
    BY <1>2
<1> QED
    BY <1>3

(* In any list of all the modules, the first one that is still waiting comes
   after modules in line only: if it has its imports there, it could have been
   placed. *)
LEMMA StuckMeansNoOrder == TypeOK /\ UnresolvedIsStuck => UnresolvedMeansNoOrder
<1> SUFFICES ASSUME TypeOK, UnresolvedIsStuck, fatal = "unresolved",
                    NEW p \in [Modules -> Modules], Elements(p) = Modules, DepsFirst(p)
             PROVE  FALSE
    BY DEF UnresolvedMeansNoOrder
<1>1. PICK n \in 0..MaxModules : desc \in [1..n -> Catalog]
    BY DEF TypeOK, DescInit
<1>2. n \in Nat /\ Modules = 1..n /\ DOMAIN p = 1..n
    BY <1>1, MaxModulesAssumption DEF Modules
<1> DEFINE T == {k \in 1..n : p[k] \notin Placed}
<1>3. T \subseteq Nat /\ T # {}
    <2>1. PICK m \in Modules : m \notin Placed
        BY DEF UnresolvedIsStuck
    <2>2. PICK k \in DOMAIN p : p[k] = m
        BY <2>1 DEF Elements
    <2>3. k \in T
        BY <1>2, <2>1, <2>2
    <2> QED
        BY <1>2, <2>3
<1>4. PICK k \in T : \A j \in T : k <= j
    <2> HIDE DEF T
    <2> QED
        BY <1>3, LeastNumber
<1>5. \A j \in 1..(k - 1) : p[j] \in Placed
    BY <1>2, <1>4
<1>6. {p[j] : j \in 1..(k - 1)} \subseteq Placed
    BY <1>5
<1>7. Satisfied(p[k], {p[j] : j \in 1..(k - 1)})
    BY <1>2 DEF DepsFirst
<1>8. Satisfied(p[k], Placed)
    BY <1>6, <1>7 DEF Satisfied, Exports
<1>9. p[k] \in Modules \ Placed
    BY <1>2
<1> QED
    BY <1>8, <1>9 DEF UnresolvedIsStuck

(* The greedy passes miss no order: they fail only if there is none. *)
THEOREM GreedyIsComplete == Spec => []UnresolvedMeansNoOrder
BY TypeCorrect, GivesUpOnlyWhenStuck, StuckMeansNoOrder, PTL

-----------------------------------------------------------------------------
(* The passes implement LoadOrder: every step of the scan that places a module
   is a Place step, the steps out of "order" are Finish, GiveUp and Reject, and
   all others leave order and status alone. *)
LEMMA RefinementInit == Init => Abstract!Init
BY DEF Init, Abstract!Init, orderStatus, DescInit, Abstract!DescInit

(* LoadOrder's operators, under the mapping, are this module's. *)
LEMMA SameOperators ==
    /\ Abstract!Modules = Modules
    /\ Abstract!Elements(finalOrder) = Placed
    /\ Abstract!Waiting = Modules \ Placed
    /\ Abstract!Backend = Backend
    /\ \A m : Abstract!Required(m) = Required(m)
    /\ \A m, S : Abstract!Satisfied(m, S) <=> Satisfied(m, S)
BY DEF Abstract!Modules, Abstract!Elements, Abstract!Waiting, Abstract!Backend,
       Abstract!Required, Abstract!Satisfied, Abstract!Exports,
       Modules, Elements, Backend, Required, Satisfied, Exports, Placed

LEMMA RefinementStep ==
    TypeOK /\ PassFlags /\ UnresolvedIsStuck' /\ [Next]_vars => [Abstract!Next]_(Abstract!vars)
<1> SUFFICES ASSUME TypeOK, PassFlags, UnresolvedIsStuck', [Next]_vars
             PROVE  Abstract!Next \/ UNCHANGED Abstract!vars
    BY DEF Abstract!vars
<1>1. desc' = desc
    BY DescUnchanged
<1>2. CASE PlaceModule
    <2>1. /\ cur \in Modules
          /\ cur \notin Placed
          /\ Satisfied(cur, Placed)
          /\ Backend \notin Required(cur)
          /\ finalOrder' = Append(finalOrder, cur)
          /\ pc = "order" /\ pc' = "order"
        BY <1>2 DEF PlaceModule, InPass, cur, TypeOK, ReachesBackend, Satisfied
    <2>2. Abstract!Place(cur)
        BY <1>1, <2>1, SameOperators DEF Abstract!Place, orderStatus
    <2> QED
        BY <2>1, <2>2, SameOperators DEF Abstract!Next
<1>3. CASE RejectBackendImport
    <2>1. /\ cur \in Modules
          /\ cur \notin Placed
          /\ Backend \in Required(cur)
          /\ finalOrder' = finalOrder
          /\ pc = "order" /\ pc' = "fatal" /\ fatal' = "backend"
        BY <1>3 DEF RejectBackendImport, InPass, cur, TypeOK, ReachesBackend, OSFatal
    <2>2. Abstract!Reject
        BY <1>1, <2>1, SameOperators DEF Abstract!Reject, orderStatus
    <2> QED
        BY <2>2 DEF Abstract!Next
<1>4. CASE FailToResolve
    <2>1. /\ finalOrder' = finalOrder
          /\ pc = "order" /\ pc' = "fatal" /\ fatal' = "unresolved"
        BY <1>4 DEF FailToResolve, PassOver, OSFatal, scan
    <2>2. /\ Modules \ Placed # {}
          /\ \A m \in Modules \ Placed : ~Satisfied(m, Placed)
        BY <1>1, <2>1
        DEF UnresolvedIsStuck, Modules, Placed, Satisfied, Required, Exports
    <2>3. Abstract!GiveUp
        BY <1>1, <2>1, <2>2, SameOperators DEF Abstract!GiveUp, orderStatus
    <2> QED
        BY <2>3 DEF Abstract!Next
<1>5. CASE ReturnOrder
    <2>1. /\ finalOrder' = finalOrder
          /\ pc = "order" /\ pc' = "backend"
          /\ i = Len(gLoadedModules) + 1
          /\ \A k \in 1..(i - 1) : k \in Placed
        BY <1>5, FileOrder, PastIsPrefix DEF ReturnOrder, PassOver, PassFlags, PastFlags, scan
    <2>2. Modules \subseteq Placed
        BY <2>1, FileOrder DEF PassFlags
    <2>3. Abstract!Finish
        BY <1>1, <2>1, <2>2, SameOperators DEF Abstract!Finish, orderStatus
    <2> QED
        BY <2>3 DEF Abstract!Next
<1>6. CASE SkipPlaced \/ LeaveForLater \/ NextPass \/ UNCHANGED vars
    BY <1>1, <1>6 DEF SkipPlaced, LeaveForLater, NextPass, vars, Abstract!vars, orderStatus
<1>7. CASE Next /\ ~ScanStep
    <2>1. orderStatus = "ordered"
        BY <1>7, OtherSteps DEF orderStatus
    <2>2. pc' # "order" /\ fatal' \notin {"unresolved", "backend"} /\ finalOrder' = finalOrder
        BY <1>7, OtherSteps
    <2>3. orderStatus' = "ordered"
        BY <2>2 DEF orderStatus
    <2> QED
        BY <1>1, <2>1, <2>2, <2>3 DEF Abstract!vars
<1> QED
    BY <1>2, <1>3, <1>4, <1>5, <1>6, <1>7 DEF ScanStep

(* The safety part of the refinement: the search starts as LoadOrder does and
   every step it takes is one of LoadOrder's, or changes nothing there. *)
THEOREM SearchImplementsOrder == Spec => Abstract!Init /\ [][Abstract!Next]_(Abstract!vars)
BY RefinementInit, RefinementStep, TypeCorrect, FlagsTellTheTruth, GivesUpOnlyWhenStuck, PTL
DEF Spec

-----------------------------------------------------------------------------
(* The moves (entry.cpp 148-203), for every catalog of descriptors and every number of
   modules: the backend to the end, then the regular modules behind the early ones, one at
   a time. What a list of modules says is who comes before whom, so each operation on a
   list is described by what it does to Precedes. *)

-----------------------------------------------------------------------------
(* Lists without doubles are strict orders of their elements. *)

LEMMA PrecedesAmong ==
    ASSUME NEW s, NEW x, NEW y, Precedes(s, x, y)
    PROVE  x \in Elements(s) /\ y \in Elements(s)
BY DEF Precedes, Elements

LEMMA PrecedesOneWay ==
    ASSUME NEW S, NEW s \in Seq(S), Distinct(s), NEW x, NEW y, Precedes(s, x, y)
    PROVE  ~Precedes(s, y, x)
<1>1. DOMAIN s \subseteq Nat
    OBVIOUS
<1> QED
    BY <1>1 DEF Precedes, Distinct

LEMMA PrecedesTotal ==
    ASSUME NEW S, NEW s \in Seq(S),
           NEW x \in Elements(s), NEW y \in Elements(s), x # y
    PROVE  Precedes(s, x, y) \/ Precedes(s, y, x)
<1>1. DOMAIN s \subseteq Nat
    OBVIOUS
<1>2. PICK j \in DOMAIN s, l \in DOMAIN s : s[j] = x /\ s[l] = y
    BY DEF Elements
<1>3. j < l \/ l < j
    BY <1>1, <1>2
<1> QED
    BY <1>2, <1>3 DEF Precedes

-----------------------------------------------------------------------------
(* What the operations on lists do to the order. *)

LEMMA RemoveAtIs ==
    ASSUME NEW S, NEW s \in Seq(S), NEW it \in DOMAIN s
    PROVE  /\ RemoveAt(s, it) \in Seq(S)
           /\ DOMAIN RemoveAt(s, it) = 1..(Len(s) - 1)
           /\ Len(RemoveAt(s, it)) = Len(s) - 1
           /\ \A j \in 1..(Len(s) - 1) :
                 RemoveAt(s, it)[j] = IF j < it THEN s[j] ELSE s[j + 1]
<1> DEFINE front == SubSeq(s, 1, it - 1)
           rest  == SubSeq(s, it + 1, Len(s))
<1>1. Len(s) \in Nat /\ it \in 1..Len(s)
    OBVIOUS
<1>2. /\ front \in Seq(S) /\ Len(front) = it - 1
      /\ \A j \in 1..(it - 1) : front[j] = s[j]
    BY <1>1
<1>3. /\ rest \in Seq(S) /\ Len(rest) = Len(s) - it
      /\ \A j \in 1..(Len(s) - it) : rest[j] = s[it + j]
    BY <1>1
<1>4. RemoveAt(s, it) = front \o rest
    BY DEF RemoveAt
<1> HIDE DEF front, rest
<1>5. /\ front \o rest \in Seq(S) /\ Len(front \o rest) = Len(s) - 1
      /\ DOMAIN (front \o rest) = 1..(Len(s) - 1)
    BY <1>1, <1>2, <1>3
<1>6. ASSUME NEW j \in 1..(Len(s) - 1)
      PROVE  (front \o rest)[j] = IF j < it THEN s[j] ELSE s[j + 1]
    <2>1. CASE j < it
        BY <1>1, <1>2, <1>3, <2>1
    <2>2. CASE ~(j < it)
        <3>1. (front \o rest)[j] = rest[j - Len(front)]
            BY <1>1, <1>2, <1>3, <2>2, SMTT(60)
        <3>2. j - Len(front) \in 1..(Len(s) - it) /\ it + (j - Len(front)) = j + 1
            BY <1>1, <1>2, <2>2
        <3> QED
            BY <1>3, <2>2, <3>1, <3>2
    <2> QED
        BY <2>1, <2>2
<1> QED
    BY <1>4, <1>5, <1>6

(* Erasing an element of a list without doubles leaves the order of the others. *)
LEMMA RemoveAtOrder ==
    ASSUME NEW S, NEW s \in Seq(S), Distinct(s), NEW it \in DOMAIN s
    PROVE  /\ Distinct(RemoveAt(s, it))
           /\ Elements(RemoveAt(s, it)) = Elements(s) \ {s[it]}
           /\ \A x, y : Precedes(RemoveAt(s, it), x, y) <=>
                            x # s[it] /\ y # s[it] /\ Precedes(s, x, y)
<1> DEFINE t == RemoveAt(s, it)
           From(j) == IF j < it THEN j ELSE j + 1
           To(j) == IF j < it THEN j ELSE j - 1
<1>0. /\ DOMAIN s = 1..Len(s) /\ Len(s) \in Nat /\ it \in 1..Len(s)
      /\ DOMAIN t = 1..(Len(s) - 1)
      /\ \A j \in 1..(Len(s) - 1) : t[j] = IF j < it THEN s[j] ELSE s[j + 1]
    <2>1. DOMAIN s = 1..Len(s) /\ Len(s) \in Nat /\ it \in 1..Len(s)
        OBVIOUS
    <2> HIDE DEF t
    <2>2. /\ DOMAIN t = 1..(Len(s) - 1)
          /\ \A j \in 1..(Len(s) - 1) : t[j] = IF j < it THEN s[j] ELSE s[j + 1]
        BY RemoveAtIs DEF t
    <2> QED
        BY <2>1, <2>2
<1> HIDE DEF t
<1>1. /\ DOMAIN t = 1..(Len(s) - 1) /\ DOMAIN s = 1..Len(s) /\ Len(s) \in Nat
      /\ \A j \in DOMAIN t : t[j] = s[From(j)] /\ From(j) \in DOMAIN s \ {it}
      /\ it \in 1..Len(s)
    BY <1>0
<1>2. \A j \in DOMAIN s \ {it} : To(j) \in DOMAIN t /\ From(To(j)) = j
    BY <1>1
<1>3. \A j, l \in DOMAIN t : j < l <=> From(j) < From(l)
    BY <1>1
<1>4. \A j, l \in DOMAIN s \ {it} : j < l => To(j) < To(l)
    BY <1>1
<1>5. \A j, l \in DOMAIN t : From(j) = From(l) => j = l
    BY <1>1
<1>6. \A j \in DOMAIN s \ {it} : t[To(j)] = s[j]
    BY <1>1, <1>2
<1> HIDE DEF From, To
<1>7. Distinct(t)
    BY <1>1, <1>5 DEF Distinct
<1>8. \A j \in DOMAIN s \ {it} : s[j] # s[it]
    BY DEF Distinct
<1>9. Elements(t) = Elements(s) \ {s[it]}
    BY <1>1, <1>2, <1>6, <1>8 DEF Elements
<1>10. ASSUME NEW x, NEW y, Precedes(t, x, y)
       PROVE  x # s[it] /\ y # s[it] /\ Precedes(s, x, y)
    <2>1. PICK j, l \in DOMAIN t : j < l /\ t[j] = x /\ t[l] = y
        BY <1>10 DEF Precedes
    <2> QED
        BY <1>1, <1>3, <1>8, <2>1 DEF Precedes
<1>11. ASSUME NEW x, NEW y, x # s[it], y # s[it], Precedes(s, x, y)
       PROVE  Precedes(t, x, y)
    <2>1. PICK j, l \in DOMAIN s : j < l /\ s[j] = x /\ s[l] = y
        BY <1>11 DEF Precedes
    <2> QED
        BY <1>2, <1>4, <1>6, <1>11, <2>1 DEF Precedes
<1> QED
    BY <1>7, <1>9, <1>10, <1>11 DEF t

LEMMA AppendOrder ==
    ASSUME NEW S, NEW s \in Seq(S), NEW m \in S
    PROVE  \A x, y : Precedes(Append(s, m), x, y) <=>
                         Precedes(s, x, y) \/ (x \in Elements(s) /\ y = m)
<1> DEFINE t == Append(s, m)
<1>1. /\ DOMAIN s = 1..Len(s) /\ Len(s) \in Nat /\ DOMAIN t = 1..(Len(s) + 1)
      /\ \A j \in DOMAIN s : t[j] = s[j]
      /\ t[Len(s) + 1] = m
    OBVIOUS
<1> HIDE DEF t
<1>2. ASSUME NEW x, NEW y, Precedes(t, x, y)
      PROVE  Precedes(s, x, y) \/ (x \in Elements(s) /\ y = m)
    <2>1. PICK j, l \in DOMAIN t : j < l /\ t[j] = x /\ t[l] = y
        BY <1>2 DEF Precedes
    <2>2. j \in DOMAIN s /\ (l \in DOMAIN s \/ l = Len(s) + 1)
        BY <1>1, <2>1
    <2> QED
        BY <1>1, <2>1, <2>2 DEF Precedes, Elements
<1>3. ASSUME NEW x, NEW y, Precedes(s, x, y)
      PROVE  Precedes(t, x, y)
    BY <1>1, <1>3 DEF Precedes
<1>4. ASSUME NEW x \in Elements(s) PROVE Precedes(t, x, m)
    <2>1. PICK j \in DOMAIN s : s[j] = x
        BY DEF Elements
    <2> QED
        BY <1>1, <2>1 DEF Precedes
<1> QED
    BY <1>2, <1>3, <1>4 DEF t

ToEnd(s, it)   == Append(RemoveAt(s, it), s[it])
ToFront(s, it) == Cons(s[it], RemoveAt(s, it))

(* An element moved to the end comes after all others, which keep their order. *)
LEMMA MovedToEnd ==
    ASSUME NEW S, NEW s \in Seq(S), Distinct(s), NEW it \in DOMAIN s,
           NEW t, t = ToEnd(s, it)
    PROVE  /\ t \in Seq(S) /\ Distinct(t) /\ Elements(t) = Elements(s)
           /\ t[Len(t)] = s[it]
           /\ \A x, y : Precedes(t, x, y) <=>
                           \/ x \in Elements(s) \ {s[it]} /\ y = s[it]
                           \/ x # s[it] /\ y # s[it] /\ Precedes(s, x, y)
<1> DEFINE u == RemoveAt(s, it)
<1>1. u \in Seq(S) /\ s[it] \in S /\ s[it] \in Elements(s)
    BY RemoveAtIs DEF Elements
<1>2. /\ Distinct(u) /\ Elements(u) = Elements(s) \ {s[it]}
      /\ \A x, y : Precedes(u, x, y) <=> x # s[it] /\ y # s[it] /\ Precedes(s, x, y)
    BY RemoveAtOrder
<1> HIDE DEF u
<1>3. t = Append(u, s[it])
    BY DEF u, ToEnd
<1>4. Distinct(t) /\ Elements(t) = Elements(u) \cup {s[it]}
    BY <1>1, <1>2, <1>3, AppendDistinct, AppendElements
<1>5. \A x, y : Precedes(t, x, y) <=> Precedes(u, x, y) \/ (x \in Elements(u) /\ y = s[it])
    BY <1>1, <1>3, AppendOrder
<1>6. t \in Seq(S) /\ t[Len(t)] = s[it]
    BY <1>1, <1>3
<1> QED
    BY <1>1, <1>2, <1>4, <1>5, <1>6

LEMMA PrependIs ==
    ASSUME NEW S, NEW u \in Seq(S), NEW b \in S
    PROVE  Cons(b, u) \in Seq(S) /\ Len(Cons(b, u)) = Len(u) + 1
BY DEF Cons

LEMMA PrependAt ==
    ASSUME NEW S, NEW u \in Seq(S), NEW b \in S
    PROVE  Cons(b, u)[1] = b /\ \A j \in DOMAIN u : Cons(b, u)[j + 1] = u[j]
BY DEF Cons

LEMMA PrependOrder ==
    ASSUME NEW S, NEW u \in Seq(S), NEW b \in S, Distinct(u), b \notin Elements(u)
    PROVE  /\ Distinct(Cons(b, u))
           /\ Elements(Cons(b, u)) = Elements(u) \cup {b}
           /\ \A x, y : Precedes(Cons(b, u), x, y) <=>
                            Precedes(u, x, y) \/ (x = b /\ y \in Elements(u))
<1> DEFINE t == Cons(b, u)
<1>1. t \in Seq(S) /\ Len(t) = Len(u) + 1
    BY PrependIs
<1>2. t[1] = b /\ \A j \in DOMAIN u : t[j + 1] = u[j]
    BY PrependAt
<1> HIDE DEF t
<1>3. DOMAIN u = 1..Len(u) /\ Len(u) \in Nat
    OBVIOUS
<1>4. /\ DOMAIN u = 1..Len(u) /\ Len(u) \in Nat /\ DOMAIN t = 1..(Len(u) + 1)
      /\ t[1] = b
      /\ \A j \in DOMAIN u : t[j + 1] = u[j]
    BY <1>1, <1>2, <1>3
<1>5. \A j \in DOMAIN t : j = 1 \/ (j - 1 \in DOMAIN u /\ t[j] = u[j - 1])
    <2> SUFFICES ASSUME NEW j \in DOMAIN t, j # 1 PROVE j - 1 \in DOMAIN u /\ t[j] = u[j - 1]
        OBVIOUS
    <2>1. j - 1 \in DOMAIN u /\ (j - 1) + 1 = j
        BY <1>4
    <2> QED
        BY <1>4, <2>1
<1>6. \A j \in DOMAIN u : u[j] # b
    BY DEF Elements
<1>7. Distinct(t)
    BY <1>4, <1>5, <1>6 DEF Distinct
<1>8. Elements(t) = Elements(u) \cup {b}
    <2>1. \A j \in DOMAIN u : j + 1 \in DOMAIN t
        BY <1>4
    <2>2. 1 \in DOMAIN t
        BY <1>4
    <2> DEFINE all == Elements(u) \cup {b}
    <2>3. \A j \in DOMAIN t : t[j] \in all
        BY <1>4, <1>5 DEF Elements
    <2>4. \A x \in all : \E j \in DOMAIN t : t[j] = x
        BY <1>4, <2>1, <2>2 DEF Elements
    <2> HIDE DEF all
    <2>5. Elements(t) = all
        BY <2>3, <2>4 DEF Elements
    <2> QED
        BY <2>5 DEF all
<1>9. ASSUME NEW x, NEW y, Precedes(t, x, y)
      PROVE  (x = b /\ y \in Elements(u)) \/ Precedes(u, x, y)
    <2>1. PICK j, l \in DOMAIN t : j < l /\ t[j] = x /\ t[l] = y
        BY <1>9 DEF Precedes
    <2>2. l - 1 \in DOMAIN u /\ u[l - 1] = y
        BY <1>4, <1>5, <2>1
    <2>3. y \in Elements(u)
        BY <2>2 DEF Elements
    <2>4. CASE j = 1
        BY <1>4, <2>1, <2>3, <2>4
    <2>5. CASE j # 1
        <3>1. j - 1 \in DOMAIN u /\ u[j - 1] = x /\ j - 1 < l - 1
            BY <1>4, <1>5, <2>1, <2>5
        <3> QED
            BY <2>2, <3>1 DEF Precedes
    <2> QED
        BY <2>4, <2>5
<1>10. ASSUME NEW x, NEW y, Precedes(u, x, y) PROVE Precedes(t, x, y)
    <2>1. PICK j, l \in DOMAIN u : j < l /\ u[j] = x /\ u[l] = y
        BY <1>10 DEF Precedes
    <2>2. j + 1 \in DOMAIN t /\ l + 1 \in DOMAIN t /\ j + 1 < l + 1
        BY <1>4, <2>1
    <2> QED
        BY <1>4, <2>1, <2>2 DEF Precedes
<1>11. ASSUME NEW y \in Elements(u) PROVE Precedes(t, b, y)
    <2>1. PICK l \in DOMAIN u : u[l] = y
        BY DEF Elements
    <2>2. 1 \in DOMAIN t /\ l + 1 \in DOMAIN t /\ 1 < l + 1
        BY <1>4, <2>1
    <2> QED
        BY <1>4, <2>1, <2>2 DEF Precedes
<1> QED
    BY <1>7, <1>8, <1>9, <1>10, <1>11 DEF t

(* An element moved to the front comes before all others, which keep their order. *)
LEMMA MovedToFront ==
    ASSUME NEW S, NEW s \in Seq(S), Distinct(s), NEW it \in DOMAIN s,
           NEW t, t = ToFront(s, it)
    PROVE  /\ t \in Seq(S) /\ Distinct(t) /\ Elements(t) = Elements(s)
           /\ t # << >> /\ Head(t) = s[it]
           /\ \A x, y : Precedes(t, x, y) <=>
                           \/ x = s[it] /\ y \in Elements(s) \ {s[it]}
                           \/ x # s[it] /\ y # s[it] /\ Precedes(s, x, y)
<1>1. PICK u, b : u = RemoveAt(s, it) /\ b = s[it] /\ t = Cons(b, u)
    BY DEF ToFront
<1>2. u \in Seq(S) /\ b \in S /\ b \in Elements(s)
    BY <1>1, RemoveAtIs DEF Elements
<1>3. /\ Distinct(u) /\ Elements(u) = Elements(s) \ {b}
      /\ \A x, y : Precedes(u, x, y) <=> x # b /\ y # b /\ Precedes(s, x, y)
    BY <1>1, RemoveAtOrder
<1>4. b \notin Elements(u)
    BY <1>3
<1>5. /\ Distinct(Cons(b, u))
      /\ Elements(Cons(b, u)) = Elements(u) \cup {b}
      /\ \A x, y : Precedes(Cons(b, u), x, y) <=>
                       Precedes(u, x, y) \/ (x = b /\ y \in Elements(u))
    BY <1>2, <1>3, <1>4, PrependOrder
<1>6. t \in Seq(S) /\ t # << >> /\ Head(t) = b
    <2>1. Cons(b, u) \in Seq(S) /\ Len(Cons(b, u)) = Len(u) + 1
        BY <1>2, PrependIs
    <2>2. Cons(b, u)[1] = b
        BY <1>2, PrependAt
    <2>3. Len(u) \in Nat
        BY <1>2
    <2>4. t \in Seq(S) /\ Len(t) = Len(u) + 1 /\ t[1] = b
        BY <1>1, <2>1, <2>2
    <2> QED
        BY <2>3, <2>4
<1>7. \A x, y : Precedes(t, x, y) <=> Precedes(u, x, y) \/ (x = b /\ y \in Elements(u))
    BY <1>1, <1>5
<1>8. Distinct(t) /\ Elements(t) = Elements(s)
    <2>1. (Elements(s) \ {b}) \cup {b} = Elements(s)
        BY <1>2
    <2> QED
        BY <1>1, <1>3, <1>5, <2>1
<1>9. \A x, y : Precedes(t, x, y) <=> \/ x = b /\ y \in Elements(s) \ {b}
                                      \/ x # b /\ y # b /\ Precedes(s, x, y)
    BY <1>3, <1>7
<1> QED
    BY <1>1, <1>6, <1>8, <1>9

(* The head of a list is before all others; without it they keep their order. *)
LEMMA TailOrder ==
    ASSUME NEW S, NEW s \in Seq(S), Distinct(s), s # << >>
    PROVE  /\ Head(s) \in Elements(s)
           /\ Tail(s) \in Seq(S) /\ Distinct(Tail(s))
           /\ Elements(Tail(s)) = Elements(s) \ {Head(s)}
           /\ \A x, y : Precedes(Tail(s), x, y) <=> x # Head(s) /\ Precedes(s, x, y)
           /\ \A y \in Elements(s) \ {Head(s)} : Precedes(s, Head(s), y)
<1> DEFINE t == Tail(s)
           h == Head(s)
<1>1. /\ DOMAIN s = 1..Len(s) /\ Len(s) \in Nat \ {0} /\ s[1] = h
      /\ t \in Seq(S) /\ DOMAIN t = 1..(Len(s) - 1)
      /\ \A j \in DOMAIN t : t[j] = s[j + 1]
    OBVIOUS
<1> HIDE DEF t, h
<1>2. \A j \in DOMAIN t : j + 1 \in DOMAIN s \ {1}
    BY <1>1
<1>3. \A j \in DOMAIN s \ {1} : j - 1 \in DOMAIN t /\ t[j - 1] = s[j]
    BY <1>1
<1>4. 1 \in DOMAIN s /\ \A j \in DOMAIN s \ {1} : s[j] # h /\ 1 < j
    BY <1>1 DEF Distinct
<1>5. h \in Elements(s)
    BY <1>1, <1>4 DEF Elements
<1>6. Distinct(t)
    <2> SUFFICES ASSUME NEW j \in DOMAIN t, NEW l \in DOMAIN t, t[j] = t[l] PROVE j = l
        BY DEF Distinct
    <2>1. j + 1 = l + 1
        BY <1>1, <1>2 DEF Distinct
    <2> QED
        BY <1>1, <2>1
<1>7. Elements(t) = Elements(s) \ {h}
    BY <1>1, <1>2, <1>3, <1>4 DEF Elements
<1>8. ASSUME NEW x, NEW y, Precedes(t, x, y) PROVE x # h /\ Precedes(s, x, y)
    <2>1. PICK j, l \in DOMAIN t : j < l /\ t[j] = x /\ t[l] = y
        BY <1>8 DEF Precedes
    <2>2. j + 1 < l + 1
        BY <1>1, <2>1
    <2> QED
        BY <1>1, <1>2, <1>4, <2>1, <2>2 DEF Precedes
<1>9. ASSUME NEW x, NEW y, x # h, Precedes(s, x, y) PROVE Precedes(t, x, y)
    <2>1. PICK j, l \in DOMAIN s : j < l /\ s[j] = x /\ s[l] = y
        BY <1>9 DEF Precedes
    <2>2. j # 1 /\ l # 1 /\ j - 1 < l - 1
        BY <1>1, <1>9, <2>1
    <2> QED
        BY <1>3, <2>1, <2>2 DEF Precedes
<1>10. ASSUME NEW y \in Elements(s) \ {h} PROVE Precedes(s, h, y)
    <2>1. PICK j \in DOMAIN s : s[j] = y
        BY DEF Elements
    <2> QED
        BY <1>1, <1>4, <2>1 DEF Precedes
<1> QED
    BY <1>1, <1>5, <1>6, <1>7, <1>8, <1>9, <1>10 DEF t, h

(* The first module of a name comes before the others of that name. *)
LEMMA FirstNamedLeads ==
    ASSUME NEW S, NEW s \in Seq(S), NEW it \in DOMAIN s, NEW name,
           IsFirstNamed(s, it, name),
           NEW y \in Elements(s) \ {s[it]}, desc[y].name = name
    PROVE  Precedes(s, s[it], y)
<1>1. PICK j \in DOMAIN s : s[j] = y
    BY DEF Elements
<1>2. j \in Nat /\ it \in Nat /\ j # it /\ j >= 1
    BY <1>1
<1>3. ~(j < it)
    BY <1>1, <1>2 DEF IsFirstNamed
<1> QED
    BY <1>1, <1>2, <1>3 DEF Precedes

-----------------------------------------------------------------------------
(* What is true between the moves. *)

(* All the modules, each once. *)
Whole(s) == Distinct(s) /\ Elements(s) = Modules

(* The module named as the backend, if there is just one. *)
OnlyBackend(m) ==
    desc[m].name = Backend /\ \A n \in Modules \ {m} : desc[n].name # Backend

(* The pairs that none of the moves turns round. *)
Keeps(n, m) ==
    /\ Regular(n) = Regular(m)
    /\ desc[n].name # Backend
    /\ Regular(n) => Base \notin {desc[n].name, desc[m].name}

(* Only the backend has moved. *)
BackendMoved ==
    /\ Whole(gLoadedModules)
    /\ \A n, m \in Modules :
          desc[n].name # Backend /\ Precedes(finalOrder, n, m) => Precedes(gLoadedModules, n, m)
    /\ \A m \in Modules : OnlyBackend(m) => gLoadedModules[Len(gLoadedModules)] = m

(* The regular modules up to i, in their order. *)
Copied ==
    /\ i <= Len(gLoadedModules) + 1
    /\ Distinct(gLoadedModulesCopy)
    /\ \A x \in Modules : x \in Elements(gLoadedModulesCopy) <=>
                             \E j \in 1..(i - 1) : gLoadedModules[j] = x /\ Regular(x)
    /\ \A x, y \in Modules : Precedes(gLoadedModulesCopy, x, y) => Precedes(gLoadedModules, x, y)

(* The regular modules still to be moved, and those that are where they stay. *)
Waiting == Elements(gLoadedModulesCopy)
Moved   == {m \in Modules : Regular(m)} \ Waiting

(* The regular modules still wait in the order they will have, and those moved are behind
   all others. Of one name the first in either list is the same: the one that the removal
   by name finds. *)
WaitingInOrder ==
    /\ Whole(gLoadedModules)
    /\ Distinct(gLoadedModulesCopy)
    /\ \A m \in Waiting : m \in Modules /\ Regular(m)
    /\ \A x \in Modules \ Moved, y \in Moved : Precedes(gLoadedModules, x, y)
    /\ \A x, y \in Waiting :
          desc[x].name = desc[y].name /\ Precedes(gLoadedModulesCopy, x, y)
              => Precedes(gLoadedModules, x, y)

(* The dependency order is kept among those that do not wait, and among those that do,
   and those that wait come after those that were moved. *)
OrderKept ==
    /\ \A n, m \in Modules \ Waiting :
          Keeps(n, m) /\ Precedes(finalOrder, n, m) => Precedes(gLoadedModules, n, m)
    /\ \A n, m \in Waiting :
          Keeps(n, m) /\ Precedes(finalOrder, n, m) => Precedes(gLoadedModulesCopy, n, m)
    /\ \A n \in Waiting, m \in Moved : Keeps(n, m) => ~Precedes(finalOrder, n, m)

(* A regular base module is moved first, and then leads those that were moved. *)
BaseAhead ==
    (\E m \in Modules : Regular(m) /\ desc[m].name = Base) =>
        \E b \in Modules :
            /\ Regular(b) /\ desc[b].name = Base
            /\ \/ Moved = {} /\ gLoadedModulesCopy # << >> /\ b = Head(gLoadedModulesCopy)
               \/ b \in Moved /\ \A n \in Moved \ {b} : Precedes(gLoadedModules, b, n)

(* A regular backend is the last to be moved. *)
BackendBehind ==
    \A m \in Modules : OnlyBackend(m) /\ Regular(m) =>
        IF m \in Waiting THEN \A n \in Waiting \ {m} : Precedes(gLoadedModulesCopy, n, m)
        ELSE Waiting = {} /\ gLoadedModules[Len(gLoadedModules)] = m

Moving == WaitingInOrder /\ OrderKept /\ BaseAhead /\ BackendBehind

(* After the last move. *)
Reordered ==
    /\ Whole(gLoadedModules)
    /\ EarlyFirst(gLoadedModules)
    /\ BaseLeads(gLoadedModules)
    /\ \A n, m \in Modules :
          Keeps(n, m) /\ Precedes(finalOrder, n, m) => Precedes(gLoadedModules, n, m)
    /\ \A m \in Modules : OnlyBackend(m) /\ Regular(m) => gLoadedModules[Len(gLoadedModules)] = m

BaseThere == Base \in Exports(Modules)

Moves ==
    /\ pc \in {"order", "backend", "base"} => gLoadedModulesCopy = << >>
    /\ pc = "backend" => gLoadedModules = finalOrder
    /\ pc \in {"base", "copy"} => BackendMoved
    /\ pc = "copy" => BaseThere /\ Copied
    /\ pc = "move" => BaseThere /\ (NamesAgree => Moving)
    /\ Ordered /\ BaseThere /\ NamesAgree => Reordered
    /\ Ordered /\ ~BaseThere => BackendMoved

-----------------------------------------------------------------------------
(* Each step keeps it. First what does not change. *)

LEMMA MovesInit == Init => Moves
BY DEF Init, Moves, Ordered

(* The order the passes found has all the modules. *)
LEMMA FoundWhole ==
    ASSUME PlacedInOrder, AllPlaced, pc \notin {"order", "fatal"}
    PROVE  Whole(finalOrder)
BY DEF PlacedInOrder, AllPlaced, Whole, Placed

LEMMA SameNames ==
    ASSUME desc' = desc
    PROVE  /\ Modules' = Modules
           /\ NamesAgree' <=> NamesAgree
           /\ BaseThere' <=> BaseThere
           /\ \A m : Regular(m)' <=> Regular(m)
           /\ \A m : OnlyBackend(m)' <=> OnlyBackend(m)
           /\ \A n, m : Keeps(n, m)' <=> Keeps(n, m)
BY DEF Modules, NamesAgree, BaseThere, Exports, Regular, OnlyBackend, Keeps

LEMMA SameBackendMoved ==
    ASSUME desc' = desc, gLoadedModules' = gLoadedModules, finalOrder' = finalOrder,
           BackendMoved
    PROVE  BackendMoved'
BY SameNames DEF BackendMoved, Whole

(* The base module is found by name in the whole list. *)
LEMMA BaseIsThere ==
    ASSUME Whole(gLoadedModules)
    PROVE  aromaBaseModuleLoaded <=> BaseThere
BY DEF Whole, aromaBaseModuleLoaded, HasName, BaseThere

-----------------------------------------------------------------------------
(* The backend. *)

LEMMA MoveBackendLastMoves ==
    ASSUME TypeOK, PlacedInOrder, AllPlaced, Moves, MoveBackendLast
    PROVE  Moves'
<1>1. /\ pc = "backend" /\ pc' = "base" /\ desc' = desc /\ finalOrder' = finalOrder
      /\ gLoadedModulesCopy' = << >> /\ gLoadedModules = finalOrder
      /\ gLoadedModules \in Seq(Modules)
    BY DEF MoveBackendLast, scan, Moves, TypeOK
<1>2. Whole(gLoadedModules)
    BY <1>1, FoundWhole
<1>3. PICK it \in DOMAIN gLoadedModules :
          /\ IsFirstNamed(gLoadedModules, it, Backend)
          /\ gLoadedModules' = Append(RemoveAt(gLoadedModules, it), gLoadedModules[it])
    BY DEF MoveBackendLast
<1>4. PICK b : b = gLoadedModules[it]
    OBVIOUS
<1>5. b \in Modules /\ desc[b].name = Backend
    BY <1>1, <1>3, <1>4 DEF IsFirstNamed
<1>6. /\ Distinct(gLoadedModules')
      /\ Elements(gLoadedModules') = Elements(gLoadedModules)
      /\ gLoadedModules'[Len(gLoadedModules')] = b
      /\ \A x, y : Precedes(gLoadedModules', x, y) <=>
                      \/ x \in Elements(gLoadedModules) \ {b} /\ y = b
                      \/ x # b /\ y # b /\ Precedes(gLoadedModules, x, y)
    <2>1. gLoadedModules' = ToEnd(gLoadedModules, it)
        BY <1>3 DEF ToEnd
    <2>2. gLoadedModules \in Seq(Modules) /\ Distinct(gLoadedModules)
        BY <1>1, <1>2 DEF Whole
    <2> QED
        BY <1>4, <2>1, <2>2, MovedToEnd
<1>7. Whole(gLoadedModules)'
    BY <1>1, <1>2, <1>6, SameNames DEF Whole
<1>8. ASSUME NEW n \in Modules, NEW m \in Modules, desc[n].name # Backend,
             Precedes(finalOrder, n, m)
      PROVE  Precedes(gLoadedModules', n, m)
    BY <1>1, <1>2, <1>5, <1>6, <1>8 DEF Whole
<1>9. ASSUME NEW m \in Modules, OnlyBackend(m) PROVE m = b
    BY <1>5, <1>9 DEF OnlyBackend
<1>10. BackendMoved'
    BY <1>1, <1>6, <1>7, <1>8, <1>9, SameNames DEF BackendMoved
<1> QED
    BY <1>1, <1>10 DEF Moves, Ordered

LEMMA NoBackendMoves ==
    ASSUME TypeOK, PlacedInOrder, AllPlaced, Moves, NoBackend
    PROVE  Moves'
<1>1. /\ pc = "backend" /\ pc' = "base" /\ desc' = desc /\ finalOrder' = finalOrder
      /\ gLoadedModulesCopy' = << >> /\ gLoadedModules' = finalOrder
      /\ gLoadedModules' = gLoadedModules
    BY DEF NoBackend, scan, Moves
<1>2. Whole(gLoadedModules)
    BY <1>1, FoundWhole
<1>3. \A m \in Modules : ~OnlyBackend(m)
    BY <1>2 DEF NoBackend, HasName, Exports, Whole, OnlyBackend
<1>4. BackendMoved
    BY <1>1, <1>2, <1>3 DEF BackendMoved
<1> QED
    BY <1>1, <1>4, SameBackendMoved DEF Moves, Ordered

-----------------------------------------------------------------------------
(* The regular modules are listed, and a base module among them is put in front. *)

LEMMA StartReorderMoves ==
    ASSUME TypeOK, Moves, StartReorder
    PROVE  Moves'
<1>1. /\ pc = "base" /\ pc' = "copy" /\ desc' = desc /\ finalOrder' = finalOrder
      /\ gLoadedModulesCopy' = << >> /\ gLoadedModules' = gLoadedModules /\ i' = 1
      /\ gLoadedModules \in Seq(Modules)
    BY DEF StartReorder, Moves, TypeOK
<1>2. BackendMoved /\ BackendMoved'
    BY <1>1, SameBackendMoved DEF Moves
<1>3. BaseThere'
    BY <1>1, <1>2, BaseIsThere, SameNames DEF BackendMoved, StartReorder
<1>4. Elements(<< >>) = {} /\ \A x, y : ~Precedes(<< >>, x, y)
    BY DEF Elements, Precedes
<1>5. Copied'
    BY <1>1, <1>4 DEF Copied, Distinct
<1> QED
    BY <1>1, <1>2, <1>3, <1>5 DEF Moves, Ordered

LEMMA CopyRegularMoves ==
    ASSUME TypeOK, Moves, CopyRegular
    PROVE  Moves'
<1>1. /\ pc = "copy" /\ pc' = "copy" /\ desc' = desc /\ finalOrder' = finalOrder
      /\ gLoadedModules' = gLoadedModules /\ i' = i + 1 /\ i <= Len(gLoadedModules)
      /\ i \in Nat \ {0}
      /\ gLoadedModules \in Seq(Modules) /\ gLoadedModulesCopy \in Seq(Modules)
      /\ gLoadedModulesCopy' = IF Regular(cur) THEN Append(gLoadedModulesCopy, cur)
                               ELSE gLoadedModulesCopy
    BY DEF CopyRegular, TypeOK
<1>2. BackendMoved /\ BackendMoved' /\ BaseThere' /\ Copied
    BY <1>1, SameBackendMoved, SameNames DEF Moves
<1>3. i \in DOMAIN gLoadedModules /\ cur \in Modules /\ gLoadedModules[i] = cur
    BY <1>1 DEF cur
<1>4. 1..(i' - 1) = 1..(i - 1) \cup {i} /\ i' <= Len(gLoadedModules') + 1
    BY <1>1
<1>5. CASE ~Regular(cur)
    BY <1>1, <1>2, <1>3, <1>4, <1>5, SameNames DEF Moves, Ordered, Copied
<1>6. CASE Regular(cur)
    <2>1. gLoadedModulesCopy' = Append(gLoadedModulesCopy, cur)
        BY <1>1, <1>6
    <2>2. cur \notin Elements(gLoadedModulesCopy)
        <3> SUFFICES ASSUME cur \in Elements(gLoadedModulesCopy) PROVE FALSE
            OBVIOUS
        <3>1. PICK j \in 1..(i - 1) : gLoadedModules[j] = cur
            BY <1>2, <1>3 DEF Copied
        <3>2. j \in DOMAIN gLoadedModules /\ j # i
            BY <1>1, <3>1
        <3> QED
            BY <1>2, <1>3, <3>1, <3>2 DEF BackendMoved, Whole, Distinct
    <2>3. /\ Distinct(gLoadedModulesCopy')
          /\ Elements(gLoadedModulesCopy') = Elements(gLoadedModulesCopy) \cup {cur}
          /\ \A x, y : Precedes(gLoadedModulesCopy', x, y) <=>
                          \/ Precedes(gLoadedModulesCopy, x, y)
                          \/ x \in Elements(gLoadedModulesCopy) /\ y = cur
        BY <1>1, <1>2, <1>3, <2>1, <2>2, AppendDistinct, AppendElements, AppendOrder DEF Copied
    <2>4. \A x \in Modules : x \in Elements(gLoadedModulesCopy') <=>
                                \E j \in 1..(i' - 1) : gLoadedModules[j] = x /\ Regular(x)
        BY <1>2, <1>3, <1>4, <1>6, <2>3 DEF Copied
    <2>5. ASSUME NEW x \in Modules, x \in Elements(gLoadedModulesCopy)
          PROVE  Precedes(gLoadedModules, x, cur)
        <3>1. PICK j \in 1..(i - 1) : gLoadedModules[j] = x
            BY <1>2, <2>5 DEF Copied
        <3>2. j \in DOMAIN gLoadedModules /\ j < i
            BY <1>1, <3>1
        <3> QED
            BY <1>3, <3>1, <3>2 DEF Precedes
    <2>6. \A x, y \in Modules : Precedes(gLoadedModulesCopy', x, y) => Precedes(gLoadedModules, x, y)
        BY <1>2, <2>3, <2>5 DEF Copied
    <2>7. Copied'
        BY <1>1, <1>4, <2>3, <2>4, <2>6, SameNames DEF Copied
    <2> QED
        BY <1>1, <1>2, <2>7 DEF Moves, Ordered
<1> QED
    BY <1>5, <1>6

(* All the regular modules are copied, in their order. *)
LEMMA CopyIsWhole ==
    ASSUME TypeOK, BackendMoved, Copied, i > Len(gLoadedModules)
    PROVE  /\ Waiting = {m \in Modules : Regular(m)}
           /\ \A x, y \in Waiting : x # y /\ Precedes(gLoadedModules, x, y)
                                       => Precedes(gLoadedModulesCopy, x, y)
<1>1. /\ gLoadedModules \in Seq(Modules) /\ gLoadedModulesCopy \in Seq(Modules)
      /\ 1..(i - 1) = DOMAIN gLoadedModules
    BY DEF TypeOK, Copied
<1>2. \A x \in Modules : \E j \in 1..(i - 1) : gLoadedModules[j] = x
    BY <1>1 DEF BackendMoved, Whole, Elements
<1>3. Waiting \subseteq Modules
    BY <1>1 DEF Waiting, Elements
<1>4. Waiting = {m \in Modules : Regular(m)}
    BY <1>2, <1>3 DEF Copied, Waiting
<1>5. ASSUME NEW x \in Waiting, NEW y \in Waiting, x # y, Precedes(gLoadedModules, x, y)
      PROVE  Precedes(gLoadedModulesCopy, x, y)
    <2>1. ~Precedes(gLoadedModules, y, x)
        BY <1>1, <1>5, PrecedesOneWay DEF BackendMoved, Whole
    <2>2. ~Precedes(gLoadedModulesCopy, y, x)
        BY <1>3, <2>1 DEF Copied
    <2> QED
        BY <1>1, <1>5, <2>2, PrecedesTotal DEF Waiting
<1> QED
    BY <1>4, <1>5

LEMMA LastComesLast ==
    ASSUME NEW S, NEW s \in Seq(S), NEW n \in Elements(s), n # s[Len(s)]
    PROVE  Precedes(s, n, s[Len(s)])
<1>1. PICK j \in DOMAIN s : s[j] = n
    BY DEF Elements
<1>2. Len(s) \in DOMAIN s /\ j < Len(s)
    BY <1>1
<1> QED
    BY <1>1, <1>2 DEF Precedes

(* What has to be true of the list the moves start with. *)
LEMMA MovingBegins ==
    ASSUME TypeOK, BackendMoved, Copied, i > Len(gLoadedModules),
           desc' = desc, gLoadedModules' = gLoadedModules, finalOrder' = finalOrder,
           Distinct(gLoadedModulesCopy'), Waiting' = Waiting,
           \A x, y \in Waiting :
               desc[x].name = desc[y].name /\ Precedes(gLoadedModulesCopy', x, y)
                   => Precedes(gLoadedModules, x, y),
           \A x, y \in Waiting :
               desc[y].name # Base /\ Precedes(gLoadedModulesCopy, x, y)
                   => Precedes(gLoadedModulesCopy', x, y),
           (\E m \in Waiting : desc[m].name = Base) =>
               /\ gLoadedModulesCopy' # << >>
               /\ Head(gLoadedModulesCopy') \in Waiting
               /\ desc[Head(gLoadedModulesCopy')].name = Base
    PROVE  Moving'
<1>1. /\ gLoadedModules \in Seq(Modules)
      /\ Distinct(gLoadedModules) /\ Elements(gLoadedModules) = Modules
    BY DEF BackendMoved, Whole, TypeOK
<1>2. /\ Waiting = {m \in Modules : Regular(m)}
      /\ \A x, y \in Waiting : x # y /\ Precedes(gLoadedModules, x, y)
                                  => Precedes(gLoadedModulesCopy, x, y)
    BY CopyIsWhole
<1>3. Modules' = Modules /\ (\A m : Regular(m)' <=> Regular(m)) /\ Moved' = {}
    BY <1>2, SameNames DEF Moved
<1>4. Whole(gLoadedModules)'
    BY <1>1, <1>3 DEF Whole
<1>5. WaitingInOrder'
    BY <1>2, <1>3, <1>4 DEF WaitingInOrder
<1>6. OrderKept'
    <2>1. ASSUME NEW n \in Waiting, NEW m \in Waiting, Keeps(n, m), Precedes(finalOrder, n, m)
          PROVE  Precedes(gLoadedModulesCopy', n, m)
        <3>1. desc[n].name # Backend /\ desc[m].name # Base
            BY <1>2, <2>1 DEF Keeps
        <3>2. Precedes(gLoadedModules, n, m)
            BY <1>2, <2>1, <3>1 DEF BackendMoved
        <3>3. n # m
            BY <1>1, <3>2, PrecedesOneWay
        <3> QED
            BY <1>2, <3>1, <3>2, <3>3
    <2>2. ASSUME NEW n \in Modules, NEW m \in Modules, Keeps(n, m), Precedes(finalOrder, n, m)
          PROVE  Precedes(gLoadedModules, n, m)
        BY <2>2 DEF Keeps, BackendMoved
    <2> QED
        BY <1>3, <2>1, <2>2, SameNames DEF OrderKept
<1>7. BaseAhead'
    BY <1>2, <1>3 DEF BaseAhead
<1>8. BackendBehind'
    <2>1. ASSUME NEW m \in Waiting, OnlyBackend(m), NEW n \in Waiting \ {m}
          PROVE  Precedes(gLoadedModulesCopy', n, m)
        <3>1. gLoadedModules[Len(gLoadedModules)] = m
            BY <1>2, <2>1 DEF BackendMoved
        <3>2. Precedes(gLoadedModules, n, m)
            BY <1>1, <1>2, <3>1, LastComesLast
        <3>3. Precedes(gLoadedModulesCopy, n, m)
            BY <1>2, <3>2
        <3>4. desc[m].name # Base
            BY <2>1 DEF OnlyBackend, Base, Backend
        <3> QED
            BY <3>3, <3>4
    <2> QED
        BY <1>2, <1>3, <2>1, SameNames DEF BackendBehind
<1> QED
    BY <1>5, <1>6, <1>7, <1>8 DEF Moving

LEMMA BaseToFrontMoves ==
    ASSUME TypeOK, Moves, BaseToFront
    PROVE  Moves'
<1>1. /\ pc = "copy" /\ pc' = "move" /\ desc' = desc /\ finalOrder' = finalOrder
      /\ gLoadedModules' = gLoadedModules /\ i > Len(gLoadedModules)
      /\ gLoadedModulesCopy \in Seq(Modules)
    BY DEF BaseToFront, scan, TypeOK
<1>2. BackendMoved /\ BaseThere /\ Copied
    BY <1>1 DEF Moves
<1>3. PICK it \in DOMAIN gLoadedModulesCopy :
          /\ IsFirstNamed(gLoadedModulesCopy, it, Base)
          /\ gLoadedModulesCopy' = ToFront(gLoadedModulesCopy, it)
    BY DEF BaseToFront, ToFront, Cons
<1>4. PICK b : b = gLoadedModulesCopy[it]
    OBVIOUS
<1>5. b \in Waiting /\ desc[b].name = Base
    BY <1>3, <1>4 DEF IsFirstNamed, Waiting, Elements
<1>6. Distinct(gLoadedModulesCopy)
    BY <1>2 DEF Copied
<1>7. /\ Distinct(gLoadedModulesCopy')
      /\ Elements(gLoadedModulesCopy') = Elements(gLoadedModulesCopy)
      /\ gLoadedModulesCopy' # << >> /\ Head(gLoadedModulesCopy') = b
      /\ \A x, y : Precedes(gLoadedModulesCopy', x, y) <=>
                      \/ x = b /\ y \in Elements(gLoadedModulesCopy) \ {b}
                      \/ x # b /\ y # b /\ Precedes(gLoadedModulesCopy, x, y)
    BY <1>1, <1>3, <1>4, <1>6, MovedToFront
<1>8. Waiting' = Waiting /\ Waiting \subseteq Modules
    <2>1. Waiting' = Waiting
        BY <1>7 DEF Waiting
    <2>2. Waiting \subseteq Modules
        BY <1>1 DEF Waiting, Elements
    <2> QED
        BY <2>1, <2>2
<1>9. ASSUME NEW x \in Waiting, NEW y \in Waiting, desc[x].name = desc[y].name,
             Precedes(gLoadedModulesCopy', x, y)
      PROVE  Precedes(gLoadedModules, x, y)
    <2>1. Precedes(gLoadedModulesCopy, x, y)
        <3>1. CASE x = b /\ y # b
            BY <1>1, <1>3, <1>4, <1>5, <1>9, <3>1, FirstNamedLeads DEF Waiting
        <3> QED
            BY <1>7, <1>9, <3>1
    <2> QED
        BY <1>2, <1>8, <2>1 DEF Copied
<1>10. ASSUME NEW x \in Waiting, NEW y \in Waiting, desc[y].name # Base,
              Precedes(gLoadedModulesCopy, x, y)
       PROVE  Precedes(gLoadedModulesCopy', x, y)
    BY <1>5, <1>7, <1>10 DEF Waiting
<1>11. Moving'
    BY <1>1, <1>2, <1>5, <1>7, <1>8, <1>9, <1>10, MovingBegins
<1> QED
    BY <1>1, <1>2, <1>11, SameNames DEF Moves, Ordered

LEMMA BaseNotCopiedMoves ==
    ASSUME TypeOK, Moves, BaseNotCopied
    PROVE  Moves'
<1>1. /\ pc = "copy" /\ pc' = "move" /\ desc' = desc /\ finalOrder' = finalOrder
      /\ gLoadedModules' = gLoadedModules /\ i > Len(gLoadedModules)
      /\ gLoadedModulesCopy' = gLoadedModulesCopy
      /\ gLoadedModulesCopy \in Seq(Modules)
    BY DEF BaseNotCopied, scan, TypeOK
<1>2. BackendMoved /\ BaseThere /\ Copied
    BY <1>1 DEF Moves
<1>3. \A m \in Waiting : desc[m].name # Base
    BY DEF BaseNotCopied, HasName, Exports, Waiting
<1>4. Waiting' = Waiting /\ Waiting \subseteq Modules /\ Distinct(gLoadedModulesCopy')
    BY <1>1, <1>2 DEF Waiting, Elements, Copied
<1>5. \A x, y \in Waiting : Precedes(gLoadedModulesCopy', x, y) => Precedes(gLoadedModules, x, y)
    BY <1>1, <1>2, <1>4 DEF Copied
<1>6. Moving'
    BY <1>1, <1>2, <1>3, <1>4, <1>5, MovingBegins
<1> QED
    BY <1>1, <1>2, <1>6, SameNames DEF Moves, Ordered

-----------------------------------------------------------------------------
(* One regular module is moved. *)

(* What the removal by name finds is the module that is to be moved. *)
LEMMA RemovesItself ==
    ASSUME TypeOK, NamesAgree, Moving, gLoadedModulesCopy # << >>,
           NEW it \in DOMAIN gLoadedModules,
           IsFirstNamed(gLoadedModules, it, desc[Head(gLoadedModulesCopy)].name)
    PROVE  gLoadedModules[it] = Head(gLoadedModulesCopy)
<1> DEFINE h == Head(gLoadedModulesCopy)
           x == gLoadedModules[it]
<1>1. /\ gLoadedModules \in Seq(Modules) /\ gLoadedModulesCopy \in Seq(Modules)
      /\ Distinct(gLoadedModules) /\ Elements(gLoadedModules) = Modules
      /\ Distinct(gLoadedModulesCopy)
    BY DEF TypeOK, Moving, WaitingInOrder, Whole
<1>2. h \in Waiting /\ \A y \in Waiting \ {h} : Precedes(gLoadedModulesCopy, h, y)
    BY <1>1, TailOrder DEF Waiting
<1>3. h \in Modules /\ Regular(h)
    BY <1>2 DEF Moving, WaitingInOrder
<1>4. x \in Modules /\ desc[x].name = desc[h].name
    BY <1>1 DEF IsFirstNamed
<1>5. Regular(x)
    BY <1>3, <1>4 DEF NamesAgree, Regular
<1> SUFFICES ASSUME x # h PROVE FALSE
    OBVIOUS
<1>6. Precedes(gLoadedModules, x, h)
    BY <1>1, <1>3, FirstNamedLeads
<1>7. Precedes(gLoadedModules, h, x)
    <2>1. CASE x \in Waiting
        BY <1>2, <1>4, <2>1 DEF Moving, WaitingInOrder
    <2>2. CASE x \notin Waiting
        BY <1>2, <1>3, <1>4, <1>5, <2>2 DEF Moving, WaitingInOrder, Moved
    <2> QED
        BY <2>1, <2>2
<1> QED
    BY <1>1, <1>6, <1>7, PrecedesOneWay

LEMMA MoveRegularMoves ==
    ASSUME TypeOK, NamesAgree, PlacedInOrder, AllPlaced, Moving, pc = "move", MoveRegular
    PROVE  Moving'
<1>1. /\ desc' = desc /\ finalOrder' = finalOrder
      /\ gLoadedModulesCopy # << >> /\ gLoadedModulesCopy' = Tail(gLoadedModulesCopy)
      /\ gLoadedModules \in Seq(Modules) /\ gLoadedModulesCopy \in Seq(Modules)
      /\ finalOrder \in Seq(Modules)
    BY DEF MoveRegular, scan, TypeOK
<1>2. /\ Distinct(gLoadedModules) /\ Elements(gLoadedModules) = Modules
      /\ Distinct(gLoadedModulesCopy)
    BY DEF Moving, WaitingInOrder, Whole
<1>3. PICK h : h = Head(gLoadedModulesCopy)
    OBVIOUS
<1>4. PICK it \in DOMAIN gLoadedModules :
          /\ IsFirstNamed(gLoadedModules, it, desc[h].name)
          /\ gLoadedModules' = Append(RemoveAt(gLoadedModules, it), h)
    BY <1>3 DEF MoveRegular
<1>5. gLoadedModules[it] = h /\ gLoadedModules' = ToEnd(gLoadedModules, it)
    BY <1>1, <1>3, <1>4, RemovesItself DEF ToEnd
<1>6. /\ h \in Waiting /\ Distinct(gLoadedModulesCopy')
      /\ Waiting' = Waiting \ {h}
      /\ \A x, y : Precedes(gLoadedModulesCopy', x, y) <=>
                      x # h /\ Precedes(gLoadedModulesCopy, x, y)
      /\ \A y \in Waiting \ {h} : Precedes(gLoadedModulesCopy, h, y)
    BY <1>1, <1>2, <1>3, TailOrder DEF Waiting
<1>7. h \in Modules /\ Regular(h) /\ Waiting \subseteq Modules
    BY <1>6 DEF Moving, WaitingInOrder
<1>8. /\ Modules' = Modules /\ (\A m : Regular(m)' <=> Regular(m))
      /\ Moved' = Moved \cup {h}
    BY <1>1, <1>6, <1>7, SameNames DEF Moved
<1>9. /\ Distinct(gLoadedModules') /\ Elements(gLoadedModules') = Modules
      /\ gLoadedModules'[Len(gLoadedModules')] = h
      /\ \A x, y : Precedes(gLoadedModules', x, y) <=>
                      \/ x \in Modules \ {h} /\ y = h
                      \/ x # h /\ y # h /\ Precedes(gLoadedModules, x, y)
    BY <1>1, <1>2, <1>5, MovedToEnd
<1>10. h \notin Moved /\ Moved \subseteq Modules /\ Moved \cap Waiting = {}
    BY <1>6 DEF Moved
<1>11. ASSUME NEW x \in Waiting, NEW y \in Waiting, x = h, Precedes(gLoadedModulesCopy, y, x)
       PROVE  FALSE
    <2>1. y # h
        BY <1>1, <1>2, <1>11, PrecedesOneWay
    <2>2. Precedes(gLoadedModulesCopy, h, y)
        BY <1>6, <1>11, <2>1
    <2> QED
        BY <1>1, <1>2, <1>11, <2>2, PrecedesOneWay
<1>12. WaitingInOrder'
    <2>1. \A m \in Waiting' : m \in Modules /\ Regular(m)
        BY <1>6 DEF Moving, WaitingInOrder
    <2>2. ASSUME NEW x \in Modules \ (Moved \cup {h}), NEW y \in Moved \cup {h}
          PROVE  Precedes(gLoadedModules', x, y)
        BY <1>9, <1>10 DEF Moving, WaitingInOrder
    <2>3. ASSUME NEW x \in Waiting \ {h}, NEW y \in Waiting \ {h}, desc[x].name = desc[y].name,
                 Precedes(gLoadedModulesCopy', x, y)
          PROVE  Precedes(gLoadedModules', x, y)
        BY <1>6, <1>9, <2>3 DEF Moving, WaitingInOrder
    <2> QED
        BY <1>1, <1>6, <1>8, <1>9, <2>1, <2>2, <2>3 DEF WaitingInOrder, Whole
<1>13. OrderKept'
    <2>1. \A n \in Modules : ~Precedes(finalOrder, n, n)
        BY <1>1, FoundWhole, PrecedesOneWay DEF Whole
    <2>2. ASSUME NEW n \in Modules \ (Waiting \ {h}), NEW m \in Modules \ (Waiting \ {h}),
                 Keeps(n, m), Precedes(finalOrder, n, m)
          PROVE  Precedes(gLoadedModules', n, m)
        <3>1. n # m
            BY <2>1, <2>2
        <3>2. CASE m = h
            BY <1>9, <3>1, <3>2
        <3>3. CASE n = h
            <4>1. m \in Moved
                BY <1>7, <2>2, <3>1, <3>3 DEF Keeps, Moved
            <4> QED
                BY <1>6, <2>2, <3>3, <4>1 DEF Moving, OrderKept
        <3>4. CASE n # h /\ m # h
            BY <1>9, <2>2, <3>4 DEF Moving, OrderKept
        <3> QED
            BY <3>2, <3>3, <3>4
    <2>3. ASSUME NEW n \in Waiting \ {h}, NEW m \in Waiting \ {h},
                 Keeps(n, m), Precedes(finalOrder, n, m)
          PROVE  Precedes(gLoadedModulesCopy', n, m)
        BY <1>6, <2>3 DEF Moving, OrderKept
    <2>4. ASSUME NEW n \in Waiting \ {h}, NEW m \in Moved \cup {h}, Keeps(n, m)
          PROVE  ~Precedes(finalOrder, n, m)
        <3>1. CASE m = h
            BY <1>6, <1>11, <2>4, <3>1 DEF Moving, OrderKept
        <3>2. CASE m \in Moved
            BY <2>4, <3>2 DEF Moving, OrderKept
        <3> QED
            BY <3>1, <3>2
    <2> QED
        BY <1>1, <1>6, <1>8, <2>2, <2>3, <2>4, SameNames DEF OrderKept
<1>14. BaseAhead'
    <2> SUFFICES ASSUME \E m \in Modules : Regular(m) /\ desc[m].name = Base
                 PROVE  \E b \in Modules :
                            /\ Regular(b) /\ desc[b].name = Base
                            /\ b \in Moved'
                            /\ \A n \in Moved' \ {b} : Precedes(gLoadedModules', b, n)
        BY <1>1, <1>8 DEF BaseAhead
    <2>1. PICK b \in Modules :
              /\ Regular(b) /\ desc[b].name = Base
              /\ \/ Moved = {} /\ b = h
                 \/ b \in Moved /\ \A n \in Moved \ {b} : Precedes(gLoadedModules, b, n)
        BY <1>3 DEF Moving, BaseAhead
    <2>2. CASE Moved = {} /\ b = h
        BY <1>8, <2>1, <2>2
    <2>3. CASE b \in Moved /\ \A n \in Moved \ {b} : Precedes(gLoadedModules, b, n)
        BY <1>8, <1>9, <1>10, <2>1, <2>3
    <2> QED
        BY <2>1, <2>2, <2>3
<1>15. BackendBehind'
    <2>1. ASSUME NEW m \in Modules, OnlyBackend(m), Regular(m)
          PROVE  IF m \in Waiting' THEN \A n \in Waiting' \ {m} : Precedes(gLoadedModulesCopy', n, m)
                 ELSE Waiting' = {} /\ gLoadedModules'[Len(gLoadedModules')] = m
        <3>1. m \in Waiting /\ \A n \in Waiting \ {m} : Precedes(gLoadedModulesCopy, n, m)
            BY <1>6, <2>1 DEF Moving, BackendBehind
        <3>2. CASE m = h
            BY <1>6, <1>9, <1>11, <3>1, <3>2
        <3>3. CASE m # h
            BY <1>6, <3>1, <3>3
        <3> QED
            BY <3>2, <3>3
    <2> QED
        BY <1>1, <1>8, <2>1, SameNames DEF BackendBehind
<1> QED
    BY <1>12, <1>13, <1>14, <1>15 DEF Moving

-----------------------------------------------------------------------------
(* All are moved. *)

LEMMA AllMoved ==
    ASSUME TypeOK, Moving, gLoadedModulesCopy = << >>
    PROVE  Reordered
<1>1. Waiting = {} /\ Moved = {m \in Modules : Regular(m)}
    BY DEF Waiting, Elements, Moved
<1>2. Whole(gLoadedModules) /\ Elements(gLoadedModules) = Modules
    BY DEF Moving, WaitingInOrder, Whole
<1>3. EarlyFirst(gLoadedModules)
    BY <1>1, <1>2 DEF EarlyFirst, Moving, WaitingInOrder
<1>4. BaseLeads(gLoadedModules)
    BY <1>1, <1>2 DEF BaseLeads, Moving, BaseAhead
<1>5. \A n, m \in Modules :
          Keeps(n, m) /\ Precedes(finalOrder, n, m) => Precedes(gLoadedModules, n, m)
    BY <1>1 DEF Moving, OrderKept
<1>6. \A m \in Modules : OnlyBackend(m) /\ Regular(m)
                             => gLoadedModules[Len(gLoadedModules)] = m
    BY <1>1 DEF Moving, BackendBehind
<1> QED
    BY <1>2, <1>3, <1>4, <1>5, <1>6 DEF Reordered

LEMMA SameReordered ==
    ASSUME desc' = desc, gLoadedModules' = gLoadedModules, finalOrder' = finalOrder, Reordered
    PROVE  Reordered'
BY SameNames DEF Reordered, Whole, EarlyFirst, BaseLeads

LEMMA MovesStep ==
    TypeOK /\ PlacedInOrder /\ AllPlaced /\ Moves /\ [Next]_vars => Moves'
<1> SUFFICES ASSUME TypeOK, PlacedInOrder, AllPlaced, Moves, [Next]_vars PROVE Moves'
    OBVIOUS
<1>0. desc' = desc
    BY DescUnchanged
<1>1. CASE SkipPlaced \/ RejectBackendImport \/ LeaveForLater \/ PlaceModule \/ NextPass
           \/ FailToResolve
    <2>1. /\ pc = "order" /\ pc' \in {"order", "fatal"}
          /\ gLoadedModulesCopy' = gLoadedModulesCopy
        BY <1>1 DEF SkipPlaced, RejectBackendImport, LeaveForLater, PlaceModule, NextPass,
                    FailToResolve, OSFatal, InPass, PassOver
    <2> QED
        BY <2>1 DEF Moves, Ordered
<1>2. CASE ReturnOrder
    BY <1>2 DEF ReturnOrder, PassOver, scan, Moves, Ordered
<1>3. CASE MoveBackendLast
    BY <1>3, MoveBackendLastMoves
<1>4. CASE NoBackend
    BY <1>4, NoBackendMoves
<1>5. CASE BaseMissing \/ CheckFails
    BY <1>5 DEF BaseMissing, CheckFails, OSFatal, Moves, Ordered
<1>6. CASE NoReorder
    <2>1. /\ pc = "base" /\ pc' = "check"
          /\ gLoadedModules' = gLoadedModules /\ finalOrder' = finalOrder
        BY <1>6 DEF NoReorder, scan
    <2>2. BackendMoved /\ ~BaseThere
        BY <1>6, <2>1, BaseIsThere DEF Moves, NoReorder, BackendMoved
    <2>3. BackendMoved' /\ ~BaseThere'
        BY <1>0, <2>1, <2>2, SameBackendMoved, SameNames
    <2> QED
        BY <2>1, <2>3 DEF Moves, Ordered
<1>7. CASE StartReorder
    BY <1>7, StartReorderMoves
<1>8. CASE CopyRegular
    BY <1>8, CopyRegularMoves
<1>9. CASE BaseToFront
    BY <1>9, BaseToFrontMoves
<1>10. CASE BaseNotCopied
    BY <1>10, BaseNotCopiedMoves
<1>11. CASE MoveRegular
    <2>1. pc = "move" /\ pc' = "move"
        BY <1>11 DEF MoveRegular
    <2>2. BaseThere'
        BY <1>0, <2>1, SameNames DEF Moves
    <2>3. NamesAgree' => Moving'
        BY <1>0, <1>11, <2>1, MoveRegularMoves, SameNames DEF Moves
    <2> QED
        BY <2>1, <2>2, <2>3 DEF Moves, Ordered
<1>12. CASE EndReorder
    <2>1. /\ pc = "move" /\ pc' = "check" /\ gLoadedModulesCopy = << >>
          /\ gLoadedModules' = gLoadedModules /\ finalOrder' = finalOrder
        BY <1>12 DEF EndReorder, scan
    <2>2. BaseThere' /\ (NamesAgree' => Reordered')
        BY <1>0, <2>1, AllMoved, SameReordered, SameNames DEF Moves
    <2> QED
        BY <2>1, <2>2 DEF Moves, Ordered
<1>13. CASE CheckPasses
    <2>1. /\ pc = "check" /\ pc' = "done"
          /\ gLoadedModules' = gLoadedModules /\ finalOrder' = finalOrder
        BY <1>13 DEF CheckPasses, scan
    <2>2. Ordered' /\ Ordered
        BY <2>1 DEF Ordered
    <2>3. /\ BaseThere' /\ NamesAgree' => Reordered'
          /\ ~BaseThere' => BackendMoved'
        BY <1>0, <2>1, <2>2, SameReordered, SameBackendMoved, SameNames DEF Moves
    <2> QED
        BY <2>1, <2>3 DEF Moves
<1>14. CASE UNCHANGED vars
    BY <1>14 DEF vars, Moves, Ordered, BackendMoved, Whole, OnlyBackend, Copied, Moving,
                 WaitingInOrder, OrderKept, BaseAhead, BackendBehind, Reordered, Keeps,
                 EarlyFirst, BaseLeads, BaseThere, NamesAgree, Waiting, Moved, Modules, Regular,
                 Exports
<1> QED
    BY <1>1, <1>2, <1>3, <1>4, <1>5, <1>6, <1>7, <1>8, <1>9, <1>10, <1>11, <1>12, <1>13,
       <1>14 DEF Next

-----------------------------------------------------------------------------
(* What follows. *)

LEMMA MovesHold == Spec => [](TypeOK /\ PlacedInOrder /\ AllPlaced /\ BackendNotImported /\ Moves)
<1>1. Init => Moves
    BY MovesInit
<1>2. TypeOK /\ PlacedInOrder /\ AllPlaced /\ Moves /\ [Next]_vars => Moves'
    BY MovesStep
<1> QED
    BY <1>1, <1>2, TypeCorrect, OrderRespectsImports, OrderIsComplete, BackendImportsStopEarly,
       PTL DEF Spec

(* The base module is first of the regular ones, the early ones before it, the backend last,
   nothing is lost or doubled, and the rest keeps its order (entry.cpp 148-203). *)
THEOREM MovesAreRight == Spec => []MovesKeepPlaces
<1>1. TypeOK /\ PlacedInOrder /\ AllPlaced /\ Moves => MovesKeepPlaces
    <2> SUFFICES ASSUME TypeOK, PlacedInOrder, AllPlaced, Moves, Ordered, NamesAgree
                 PROVE  /\ Distinct(gLoadedModules)
                        /\ Elements(gLoadedModules) = Modules
                        /\ aromaBaseModuleLoaded =>
                              /\ EarlyFirst(gLoadedModules)
                              /\ BaseLeads(gLoadedModules)
                              /\ \A m, n \in Modules :
                                    /\ Regular(m) = Regular(n)
                                    /\ {desc[m].name, desc[n].name} \cap {Base, Backend} = {}
                                    => (Precedes(gLoadedModules, m, n) <=>
                                            Precedes(finalOrder, m, n))
                        /\ \A m \in Modules :
                              Regular(m) \/ ~aromaBaseModuleLoaded => BackendAtEnd(m)
        BY DEF MovesKeepPlaces
    <2>1. gLoadedModules \in Seq(Modules) /\ finalOrder \in Seq(Modules)
        BY DEF TypeOK
    <2>2. Distinct(finalOrder) /\ Elements(finalOrder) = Modules
        BY FoundWhole DEF Whole, Ordered
    <2>3. \A m : BackendAtEnd(m) <=>
                    (OnlyBackend(m) => gLoadedModules[Len(gLoadedModules)] = m)
        BY DEF BackendAtEnd, OnlyBackend
    <2>4. CASE BaseThere
        <3>1. Reordered
            BY <2>4 DEF Moves
        <3>2. Distinct(gLoadedModules) /\ Elements(gLoadedModules) = Modules
            BY <3>1 DEF Reordered, Whole
        <3>3. aromaBaseModuleLoaded
            BY <2>4, <3>1, BaseIsThere DEF Reordered
        <3>4. ASSUME NEW m \in Modules, NEW n \in Modules, Regular(m) = Regular(n),
                     {desc[m].name, desc[n].name} \cap {Base, Backend} = {}
              PROVE  Precedes(gLoadedModules, m, n) <=> Precedes(finalOrder, m, n)
            <4>1. Keeps(m, n) /\ Keeps(n, m)
                BY <3>4 DEF Keeps
            <4>2. Precedes(finalOrder, m, n) => Precedes(gLoadedModules, m, n)
                BY <3>1, <4>1 DEF Reordered
            <4>3. ASSUME Precedes(gLoadedModules, m, n) PROVE Precedes(finalOrder, m, n)
                <5>1. ~Precedes(gLoadedModules, n, m)
                    BY <2>1, <3>2, <4>3, PrecedesOneWay
                <5>2. m # n
                    BY <4>3, <5>1
                <5>3. ~Precedes(finalOrder, n, m)
                    BY <3>1, <4>1, <5>1 DEF Reordered
                <5> QED
                    BY <2>1, <2>2, <5>2, <5>3, PrecedesTotal
            <4> QED
                BY <4>2, <4>3
        <3> QED
            BY <2>3, <3>1, <3>2, <3>3, <3>4 DEF Reordered
    <2>5. CASE ~BaseThere
        <3>1. BackendMoved
            BY <2>5 DEF Moves
        <3>2. Distinct(gLoadedModules) /\ Elements(gLoadedModules) = Modules
            BY <3>1 DEF BackendMoved, Whole
        <3>3. ~aromaBaseModuleLoaded
            BY <2>5, <3>1, BaseIsThere DEF BackendMoved
        <3> QED
            BY <2>3, <3>1, <3>2, <3>3 DEF BackendMoved
    <2> QED
        BY <2>4, <2>5
<1> QED
    BY <1>1, MovesHold, PTL

(* What the check of the result has seen. *)
Checked == pc = "done" => DepsFirst(gLoadedModules)

LEMMA CheckedHolds == Spec => []Checked
<1>1. Init => Checked
    BY DEF Init, Checked
<1>2. TypeOK /\ Checked /\ [Next]_vars => Checked'
    <2> SUFFICES ASSUME TypeOK, Checked, [Next]_vars, pc' = "done"
                 PROVE  DepsFirst(gLoadedModules)'
        BY DEF Checked
    <2>1. CASE CheckPasses
        BY <2>1 DEF CheckPasses, DepsFirst, Satisfied, Required, Exports
    <2>2. CASE UNCHANGED vars
        BY <2>2 DEF vars, Checked, DepsFirst, Satisfied, Required, Exports
    <2> QED
        BY <2>1, <2>2
        DEF Next, SkipPlaced, RejectBackendImport, LeaveForLater, PlaceModule, NextPass,
            FailToResolve, ReturnOrder, MoveBackendLast, NoBackend, BaseMissing, NoReorder,
            StartReorder, CopyRegular, BaseToFront, BaseNotCopied, MoveRegular, EndReorder,
            CheckFails, OSFatal, InPass, PassOver
<1> QED
    BY <1>1, <1>2, TypeCorrect, PTL DEF Spec

(* The order a start gets is one that Lifecycle is entitled to: each module once, after its
   imports, early ones and the base module first (entry.cpp, doStart 133-203). *)
THEOREM StartsRight == Spec => []StartsInOrder
<1>1. MovesKeepPlaces /\ Checked => StartsInOrder
    <2> SUFFICES ASSUME MovesKeepPlaces, Checked, pc = "done", NamesAgree
                 PROVE  Admissible(gLoadedModules)
        BY DEF StartsInOrder
    <2>1. /\ Distinct(gLoadedModules)
          /\ Elements(gLoadedModules) = Modules
          /\ aromaBaseModuleLoaded => EarlyFirst(gLoadedModules) /\ BaseLeads(gLoadedModules)
        BY DEF MovesKeepPlaces, Ordered
    <2>2. aromaBaseModuleLoaded <=> Base \in Exports(Modules)
        BY <2>1 DEF aromaBaseModuleLoaded, HasName
    <2> QED
        BY <2>1, <2>2 DEF Checked, Admissible
<1> QED
    BY <1>1, MovesAreRight, CheckedHolds, PTL

(* Whether imports come first, said with the order. *)
LEMMA DepsByOrder ==
    ASSUME NEW s \in Seq(Modules), Distinct(s)
    PROVE  DepsFirst(s) <=>
               \A m \in Elements(s) : \A name \in Required(m) :
                   \E n \in Elements(s) : desc[n].name = name /\ Precedes(s, n, m)
<1>1. \A k \in DOMAIN s : k \in Nat /\ 1..(k - 1) \subseteq DOMAIN s /\ (\A j \in 1..(k - 1) : j < k)
    OBVIOUS
<1>2. ASSUME DepsFirst(s), NEW m \in Elements(s), NEW name \in Required(m)
      PROVE  \E n \in Elements(s) : desc[n].name = name /\ Precedes(s, n, m)
    <2>1. PICK k \in DOMAIN s : s[k] = m
        BY DEF Elements
    <2>2. PICK j \in 1..(k - 1) : desc[s[j]].name = name
        BY <1>2, <2>1 DEF DepsFirst, Satisfied, Exports
    <2>3. j \in DOMAIN s /\ j < k
        BY <1>1, <2>1, <2>2
    <2> QED
        BY <2>1, <2>2, <2>3 DEF Precedes, Elements
<1>3. ASSUME \A m \in Elements(s) : \A name \in Required(m) :
                 \E n \in Elements(s) : desc[n].name = name /\ Precedes(s, n, m),
             NEW k \in DOMAIN s, NEW name \in Required(s[k])
      PROVE  \E j \in 1..(k - 1) : desc[s[j]].name = name
    <2>1. s[k] \in Elements(s)
        BY DEF Elements
    <2>2. PICK n \in Elements(s) : desc[n].name = name /\ Precedes(s, n, s[k])
        BY <1>3, <2>1
    <2>3. PICK j, l \in DOMAIN s : j < l /\ s[j] = n /\ s[l] = s[k]
        BY <2>2 DEF Precedes
    <2>4. l = k
        BY <2>3 DEF Distinct
    <2>5. j \in 1..(k - 1)
        BY <2>3, <2>4
    <2> QED
        BY <2>2, <2>3, <2>5
<1>4. (\A k \in DOMAIN s : \A name \in Required(s[k]) :
          \E j \in 1..(k - 1) : desc[s[j]].name = name) => DepsFirst(s)
    BY DEF DepsFirst, Satisfied, Exports
<1> QED
    BY <1>2, <1>3, <1>4

(* The modules that an order could put in a place the moves leave: who imports what. *)
LEMMA MovesBreakOnly ==
    ASSUME TypeOK, PlacedInOrder, AllPlaced, BackendNotImported, Moves, Ordered, NamesAgree,
           ~DepsFirst(gLoadedModules)
    PROVE  /\ aromaBaseModuleLoaded
           /\ LET early == {m \in Modules : desc[m].early}
              IN \E m \in Modules : /\ desc[m].early \/ desc[m].name = Base
                                    /\ ~Satisfied(m, early)
<1> DEFINE early == {m \in Modules : desc[m].early}
<1>1. /\ gLoadedModules \in Seq(Modules) /\ finalOrder \in Seq(Modules)
      /\ Distinct(finalOrder) /\ Elements(finalOrder) = Modules
      /\ \A m \in Modules : Backend \notin Required(m)
    BY FoundWhole DEF TypeOK, Whole, Ordered, BackendNotImported
<1>2. Distinct(gLoadedModules) /\ Elements(gLoadedModules) = Modules
    BY DEF Moves, Reordered, BackendMoved, Whole
<1>3. \A m \in Modules : \A name \in Required(m) :
          \E n \in Modules : desc[n].name = name /\ Precedes(finalOrder, n, m)
    BY <1>1, DepsByOrder DEF PlacedInOrder
<1>4. PICK m \in Modules : \E name \in Required(m) :
          \A n \in Modules : desc[n].name = name => ~Precedes(gLoadedModules, n, m)
    BY <1>1, <1>2, DepsByOrder
<1>5. PICK name \in Required(m) :
          \A n \in Modules : desc[n].name = name => ~Precedes(gLoadedModules, n, m)
    BY <1>4
<1>6. PICK n \in Modules : desc[n].name = name /\ Precedes(finalOrder, n, m)
    BY <1>3
<1>7. name # Backend /\ ~Precedes(gLoadedModules, n, m)
    BY <1>1, <1>5, <1>6
<1>8. BaseThere
    BY <1>6, <1>7 DEF Moves, BackendMoved
<1>9. Reordered /\ aromaBaseModuleLoaded
    BY <1>8, <1>2, BaseIsThere DEF Moves, Whole
<1>10. ASSUME desc[m].early \/ desc[m].name = Base, Satisfied(m, early)
      PROVE  FALSE
    <2>1. PICK e \in early : desc[e].name = name
        BY <1>10 DEF Satisfied, Exports
    <2>2. ~Regular(n) /\ ~Regular(e)
        BY <1>6, <2>1 DEF NamesAgree, Regular
    <2>3. CASE Regular(m)
        BY <1>2, <1>5, <1>9, <2>1, <2>2, <2>3 DEF Reordered, EarlyFirst
    <2>4. CASE ~Regular(m)
        BY <1>6, <1>7, <1>9, <2>2, <2>4 DEF Reordered, Keeps, Regular
    <2> QED
        BY <2>3, <2>4
<1>11. ASSUME ~desc[m].early, desc[m].name # Base
       PROVE  FALSE
    <2>1. Regular(m)
        BY <1>11 DEF Regular
    <2>2. Regular(n)
        BY <1>2, <1>7, <1>9, <2>1 DEF Reordered, EarlyFirst
    <2>3. CASE name = Base
        <3>1. PICK b \in Modules :
                  /\ Regular(b) /\ desc[b].name = Base
                  /\ m # b => Precedes(gLoadedModules, b, m)
            BY <1>2, <1>6, <1>9, <2>1, <2>2, <2>3 DEF Reordered, BaseLeads
        <3> QED
            BY <1>5, <1>11, <2>3, <3>1
    <2>4. CASE name # Base
        BY <1>6, <1>7, <1>9, <1>11, <2>1, <2>2, <2>4 DEF Reordered, Keeps
    <2> QED
        BY <2>3, <2>4
<1> QED
    BY <1>9, <1>10, <1>11

(* "Module order is impossible" has one reason only: an early module or the base module
   imports from a regular one (CheckModulesByDependencies). *)
THEOREM ImpossibleForOneReason == Spec => []ImpossibleExplained
<1>1. Init => ImpossibleExplained
    BY DEF Init, ImpossibleExplained
<1>2. TypeOK /\ PlacedInOrder /\ AllPlaced /\ BackendNotImported /\ Moves
          /\ ImpossibleExplained /\ [Next]_vars => ImpossibleExplained'
    <2> SUFFICES ASSUME TypeOK, PlacedInOrder, AllPlaced, BackendNotImported, Moves,
                        ImpossibleExplained, [Next]_vars, fatal' = "impossible", NamesAgree'
                 PROVE  ImpossibleExplained'
        BY DEF ImpossibleExplained
    <2>0. desc' = desc /\ NamesAgree
        BY DescUnchanged, SameNames
    <2>1. CASE CheckFails
        <3>1. pc = "check" /\ gLoadedModules' = gLoadedModules
            BY <2>1 DEF CheckFails
        <3>2. Elements(gLoadedModules) = Modules
            BY <2>0, <3>1 DEF Moves, Ordered, Reordered, BackendMoved, Whole
        <3>3. ~DepsFirst(gLoadedModules)
            BY <2>1, <3>1, <3>2 DEF CheckFails, BackendNotImported
        <3>4. /\ aromaBaseModuleLoaded
              /\ LET early == {m \in Modules : desc[m].early}
                 IN \E m \in Modules : /\ desc[m].early \/ desc[m].name = Base
                                       /\ ~Satisfied(m, early)
            BY <2>0, <3>1, <3>3, MovesBreakOnly DEF Ordered
        <3> QED
            BY <2>0, <3>1, <3>4 DEF ImpossibleExplained, aromaBaseModuleLoaded, HasName, Exports,
                                    Satisfied, Required, Modules
    <2>2. CASE UNCHANGED vars
        BY <2>2 DEF vars, ImpossibleExplained, NamesAgree, aromaBaseModuleLoaded, HasName,
                    Exports, Satisfied, Required, Modules
    <2> QED
        BY <2>1, <2>2
        DEF TypeOK, Next, SkipPlaced, RejectBackendImport, LeaveForLater, PlaceModule, NextPass,
            FailToResolve, ReturnOrder, MoveBackendLast, NoBackend, BaseMissing, NoReorder,
            StartReorder, CopyRegular, BaseToFront, BaseNotCopied, MoveRegular, EndReorder,
            CheckPasses, OSFatal, InPass, PassOver, scan
<1> QED
    BY <1>1, <1>2, MovesHold, PTL DEF Spec

=============================================================================
