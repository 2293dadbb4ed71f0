-------------------------- MODULE LifecycleProofs ---------------------------
(***************************************************************************)
(* Proofs about Lifecycle, for every catalog of modules, every set of RPLs *)
(* and any number of applications. The inductive invariant comes in parts, *)
(* each of which needs those before it. And, at the end, about Setup, that *)
(* calls the loader, for any size of the loader's place and any ELF that   *)
(* the linker can have written. The two share no state.                    *)
(***************************************************************************)
EXTENDS Lifecycle, Setup, TLAPS

(* The phases that are loops over the modules. *)
Loops == {"reloc", "early", "alloc", "relocAll", "relocsDone", "regular", "clearRpl", "devoptab",
          "sockets", "starts", "allStarts"}

Phases == {"idle", "clear", "load", "setAllocator", "save", "running", "exit", "fatal"}
          \cup Loops

LEMMA LoopsAre == DOMAIN After = Loops
BY DEF After, Loops

-----------------------------------------------------------------------------
(* Where the thread can be, and what is set up by then. *)
Control ==
    /\ ucSetupRequired => pc \in {"idle", "fatal"} /\ ~gInitCalled
    /\ ~gInitCalled =>
          /\ pc \in {"idle", "clear", "running", "exit", "fatal"}
          /\ gLoadedModules = << >>
          /\ gUsedRPLs = NoHandles
          /\ acquired_rpls = {}
          /\ ~customAllocator
    /\ pc \in {"load", "reloc", "early", "alloc", "regular"} => first
    /\ pc = "clearRpl" => ~first
    /\ pc \in {"load", "setAllocator"} => k = 1
    /\ pc = "load" => gLoadedModules = << >> /\ gUsedRPLs = NoHandles
    /\ pc \notin {"reloc", "relocAll", "exit", "fatal"} => done = {}
    /\ gInitCalled /\ pc \notin {"load", "fatal"} => Admissible(gLoadedModules)

-----------------------------------------------------------------------------
(* The RPLs: what their references stand for, and where their blocks are. *)

(* Handles are those of the running application's RPLs from the clearing of the map on. *)
Active == {"load", "setAllocator", "save", "running"} \cup Loops

Held == {r \in Rpls : gUsedRPLs[r] # 0}
One(r, S) == IF r \in S THEN 1 ELSE 0

References ==
    /\ \A r, q \in Rpls : Loaded(r) /\ rpl[r].id = rpl[q].id => r = q
    /\ pc \in {"idle", "clear"} => appRefs = {}
    /\ pc = "idle" => sysRefs = {} /\ \A r \in Rpls : rpl[r] = NotLoaded
    /\ pc = "clear" => \A r \in Rpls : rpl[r].refs = One(r, sysRefs)
    /\ pc \in Active =>
          \A r \in Rpls : /\ gUsedRPLs[r] \in {0, rpl[r].id}
                          /\ rpl[r].refs = One(r, sysRefs) + One(r, appRefs) + One(r, Held)
    /\ pc \in {"devoptab", "sockets", "starts", "allStarts", "running"} =>
          acquired_rpls = {gUsedRPLs[r] : r \in Rpls} \ {0}
    /\ pc = "exit" =>
          \A r \in Rpls :
              rpl[r].refs = One(r, sysRefs) + One(r, appRefs) + One(r, ToRelease)

(* Nothing is in a module's or the loader's memory before the second relocation. *)
Before == {"idle", "clear", "load", "clearRpl", "reloc", "early", "alloc", "setAllocator"}

Blocks == {rpl[r].id : r \in {q \in Rpls : rpl[q].by # "app"}}

Owned ==
    /\ heap = gAllocatedAddresses
    /\ \A r \in Rpls : /\ rpl[r].by = "loader" => rpl[r].id \in heap
                       /\ rpl[r].by = "module" => rpl[r].id \in moduleMemory
                       /\ rpl[r].by = "app" => rpl[r].id \notin heap \cup moduleMemory
    /\ \A r \in sysRefs : Loaded(r) /\ rpl[r].by = "app"
    /\ pc \in Before => \A r \in Rpls : rpl[r].by = "app"
    /\ pc \notin {"relocAll", "fatal"} => allocator = "app"
    /\ pc = "relocAll" => prevAllocator = "app"
    /\ allocator = "module" => customAllocator

(* The module that gives an allocator also has the hook that frees what that
   allocator gave to RPLs of the last application. *)
AllocatorsClear ==
    \A d \in Catalog :
        "GET_CUSTOM_RPL_ALLOCATOR" \in d.hooks => "CLEAR_ALLOCATED_RPL_MEMORY" \in d.hooks

HasFrom(kind, n) == \E j \in n..Len(gLoadedModules) : kind \in desc[gLoadedModules[j]].hooks

(* What is left of the last application is freed on the way, and there is someone to
   do it. *)
Cleaning ==
    /\ customAllocator => HasFrom("GET_CUSTOM_RPL_ALLOCATOR", 1)
    /\ moduleMemory # {} => customAllocator
    /\ ~gInitCalled => heap = {}
    /\ pc = "clearRpl" => heap = {} /\ (moduleMemory # {} => HasFrom("CLEAR_ALLOCATED_RPL_MEMORY", k))
    /\ pc \in (Active \cup {"exit"}) \ {"clearRpl"} => heap \cup moduleMemory = Blocks

-----------------------------------------------------------------------------
(* The words the relocations wrote: up to where the loop is, and for good after it. *)

UsesHandle(m, r) == gUsedRPLs[r] # 0 /\ link[m][r] = gUsedRPLs[r]

(* At position j the imports from the RPLs S are linked, or were dealt with. *)
LinkedTo(S) ==
    \A j \in DOMAIN gLoadedModules : \A r \in Imports(gLoadedModules[j]) \cap S :
        j < k \/ (j = k /\ r \in done) => UsesHandle(gLoadedModules[j], r)

AllLinkedTo(S) ==
    \A j \in DOMAIN gLoadedModules : \A r \in Imports(gLoadedModules[j]) \cap S :
        UsesHandle(gLoadedModules[j], r)

Relocations ==
    /\ pc = "reloc" => LinkedTo(sysRefs)
    /\ pc \in {"early", "alloc"} => AllLinkedTo(sysRefs)
    /\ pc = "relocAll" => LinkedTo(Rpls)
    /\ pc \in {"relocsDone", "regular", "save", "devoptab", "sockets", "starts", "allStarts",
               "running"} => AllLinkedTo(Rpls)

-----------------------------------------------------------------------------
(* Who has been given its INIT call by now. *)
PastLoop(m) == \E j \in 1..(k - 1) : gLoadedModules[j] = m

PastInit(m) ==
    /\ gInitCalled
    /\ pc \notin {"load", "reloc"}
    /\ pc = "early" => ~Regular(m) /\ PastLoop(m)
    /\ first /\ pc \in {"alloc", "setAllocator", "relocAll", "relocsDone"} => ~Regular(m)
    /\ pc = "regular" /\ Regular(m) => PastLoop(m)

InitCalls ==
    /\ \A m \in Modules : inits[m] \in {0, 1}
    /\ pc # "fatal" => \A m \in Modules : inits[m] = 1 <=> "INIT" \in desc[m].hooks /\ PastInit(m)

-----------------------------------------------------------------------------
(* Facts about the numbers and the modules that each step can use. *)

LEMMA FreshNumber ==
    ASSUME TypeOK, Numbers # {}
    PROVE  /\ Fresh \in Ids
           /\ Fresh \notin Remembered
           /\ Fresh # 0
BY IdsAssumption DEF Fresh, Numbers

LEMMA NotRemembered ==
    ASSUME NEW x, x \notin Remembered
    PROVE  /\ \A r \in Rpls : rpl[r].id # x
           /\ x \notin heap
           /\ x \notin moduleMemory
<1>1. {rpl[r].id : r \in Rpls} \subseteq Remembered
    BY DEF Remembered
<1>2. heap \subseteq Remembered
    BY DEF Remembered
<1>3. moduleMemory \subseteq Remembered
    BY DEF Remembered
<1> QED
    BY <1>1, <1>2, <1>3

LEMMA NewLoads ==
    ASSUME NEW S \in SUBSET Rpls, Injection(S, Numbers) # {}
    PROVE  LET loads == CHOOSE loads \in Injection(S, Numbers) : TRUE
           IN /\ loads \in [S -> Ids]
              /\ \A r \in S : loads[r] # 0 /\ loads[r] \notin Remembered
              /\ \A r, q \in S : loads[r] = loads[q] => r = q
<1> DEFINE loads == CHOOSE loads \in Injection(S, Numbers) : TRUE
<1>1. loads \in Injection(S, Numbers)
    OBVIOUS
<1> QED
    BY <1>1, IdsAssumption DEF Injection, IsInjective, Numbers

LEMMA OnceMore ==
    ASSUME NEW n \in 0..2
    PROVE  /\ Min({n + 1, 2}) \in 0..2
           /\ n = 0 => Min({n + 1, 2}) = 1
<1>1. PICK x \in {n + 1, 2} : \A y \in {n + 1, 2} : x <= y
    OBVIOUS
<1>2. /\ Min({n + 1, 2}) \in {n + 1, 2}
      /\ \A y \in {n + 1, 2} : Min({n + 1, 2}) <= y
    BY <1>1 DEF Min
<1> QED
    BY <1>2

-----------------------------------------------------------------------------
(* Type correctness. *)

(* The variables that have Boolean values, and all the others. *)
Flags == {first, magic, relaunch, ucSetupRequired, gInitCalled, customAllocator} \subseteq BOOLEAN

Typed ==
    /\ DescInit
    /\ DynLoadTypeOK
    /\ pc \in Phases
    /\ k \in 1..(MaxModules + 1)
    /\ done \subseteq Rpls
    /\ gLoadedModules \in Seq(Modules)
    /\ Len(gLoadedModules) <= MaxModules
    /\ gUsedRPLs \in [Rpls -> Ids \cup {0}]
    /\ acquired_rpls \subseteq Ids
    /\ prevAllocator \in Owners
    /\ link \in [Modules -> [Rpls -> Ids \cup {0}]]
    /\ inits \in [Modules -> 0..2]
    /\ appRefs \subseteq Rpls
    /\ sysRefs \subseteq Rpls

LEMMA TypeParts == Typed /\ Flags => TypeOK
BY LoopsAre DEF Typed, Flags, TypeOK, Phases

LEMMA ModuleNumbers ==
    ASSUME DescInit
    PROVE  /\ \E n \in 0..MaxModules : Modules = 1..n
           /\ \A m \in Modules : desc[m] \in Descriptor
BY CatalogAssumption DEF DescInit, Modules

LEMMA CurrentModule ==
    ASSUME Typed, NEW phase, InLoop(phase)
    PROVE  /\ cur \in Modules
           /\ k \in DOMAIN gLoadedModules
           /\ k + 1 \in 1..(MaxModules + 1)
BY MaxModulesAssumption DEF Typed, InLoop, cur

LEMMA FlagsStep == Flags /\ [Next]_vars => Flags'
BY Zenon
   DEF Flags, Next, LoaderStep, ExitStep, AppStep, vars, start, reloc, app, memory, dynLoadVars,
       StartProcess, NoHeap, OSFatal, Clear, LoadModules, LoadFails, EndPhase, SetAllocator,
       SkipUnloaded, AcquireImport, UseHandle, RelocationFails, Relocated, CallHook, OtherLoop,
       SaveLoadedRPLs, SaveFails, AppAcquire, AppRelease, AppEnds, BaseReleases, ProcessEnds

LEMMA DescUnchanged == [Next]_vars => desc' = desc
BY DEF Next, LoaderStep, ExitStep, AppStep, vars, StartProcess, NoHeap, OSFatal, Clear,
       LoadModules, LoadFails, EndPhase, SetAllocator, SkipUnloaded, AcquireImport, UseHandle,
       RelocationFails, Relocated, CallHook, OtherLoop, SaveLoadedRPLs, SaveFails, AppAcquire,
       AppRelease, AppEnds, BaseReleases, ProcessEnds

(* What coreinit's calls leave of its variables. *)
LEMMA AcquireTypes ==
    ASSUME TypeOK, NEW r \in Rpls, Numbers # {}, Acquire(r, Fresh)
    PROVE  DynLoadTypeOK' /\ rpl'[r].id \in Ids
<1>1. CASE AddRef(r)
    <2>1. /\ rpl' = [rpl EXCEPT ![r].refs = @ + 1]
          /\ UNCHANGED <<allocator, gAllocatedAddresses, heap, moduleMemory>>
          /\ rpl[r].id # 0
        BY <1>1 DEF AddRef, memory, Loaded
    <2>2. DynLoadTypeOK
        BY DEF TypeOK
    <2> QED
        BY <2>1, <2>2 DEF DynLoadTypeOK
<1>2. CASE Load(r, Fresh)
    <2>1. /\ rpl' = [rpl EXCEPT ![r] = [id |-> Fresh, refs |-> 1, by |-> allocator]]
          /\ allocator' = allocator
        BY <1>2 DEF Load
    <2>2. Fresh \in Ids /\ Fresh # 0
        BY FreshNumber
    <2>3. DynLoadTypeOK
        BY DEF TypeOK
    <2>4. /\ heap' \subseteq Ids
          /\ gAllocatedAddresses' \subseteq Ids
          /\ moduleMemory' \subseteq Ids
        BY <1>2, <2>2, <2>3 DEF Load, Alloc, DynLoadTypeOK
    <2> QED
        BY <2>1, <2>2, <2>3, <2>4 DEF DynLoadTypeOK
<1> QED
    BY <1>1, <1>2 DEF Acquire

LEMMA ReleaseTypes ==
    ASSUME TypeOK, NEW r \in Rpls, Release(r)
    PROVE  DynLoadTypeOK'
<1>0. DynLoadTypeOK
    BY DEF TypeOK
<1>1. CASE DropRef(r)
    BY <1>0, <1>1 DEF DropRef, memory, DynLoadTypeOK
<1>2. CASE Unload(r)
    BY <1>0, <1>2 DEF Unload, Free, NotLoaded, Owners, DynLoadTypeOK
<1> QED
    BY <1>1, <1>2 DEF Release

LEMMA TypedStep == TypeOK /\ Typed /\ [Next]_vars => Typed'
<1> SUFFICES ASSUME TypeOK, Typed, [Next]_vars PROVE Typed'
    OBVIOUS
<1>0. desc' = desc /\ Modules' = Modules /\ DescInit'
    BY DescUnchanged DEF Modules, Typed, DescInit
<1> USE <1>0 DEF Typed, Phases, Loops, start, reloc, app, dynLoadVars
<1>1. ASSUME OSFatal PROVE Typed'
    BY <1>1 DEF OSFatal, DynLoadTypeOK
<1>2. ASSUME NEW S \in SUBSET Rpls, NEW foreign \in BOOLEAN, StartProcess(S, foreign)
      PROVE  Typed'
    <2>1. PICK loads \in [S -> Ids] :
            /\ \A r \in S : loads[r] # 0
            /\ NewProcess(loads)
        BY <1>2, NewLoads DEF StartProcess
    <2>2. DynLoadTypeOK'
        BY <2>1 DEF NewProcess, memory, NotLoaded, Owners, DynLoadTypeOK
    <2> QED
        BY <1>2, <2>2 DEF StartProcess
<1>3. CASE Clear
    <2>1. DynLoadTypeOK'
        BY <1>3 DEF Clear, DynLoadTypeOK
    <2>2. pc' \in Phases
        BY <1>3 DEF Clear
    <2> QED
        BY <1>3, <2>1, <2>2, MaxModulesAssumption DEF Clear, NoHandles
<1>4. CASE LoadModules
    <2>1. PICK n \in 0..MaxModules : Modules = 1..n
        BY ModuleNumbers
    <2>2. gLoadedModules' \in [1..n -> Modules]
        BY <1>4, <2>1 DEF LoadModules
    <2>3. gLoadedModules' \in Seq(Modules) /\ Len(gLoadedModules') = n
        BY <2>2, MaxModulesAssumption
    <2> QED
        BY <1>4, <2>3, MaxModulesAssumption DEF LoadModules, DynLoadTypeOK
<1>5. CASE EndPhase
    <2>1. pc' \in Phases
        BY <1>5 DEF EndPhase, After
    <2> QED
        BY <1>5, <2>1, MaxModulesAssumption DEF EndPhase, memory, DynLoadTypeOK
<1>6. CASE SetAllocator
    BY <1>6 DEF SetAllocator, memory, DynLoadTypeOK, Owners
<1>7. ASSUME NEW r \in Rpls, SkipUnloaded(r) PROVE Typed'
    BY <1>7 DEF SkipUnloaded, DynLoadTypeOK
<1>8. ASSUME NEW r \in Rpls, AcquireImport(r) PROVE Typed'
    <2>1. DynLoadTypeOK' /\ rpl'[r].id \in Ids
        BY <1>8, AcquireTypes DEF AcquireImport
    <2>2. cur \in Modules
        BY <1>8, CurrentModule DEF AcquireImport, Relocating
    <2> QED
        BY <1>8, <2>1, <2>2 DEF AcquireImport, LinkTo
<1>9. ASSUME NEW r \in Rpls, UseHandle(r) PROVE Typed'
    <2>2. cur \in Modules
        BY <1>9, CurrentModule DEF UseHandle, Relocating
    <2> QED
        BY <1>9, <2>2 DEF UseHandle, LinkTo, DynLoadTypeOK
<1>10. CASE Relocated
    <2>1. k' \in 1..(MaxModules + 1) /\ done' = {}
        BY <1>10, CurrentModule DEF Relocated, NextModule
    <2> QED
        BY <1>10, <2>1 DEF Relocated, DynLoadTypeOK
<1>11. CASE CallHook
    <2>1. PICK phase : InLoop(phase)
        BY <1>11 DEF CallHook, AtHook
    <2>2. k' \in 1..(MaxModules + 1) /\ done' = {} /\ cur \in Modules
        BY <1>11, <2>1, CurrentModule DEF CallHook, NextModule
    <2>3. moduleMemory' \subseteq moduleMemory
        BY <1>11 DEF CallHook
    <2>4. inits' \in [Modules -> 0..2]
        BY <1>11, <2>2, OnceMore DEF CallHook
    <2> QED
        BY <1>11, <2>2, <2>3, <2>4 DEF CallHook, DynLoadTypeOK
<1>12. CASE OtherLoop
    <2>1. k' \in 1..(MaxModules + 1) /\ done' = {}
        BY <1>12, CurrentModule DEF OtherLoop, NextModule
    <2> QED
        BY <1>12, <2>1 DEF OtherLoop, DynLoadTypeOK
<1>13. CASE SaveLoadedRPLs
    BY <1>13 DEF SaveLoadedRPLs, DynLoadTypeOK
<1>14. ASSUME NEW r \in Rpls, AppAcquire(r) PROVE Typed'
    BY <1>14, AcquireTypes DEF AppAcquire
<1>15. ASSUME NEW r \in Rpls, AppRelease(r) PROVE Typed'
    BY <1>15, ReleaseTypes DEF AppRelease
<1>16. CASE AppEnds
    BY <1>16 DEF AppEnds, DynLoadTypeOK
<1>17. ASSUME NEW r \in Rpls, BaseReleases(r) PROVE Typed'
    BY <1>17, ReleaseTypes DEF BaseReleases
<1>18. CASE ProcessEnds
    BY <1>18 DEF ProcessEnds, EndProcess, memory, NotLoaded, Owners, DynLoadTypeOK
<1>19. CASE UNCHANGED vars
    BY <1>19 DEF vars, DynLoadTypeOK
<1> QED
    BY <1>1, <1>2, <1>3, <1>4, <1>5, <1>6, <1>7, <1>8, <1>9, <1>10, <1>11, <1>12, <1>13,
       <1>14, <1>15, <1>16, <1>17, <1>18, <1>19
    DEF Next, LoaderStep, ExitStep, AppStep, NoHeap, LoadFails, RelocationFails, SaveFails

LEMMA TypeInit == Init => Typed /\ Flags
<1> SUFFICES ASSUME Init PROVE Typed /\ Flags
    OBVIOUS
<1>1. Flags
    BY Zenon DEF Init, Flags
<1>2. DynLoadTypeOK
    BY DEF Init, DynLoadInit, DynLoadTypeOK, NotLoaded, Owners
<1> QED
    BY <1>1, <1>2, MaxModulesAssumption DEF Init, Typed, Phases, Loops, NoHandles, Owners

(* The variables hold what their types allow, over any number of applications. *)
THEOREM LifecycleTypes == Spec => []TypeOK
<1>1. Init => Typed /\ Flags
    BY TypeInit
<1>2. Typed /\ Flags /\ [Next]_vars => (Typed /\ Flags)'
    BY TypedStep, FlagsStep, TypeParts
<1> QED
    BY <1>1, <1>2, TypeParts, PTL DEF Spec

-----------------------------------------------------------------------------
(* Control. *)

(* Operators of the descriptors mean the same in the next state. *)
LEMMA SameOrder ==
    ASSUME desc' = desc, gLoadedModules' = gLoadedModules
    PROVE  /\ Admissible(gLoadedModules)' <=> Admissible(gLoadedModules)
           /\ BaseLoaded' <=> BaseLoaded
           /\ \A m : Imports(m)' = Imports(m)
BY DEF Admissible, Distinct, Elements, Modules, DepsFirst, Satisfied, Required, Exports,
       EarlyFirst, BaseLeads, Regular, Precedes, BaseLoaded, Imports

LEMMA ControlInit == Init => Control
BY DEF Init, Control

LEMMA ControlStep == TypeOK /\ Typed /\ Control /\ [Next]_vars => Control'
<1> SUFFICES ASSUME TypeOK, Typed, Control, [Next]_vars PROVE Control'
    OBVIOUS
<1>0. desc' = desc
    BY DescUnchanged
<1> USE <1>0, SameOrder DEF Control, start, reloc, app
<1>1. ASSUME OSFatal PROVE Control'
    BY <1>1 DEF OSFatal
<1>2. ASSUME NEW S \in SUBSET Rpls, NEW foreign \in BOOLEAN, StartProcess(S, foreign)
      PROVE  Control'
    BY <1>2 DEF StartProcess
<1>3. CASE Clear
    BY <1>3 DEF Clear
<1>4. CASE LoadModules
    <2>1. Admissible(gLoadedModules)'
        <3>1. PICK order : Admissible(order) /\ gLoadedModules' = order
            BY <1>4 DEF LoadModules
        <3> QED
            BY <3>1 DEF Admissible, Distinct, Elements, Modules, DepsFirst, Satisfied, Required,
                        Exports, EarlyFirst, BaseLeads, Regular, Precedes
    <2> QED
        BY <1>4, <2>1 DEF LoadModules
<1>5. CASE EndPhase
    BY <1>5 DEF EndPhase, After
<1>6. CASE SetAllocator
    BY <1>6 DEF SetAllocator
<1>7. ASSUME NEW r \in Rpls, SkipUnloaded(r) \/ AcquireImport(r) \/ UseHandle(r) PROVE Control'
    BY <1>7 DEF SkipUnloaded, AcquireImport, UseHandle, Relocating, InLoop, LinkTo
<1>8. CASE Relocated
    BY <1>8 DEF Relocated, NextModule, InLoop
<1>9. CASE CallHook
    <2>1. PICK kind \in Hooks : AtHook(kind)
        BY <1>9 DEF CallHook
    <2>2. pc \in Loops \ {"reloc", "relocAll"}
        BY <2>1 DEF AtHook, InLoop, Sweep, Loops
    <2> QED
        BY <1>9, <2>2 DEF CallHook, NextModule, Loops
<1>10. CASE OtherLoop
    BY <1>10 DEF OtherLoop, NextModule, InLoop
<1>11. CASE SaveLoadedRPLs
    BY <1>11 DEF SaveLoadedRPLs
<1>12. ASSUME NEW r \in Rpls, AppAcquire(r) \/ AppRelease(r) PROVE Control'
    BY <1>12 DEF AppAcquire, AppRelease
<1>13. CASE AppEnds
    BY <1>13 DEF AppEnds
<1>14. ASSUME NEW r \in Rpls, BaseReleases(r) PROVE Control'
    BY <1>14 DEF BaseReleases
<1>15. CASE ProcessEnds
    BY <1>15 DEF ProcessEnds
<1>16. CASE UNCHANGED vars
    BY <1>16 DEF vars
<1> QED
    BY <1>1, <1>2, <1>3, <1>4, <1>5, <1>6, <1>7, <1>8, <1>9, <1>10, <1>11, <1>12, <1>13,
       <1>14, <1>15, <1>16
    DEF Next, LoaderStep, ExitStep, AppStep, NoHeap, LoadFails, RelocationFails, SaveFails

-----------------------------------------------------------------------------
(* References. *)

(* OSDynLoad_Acquire: one more reference, to the load that is there or a new one. *)
LEMMA Acquired ==
    ASSUME TypeOK, NEW r \in Rpls, Numbers # {}, Acquire(r, Fresh)
    PROVE  /\ \A q \in Rpls \ {r} : rpl'[q] = rpl[q]
           /\ rpl'[r].refs = rpl[r].refs + 1
           /\ rpl'[r].id # 0
           /\ IF Loaded(r) THEN /\ rpl'[r].id = rpl[r].id
                                /\ rpl'[r].by = rpl[r].by
                                /\ UNCHANGED <<gAllocatedAddresses, heap, moduleMemory>>
                           ELSE /\ rpl'[r].id = Fresh
                                /\ rpl'[r].by = allocator
                                /\ Alloc(Fresh)
           /\ allocator' = allocator
<1>1. rpl \in [Rpls -> [id : Ids \cup {0}, refs : Nat, by : Owners]]
    BY DEF TypeOK, DynLoadTypeOK
<1>2. CASE AddRef(r)
    BY <1>1, <1>2 DEF AddRef, Loaded, memory
<1>3. CASE Load(r, Fresh)
    <2>1. rpl[r].refs = 0
        BY <1>3 DEF TypeOK, DynLoadTypeOK, Load, Loaded
    <2>2. Fresh # 0
        BY FreshNumber
    <2> QED
        BY <1>1, <1>3, <2>1, <2>2 DEF Load, Loaded
<1> QED
    BY <1>2, <1>3 DEF Acquire

(* OSDynLoad_Release: one less, and with the last the load is gone. *)
LEMMA Released ==
    ASSUME TypeOK, NEW r \in Rpls, Release(r)
    PROVE  /\ \A q \in Rpls \ {r} : rpl'[q] = rpl[q]
           /\ rpl[r].refs # 0
           /\ rpl'[r].refs = rpl[r].refs - 1
           /\ IF rpl[r].refs = 1 THEN rpl'[r] = NotLoaded /\ Free(r)
                                 ELSE /\ rpl'[r].id = rpl[r].id
                                      /\ rpl'[r].by = rpl[r].by
                                      /\ UNCHANGED <<gAllocatedAddresses, heap, moduleMemory>>
           /\ allocator' = allocator
<1>1. rpl \in [Rpls -> [id : Ids \cup {0}, refs : Nat, by : Owners]]
    BY DEF TypeOK, DynLoadTypeOK
<1>2. CASE DropRef(r)
    BY <1>1, <1>2 DEF DropRef, memory
<1>3. CASE Unload(r)
    BY <1>1, <1>3 DEF Unload, NotLoaded
<1> QED
    BY <1>2, <1>3 DEF Release

LEMMA ReferencesInit == Init => References
BY DEF Init, DynLoadInit, References, Active, Loops, NotLoaded, Loaded

LEMMA StartReferences ==
    ASSUME TypeOK, Control, References, NEW S \in SUBSET Rpls, NEW foreign \in BOOLEAN,
           StartProcess(S, foreign)
    PROVE  References'
<1>1. PICK loads \in [S -> Ids] :
        /\ \A r \in S : loads[r] # 0
        /\ \A r, q \in S : loads[r] = loads[q] => r = q
        /\ NewProcess(loads)
    BY NewLoads DEF StartProcess
<1>2. \A r \in Rpls : /\ r \in S => rpl'[r].id = loads[r] /\ rpl'[r].refs = 1
                      /\ r \notin S => rpl'[r].id = 0 /\ rpl'[r].refs = 0
    BY <1>1 DEF NewProcess, NotLoaded
<1>3. /\ pc = "idle" /\ pc' \in {"running", "clear"}
      /\ sysRefs' = S /\ appRefs' = {}
      /\ gUsedRPLs' = gUsedRPLs /\ acquired_rpls' = acquired_rpls
      /\ pc' = "running" => ucSetupRequired
    BY DEF StartProcess, References, reloc
<1>4. \A r, q \in Rpls : Loaded(r)' /\ rpl'[r].id = rpl'[q].id => r = q
    BY <1>1, <1>2 DEF Loaded
<1>5. \A r \in Rpls : rpl'[r].refs = IF r \in S THEN 1 ELSE 0
    BY <1>2
<1>6. pc' = "running" => gUsedRPLs = [r \in Rpls |-> 0] /\ acquired_rpls = {}
    BY <1>3 DEF Control, NoHandles
<1> QED
    BY <1>3, <1>4, <1>5, <1>6 DEF References, One, Held, Active, Loops

LEMMA AcquireReferences ==
    ASSUME TypeOK, References, NEW r \in Rpls, Numbers # {}, Acquire(r, Fresh)
    PROVE  \A p, q \in Rpls : Loaded(p)' /\ rpl'[p].id = rpl'[q].id => p = q
<1>1. \A q \in Rpls : rpl[q].id # Fresh
    BY FreshNumber, NotRemembered
<1>2. \A p, q \in Rpls : Loaded(p) /\ rpl[p].id = rpl[q].id => p = q
    BY DEF References
<1> QED
    BY <1>1, <1>2, Acquired DEF Loaded

LEMMA ReleaseReferences ==
    ASSUME TypeOK, References, NEW r \in Rpls, Release(r)
    PROVE  \A p, q \in Rpls : Loaded(p)' /\ rpl'[p].id = rpl'[q].id => p = q
<1>1. \A p, q \in Rpls : Loaded(p) /\ rpl[p].id = rpl[q].id => p = q
    BY DEF References
<1> QED
    BY <1>1, Released DEF Loaded, NotLoaded

LEMMA ImportReferences ==
    ASSUME TypeOK, Control, References, NEW r \in Rpls, AcquireImport(r)
    PROVE  References'
<1>1. /\ pc \in {"reloc", "relocAll"} /\ pc' = pc
      /\ gUsedRPLs[r] = 0
      /\ Numbers # {} /\ Acquire(r, Fresh)
      /\ gUsedRPLs' = [gUsedRPLs EXCEPT ![r] = rpl'[r].id]
      /\ appRefs' = appRefs /\ sysRefs' = sysRefs
    BY DEF AcquireImport, Relocating, InLoop, app
<1>2. \A p, q \in Rpls : Loaded(p)' /\ rpl'[p].id = rpl'[q].id => p = q
    BY <1>1, AcquireReferences
<1>3. gUsedRPLs \in [Rpls -> Ids \cup {0}]
    BY DEF TypeOK
<1>4. ASSUME NEW q \in Rpls
      PROVE  /\ gUsedRPLs'[q] \in {0, rpl'[q].id}
             /\ rpl'[q].refs = One(q, sysRefs) + One(q, appRefs) + One(q, Held')
    <2>1. /\ gUsedRPLs[q] \in {0, rpl[q].id}
          /\ rpl[q].refs = One(q, sysRefs) + One(q, appRefs) + One(q, Held)
        BY <1>1 DEF References, Active, Loops
    <2>2. CASE q = r
        BY <1>1, <1>3, <2>1, <2>2, Acquired DEF One, Held
    <2>3. CASE q # r
        BY <1>1, <1>3, <2>1, <2>3, Acquired DEF One, Held
    <2> QED
        BY <2>2, <2>3
<1> QED
    BY <1>1, <1>2, <1>4 DEF References, One, Active, Loops

LEMMA AppReferences ==
    ASSUME TypeOK, Control, References, NEW r \in Rpls, AppAcquire(r) \/ AppRelease(r)
    PROVE  References'
<1>1. /\ pc \in {"early", "running"} /\ pc' = pc
      /\ gUsedRPLs' = gUsedRPLs /\ acquired_rpls' = acquired_rpls /\ sysRefs' = sysRefs
    BY DEF AppAcquire, AppRelease, reloc
<1>2. \A p, q \in Rpls : Loaded(p)' /\ rpl'[p].id = rpl'[q].id => p = q
    BY AcquireReferences, ReleaseReferences DEF AppAcquire, AppRelease
<1>3. ASSUME NEW q \in Rpls
      PROVE  /\ gUsedRPLs[q] \in {0, rpl'[q].id}
             /\ rpl'[q].refs = One(q, sysRefs) + One(q, appRefs') + One(q, Held)
    <2>1. /\ gUsedRPLs[q] \in {0, rpl[q].id}
          /\ rpl[q].refs = One(q, sysRefs) + One(q, appRefs) + One(q, Held)
          /\ rpl[q].id = 0 <=> rpl[q].refs = 0
        BY <1>1 DEF References, Active, Loops, TypeOK, DynLoadTypeOK
    <2>2. CASE AppAcquire(r)
        BY <2>1, <2>2, Acquired DEF AppAcquire, One, Loaded
    <2>3. CASE AppRelease(r)
        <3>1. r \in appRefs /\ appRefs' = appRefs \ {r} /\ Release(r)
            BY <2>3 DEF AppRelease
        <3>2. CASE q = r
            <4>1. rpl[r].refs = 1 => r \notin Held
                BY <2>1, <3>1, <3>2 DEF One
            <4> QED
                BY <2>1, <3>1, <3>2, <4>1, Released DEF One, Held
        <3>3. CASE q # r
            BY <2>1, <3>1, <3>3, Released DEF One
        <3> QED
            BY <3>2, <3>3
    <2> QED
        BY <2>2, <2>3
<1> QED
    BY <1>1, <1>2, <1>3 DEF References, One, Held, Active, Loops

(* What the base module finds in the list are the handles of the map. *)
LEMMA HandlesToRelease ==
    ASSUME Control, References, pc = "running"
    PROVE  ToRelease = Held
<1>1. ToRelease = {r \in Rpls : rpl[r].id # 0 /\ rpl[r].id \in acquired_rpls}
    BY DEF ToRelease, Loaded, Control
<1>2. acquired_rpls = {gUsedRPLs[r] : r \in Rpls} \ {0}
    BY DEF References
<1>3. \A r \in Rpls : gUsedRPLs[r] \in {0, rpl[r].id}
    BY DEF References, Active
<1>4. \A r, q \in Rpls : rpl[r].id # 0 /\ rpl[r].id = rpl[q].id => r = q
    BY DEF References, Loaded
<1> QED
    BY <1>1, <1>2, <1>3, <1>4 DEF Held

(* At its end the process has the handles of the map still to release. *)
LEMMA EndReferences ==
    ASSUME TypeOK, Control, References, AppEnds
    PROVE  References'
<1>1. /\ pc = "running" /\ pc' = "exit" /\ done = {}
      /\ UNCHANGED <<rpl, done, gUsedRPLs, acquired_rpls, appRefs, sysRefs>>
    BY DEF AppEnds, Control, dynLoadVars, reloc, app
<1>2. ToRelease' = Held
    BY <1>1, HandlesToRelease DEF ToRelease, Loaded
<1> QED
    BY <1>1, <1>2 DEF References, One, Loaded, Active, Loops

LEMMA BaseReferences ==
    ASSUME TypeOK, Control, References, NEW r \in Rpls, BaseReleases(r)
    PROVE  References'
<1>1. /\ pc = "exit" /\ pc' = "exit"
      /\ r \in ToRelease /\ Release(r) /\ done' = done \cup {r}
      /\ UNCHANGED <<acquired_rpls, appRefs, sysRefs>>
    BY DEF BaseReleases, app
<1>2. \A p, q \in Rpls : Loaded(p)' /\ rpl'[p].id = rpl'[q].id => p = q
    BY <1>1, ReleaseReferences
<1>3. ToRelease' = ToRelease \ {r}
    BY <1>1, Released DEF ToRelease, Loaded
<1>4. \A q \in Rpls : rpl[q].refs = One(q, sysRefs) + One(q, appRefs) + One(q, ToRelease)
    BY <1>1 DEF References
<1>5. rpl[r].refs \in Nat
    BY DEF TypeOK, DynLoadTypeOK
<1>6. \A q \in Rpls : rpl'[q].refs = One(q, sysRefs) + One(q, appRefs) + One(q, ToRelease')
    BY <1>1, <1>3, <1>4, <1>5, Released DEF One
<1> QED
    BY <1>1, <1>2, <1>6 DEF References, One, Active, Loops

LEMMA OtherReferences ==
    ASSUME TypeOK, Control, References, UNCHANGED <<rpl, appRefs, sysRefs>>,
           UNCHANGED <<gUsedRPLs, acquired_rpls>>,
           pc' = "fatal" \/ (pc \in Active /\ pc' \in Active \ {"devoptab"}
                             /\ (pc' = "sockets" => pc \in {"devoptab", "sockets"})
                             /\ (pc' = "starts" => pc \in {"sockets", "starts"})
                             /\ (pc' = "allStarts" => pc \in {"starts", "allStarts"})
                             /\ (pc' = "running" => pc \in {"allStarts", "running"}))
    PROVE  References'
BY DEF References, One, Held, Loaded, Active, Loops

LEMMA ReferencesStep ==
    TypeOK /\ Control /\ References /\ [Next]_vars => References'
<1> SUFFICES ASSUME TypeOK, Control, References, [Next]_vars PROVE References'
    OBVIOUS
<1> USE DEF start, reloc, app, dynLoadVars, memory
<1>1. ASSUME OSFatal PROVE References'
    BY <1>1, OtherReferences DEF OSFatal
<1>2. ASSUME NEW S \in SUBSET Rpls, NEW foreign \in BOOLEAN, StartProcess(S, foreign)
      PROVE  References'
    BY <1>2, StartReferences
<1>3. CASE Clear
    <2>1. /\ pc = "clear" /\ pc' \in {"clearRpl", "load"}
          /\ gUsedRPLs' = [r \in Rpls |-> 0]
          /\ UNCHANGED <<rpl, appRefs, sysRefs>>
        BY <1>3 DEF Clear, NoHandles
    <2> QED
        BY <2>1 DEF References, TypeOK, DynLoadTypeOK, One, Held, Loaded, Active, Loops
<1>4. CASE LoadModules \/ SetAllocator
    BY <1>4, OtherReferences DEF LoadModules, SetAllocator, Active, Loops
<1>5. CASE EndPhase
    <2>1. /\ pc \in Active /\ pc' \in Active \ {"devoptab"}
          /\ (pc' = "sockets" => pc \in {"devoptab", "sockets"})
          /\ (pc' = "starts" => pc \in {"sockets", "starts"})
          /\ (pc' = "allStarts" => pc \in {"starts", "allStarts"})
          /\ (pc' = "running" => pc \in {"allStarts", "running"})
        BY <1>5 DEF EndPhase, After, Active, Loops
    <2> QED
        BY <1>5, <2>1, OtherReferences DEF EndPhase
<1>6. ASSUME NEW r \in Rpls, SkipUnloaded(r) \/ UseHandle(r) PROVE References'
    <2>1. pc \in {"reloc", "relocAll"}
        BY <1>6 DEF SkipUnloaded, UseHandle, Relocating, InLoop
    <2> QED
        BY <1>6, <2>1, OtherReferences DEF SkipUnloaded, UseHandle, Active, Loops
<1>7. ASSUME NEW r \in Rpls, AcquireImport(r) PROVE References'
    BY <1>7, ImportReferences
<1>8. CASE Relocated \/ OtherLoop
    <2>1. pc \in Loops \ {"sockets", "starts", "allStarts", "devoptab"}
        BY <1>8 DEF Relocated, OtherLoop, InLoop, Loops
    <2> QED
        BY <1>8, <2>1, OtherReferences DEF Relocated, OtherLoop, Active, Loops
<1>9. CASE CallHook
    <2>1. PICK kind \in Hooks : AtHook(kind)
        BY <1>9 DEF CallHook
    <2>2. pc \in Loops
        BY <2>1 DEF AtHook, InLoop, Sweep, Loops
    <2>3. UNCHANGED <<rpl, appRefs, sysRefs, gUsedRPLs, acquired_rpls, pc>>
        BY <1>9 DEF CallHook
    <2> QED
        BY <2>2, <2>3 DEF References, One, Held, Loaded, Active, Loops
<1>10. CASE SaveLoadedRPLs
    BY <1>10 DEF SaveLoadedRPLs, References, One, Held, Loaded, Active, Loops
<1>11. ASSUME NEW r \in Rpls, AppAcquire(r) \/ AppRelease(r) PROVE References'
    BY <1>11, AppReferences
<1>12. CASE AppEnds
    BY <1>12, EndReferences
<1>13. ASSUME NEW r \in Rpls, BaseReleases(r) PROVE References'
    BY <1>13, BaseReferences
<1>14. CASE ProcessEnds
    BY <1>14 DEF ProcessEnds, EndProcess, References, Loaded, NotLoaded, Active, Loops
<1>15. CASE UNCHANGED vars
    BY <1>15 DEF vars, References, One, Held, Loaded, ToRelease
<1> QED
    BY <1>1, <1>2, <1>3, <1>4, <1>5, <1>6, <1>7, <1>8, <1>9, <1>10, <1>11, <1>12, <1>13,
       <1>14, <1>15
    DEF Next, LoaderStep, ExitStep, AppStep, NoHeap, LoadFails, RelocationFails, SaveFails

(* What the three parts say together. *)
LEMMA ReferencesHold == Spec => [](TypeOK /\ Control /\ References)
<1>1. Init => Typed /\ Flags /\ Control /\ References
    BY TypeInit, ControlInit, ReferencesInit
<1>2. Typed /\ Flags /\ Control /\ References /\ [Next]_vars
         => (Typed /\ Flags /\ Control /\ References)'
    BY TypedStep, FlagsStep, TypeParts, ControlStep, ReferencesStep
<1> QED
    BY <1>1, <1>2, TypeParts, PTL DEF Spec

(* While an application runs and at its end, an RPL has one reference for the program's
   import, one for what the application acquired, and one for the handle that the base
   module has still to release (RelocationUtils.cpp 113-138, entry.cpp 63-79). *)
THEOREM ReferencesBalance == Spec => []RefsBalanced
<1>1. TypeOK /\ Control /\ References => RefsBalanced
    <2> SUFFICES ASSUME TypeOK, Control, References, pc \in {"running", "exit"}
                 PROVE  RefsBalanced
        BY DEF RefsBalanced
    <2>1. CASE pc = "running"
        <3>1. acquired_rpls = {gUsedRPLs[r] : r \in Rpls} \ {0}
            BY <2>1 DEF References
        <3>2. \A r \in Rpls : /\ gUsedRPLs[r] \in {0, rpl[r].id}
                              /\ rpl[r].refs = One(r, sysRefs) + One(r, appRefs) + One(r, Held)
            BY <2>1 DEF References, Active
        <3>5. ToRelease = Held
            BY <2>1, HandlesToRelease
        <3>6. acquired_rpls \subseteq {rpl[r].id : r \in Rpls}
            BY <3>1, <3>2
        <3> QED
            BY <2>1, <3>2, <3>5, <3>6 DEF RefsBalanced, One
    <2>2. CASE pc = "exit"
        BY <2>2 DEF References, RefsBalanced, One
    <2> QED
        BY <2>1, <2>2
<1> QED
    BY <1>1, ReferencesHold, PTL

-----------------------------------------------------------------------------
(* Blocks: which RPL has its block where. *)

LEMMA OwnedInit == Init => Owned
BY DEF Init, DynLoadInit, Owned, NotLoaded

LEMMA AcquireOwned ==
    ASSUME TypeOK, Owned, NEW r \in Rpls, Numbers # {}, Acquire(r, Fresh)
    PROVE  /\ heap' = gAllocatedAddresses'
           /\ \A q \in Rpls : /\ rpl'[q].by = "loader" => rpl'[q].id \in heap'
                              /\ rpl'[q].by = "module" => rpl'[q].id \in moduleMemory'
                              /\ rpl'[q].by = "app" => rpl'[q].id \notin heap' \cup moduleMemory'
           /\ \A q \in sysRefs : q \in Rpls => rpl'[q].id # 0 /\ rpl'[q].by = "app"
           /\ (\A q \in Rpls : rpl[q].by = "app") /\ allocator = "app"
                 => \A q \in Rpls : rpl'[q].by = "app"
<1>1. /\ Fresh # 0
      /\ \A q \in Rpls : rpl[q].id # Fresh
      /\ Fresh \notin heap \cup moduleMemory
    BY FreshNumber, NotRemembered
<1>2. CASE Loaded(r)
    BY <1>2, Acquired DEF Owned, Loaded
<1>3. CASE ~Loaded(r)
    <2>1. /\ \A q \in Rpls \ {r} : rpl'[q] = rpl[q]
          /\ rpl'[r].id = Fresh /\ rpl'[r].by = allocator
          /\ Alloc(Fresh)
        BY <1>3, Acquired
    <2> QED
        BY <1>1, <1>3, <2>1 DEF Owned, Loaded, Alloc
<1> QED
    BY <1>2, <1>3

LEMMA ReleaseOwned ==
    ASSUME TypeOK, References, Owned, NEW r \in Rpls, Release(r),
           r \in sysRefs => rpl[r].refs # 1
    PROVE  /\ heap' = gAllocatedAddresses'
           /\ \A q \in Rpls : /\ rpl'[q].by = "loader" => rpl'[q].id \in heap'
                              /\ rpl'[q].by = "module" => rpl'[q].id \in moduleMemory'
                              /\ rpl'[q].by = "app" => rpl'[q].id \notin heap' \cup moduleMemory'
           /\ \A q \in sysRefs : q \in Rpls => rpl'[q].id # 0 /\ rpl'[q].by = "app"
<1>1. /\ \A q \in Rpls : rpl[q].id \in Ids \cup {0}
      /\ heap \subseteq Ids /\ moduleMemory \subseteq Ids /\ 0 \notin Ids
    BY IdsAssumption DEF TypeOK, DynLoadTypeOK
<1>2. CASE rpl[r].refs # 1
    BY <1>2, Released DEF Owned, Loaded
<1>3. CASE rpl[r].refs = 1
    <2>1. /\ \A q \in Rpls \ {r} : rpl'[q] = rpl[q]
          /\ rpl'[r].id = 0 /\ rpl'[r].by = "app"
          /\ Free(r)
        BY <1>3, Released DEF NotLoaded
    <2>2. \A q \in Rpls \ {r} : rpl[q].id # 0 => rpl[q].id # rpl[r].id
        BY DEF References, Loaded
    <2> QED
        BY <1>1, <1>3, <2>1, <2>2 DEF Owned, Loaded, Free
<1> QED
    BY <1>2, <1>3

LEMMA OwnedStep ==
    TypeOK /\ Control /\ References /\ Owned /\ [Next]_vars => Owned'
<1> SUFFICES ASSUME TypeOK, Control, References, Owned, [Next]_vars PROVE Owned'
    OBVIOUS
<1> USE DEF start, reloc, app, dynLoadVars, memory
<1>0. sysRefs \subseteq Rpls /\ appRefs \subseteq Rpls
    BY DEF TypeOK
<1>1. ASSUME OSFatal PROVE Owned'
    BY <1>1 DEF OSFatal, Owned, Loaded, Before
<1>2. ASSUME NEW S \in SUBSET Rpls, NEW foreign \in BOOLEAN, StartProcess(S, foreign)
      PROVE  Owned'
    <2>1. PICK loads \in [S -> Ids] :
            /\ \A r \in S : loads[r] # 0 /\ loads[r] \notin Remembered
            /\ NewProcess(loads)
        BY <1>2, NewLoads DEF StartProcess
    <2>2. \A r \in Rpls : /\ r \in S => rpl'[r].id = loads[r]
                          /\ r \notin S => rpl'[r].id = 0
                          /\ rpl'[r].by = "app"
        BY <2>1 DEF NewProcess, NotLoaded
    <2>3. /\ \A r \in S : loads[r] \notin heap \cup moduleMemory
          /\ 0 \notin heap \cup moduleMemory
        BY <2>1, IdsAssumption, NotRemembered DEF TypeOK, DynLoadTypeOK
    <2>4. /\ UNCHANGED <<gAllocatedAddresses, heap, moduleMemory>>
          /\ allocator' = "app" /\ sysRefs' = S /\ pc' \in {"running", "clear"}
        BY <1>2, <2>1 DEF StartProcess, NewProcess
    <2> QED
        BY <2>1, <2>2, <2>3, <2>4 DEF Owned, Loaded
<1>3. CASE Clear
    BY <1>3 DEF Clear, Owned, Loaded, Before
<1>4. CASE LoadModules
    BY <1>4 DEF LoadModules, Owned, Loaded, Before
<1>5. CASE SetAllocator
    BY <1>5 DEF SetAllocator, Owned, Loaded, Before
<1>6. CASE EndPhase
    <2>1. /\ pc' # "relocAll" /\ pc' # "fatal" /\ pc # "fatal"
          /\ pc' \in Before => pc \in Before
        BY <1>6 DEF EndPhase, After, Before
    <2>2. /\ UNCHANGED <<rpl, gAllocatedAddresses, heap, moduleMemory, sysRefs>>
          /\ UNCHANGED <<prevAllocator, customAllocator>>
          /\ allocator' = IF pc = "relocAll" THEN prevAllocator ELSE allocator
        BY <1>6 DEF EndPhase
    <2> QED
        BY <2>1, <2>2 DEF Owned, Loaded, Before
<1>7. ASSUME NEW r \in Rpls, SkipUnloaded(r) \/ UseHandle(r) PROVE Owned'
    BY <1>7 DEF SkipUnloaded, UseHandle, Owned, Loaded, Before
<1>8. ASSUME NEW r \in Rpls, AcquireImport(r) PROVE Owned'
    <2>1. /\ pc \in {"reloc", "relocAll"} /\ pc' = pc
          /\ Numbers # {} /\ Acquire(r, Fresh)
          /\ UNCHANGED <<sysRefs, prevAllocator, customAllocator>>
        BY <1>8 DEF AcquireImport, Relocating, InLoop
    <2>2. allocator' = allocator
        BY <2>1, Acquired
    <2> QED
        BY <1>0, <2>1, <2>2, AcquireOwned DEF Owned, Loaded, Before
<1>9. CASE Relocated \/ OtherLoop
    BY <1>9 DEF Relocated, OtherLoop, Owned, Loaded, Before
<1>10. CASE CallHook
    <2>1. PICK kind \in Hooks : AtHook(kind)
        BY <1>10 DEF CallHook
    <2>2. pc \in Loops \ {"reloc", "relocAll"}
        BY <2>1 DEF AtHook, InLoop, Sweep, Loops
    <2>3. Calls("CLEAR_ALLOCATED_RPL_MEMORY") => pc = "clearRpl"
        BY DEF Calls, AtHook, Sweep, InLoop
    <2>4. /\ UNCHANGED <<rpl, allocator, gAllocatedAddresses, heap, pc, sysRefs, prevAllocator>>
          /\ customAllocator => customAllocator'
          /\ moduleMemory' = IF Calls("CLEAR_ALLOCATED_RPL_MEMORY") THEN {} ELSE moduleMemory
        BY <1>10 DEF CallHook
    <2>5. CASE Calls("CLEAR_ALLOCATED_RPL_MEMORY")
        BY <2>2, <2>3, <2>4, <2>5 DEF Owned, Loaded, Before, Loops
    <2>6. CASE ~Calls("CLEAR_ALLOCATED_RPL_MEMORY")
        BY <2>2, <2>4, <2>6 DEF Owned, Loaded, Before, Loops
    <2> QED
        BY <2>5, <2>6
<1>11. CASE SaveLoadedRPLs
    BY <1>11 DEF SaveLoadedRPLs, Owned, Loaded, Before
<1>12. ASSUME NEW r \in Rpls, AppAcquire(r) PROVE Owned'
    <2>1. /\ pc \in {"early", "running"} /\ pc' = pc
          /\ Numbers # {} /\ Acquire(r, Fresh)
          /\ UNCHANGED <<sysRefs, prevAllocator, customAllocator>>
        BY <1>12 DEF AppAcquire
    <2>2. allocator' = allocator
        BY <2>1, Acquired
    <2> QED
        BY <1>0, <2>1, <2>2, AcquireOwned DEF Owned, Loaded, Before
<1>13. ASSUME NEW r \in Rpls, AppRelease(r) PROVE Owned'
    <2>1. /\ pc = "running" /\ pc' = pc
          /\ r \in appRefs /\ Release(r)
          /\ UNCHANGED <<sysRefs, prevAllocator, customAllocator>>
        BY <1>13 DEF AppRelease
    <2>2. r \in sysRefs => rpl[r].refs # 1
        BY <2>1 DEF References, One, Active
    <2>3. allocator' = allocator
        BY <2>1, Released
    <2> QED
        BY <1>0, <2>1, <2>2, <2>3, ReleaseOwned DEF Owned, Loaded, Before
<1>14. CASE AppEnds
    BY <1>14 DEF AppEnds, Owned, Loaded, Before
<1>15. ASSUME NEW r \in Rpls, BaseReleases(r) PROVE Owned'
    <2>1. /\ pc = "exit" /\ pc' = pc
          /\ r \in ToRelease /\ Release(r)
          /\ UNCHANGED <<sysRefs, prevAllocator, customAllocator>>
        BY <1>15 DEF BaseReleases
    <2>2. r \in sysRefs => rpl[r].refs # 1
        BY <2>1 DEF References, One
    <2>3. allocator' = allocator
        BY <2>1, Released
    <2> QED
        BY <1>0, <2>1, <2>2, <2>3, ReleaseOwned DEF Owned, Loaded, Before
<1>16. CASE ProcessEnds
    <2>1. 0 \notin heap \cup moduleMemory
        BY IdsAssumption DEF TypeOK, DynLoadTypeOK
    <2> QED
        BY <1>16, <2>1 DEF ProcessEnds, EndProcess, NotLoaded, Owned, Loaded, Before
<1>17. CASE UNCHANGED vars
    BY <1>17 DEF vars, Owned, Loaded, Before
<1> QED
    BY <1>1, <1>2, <1>3, <1>4, <1>5, <1>6, <1>7, <1>8, <1>9, <1>10, <1>11, <1>12, <1>13,
       <1>14, <1>15, <1>16, <1>17
    DEF Next, LoaderStep, ExitStep, AppStep, NoHeap, LoadFails, RelocationFails, SaveFails

-----------------------------------------------------------------------------
(* Memory. *)

LEMMA AcquireBlocks ==
    ASSUME TypeOK, Owned, NEW r \in Rpls, Numbers # {}, Acquire(r, Fresh),
           heap \cup moduleMemory = Blocks
    PROVE  heap' \cup moduleMemory' = Blocks'
<1>1. CASE Loaded(r)
    <2>1. Blocks' = Blocks
        BY <1>1, Acquired DEF Blocks
    <2> QED
        BY <1>1, <2>1, Acquired
<1>2. CASE ~Loaded(r)
    <2>1. /\ \A q \in Rpls \ {r} : rpl'[q] = rpl[q]
          /\ rpl'[r].id = Fresh /\ rpl'[r].by = allocator
          /\ Alloc(Fresh)
        BY <1>2, Acquired
    <2>2. rpl[r].by = "app"
        <3>1. rpl[r].id \notin heap /\ rpl[r].id \notin moduleMemory
            BY <1>2, IdsAssumption DEF Loaded, TypeOK, DynLoadTypeOK
        <3>2. rpl[r].by \in Owners
            BY DEF TypeOK, DynLoadTypeOK
        <3> QED
            BY <3>1, <3>2 DEF Owned, Owners
    <2>3. allocator \in Owners
        BY DEF TypeOK, DynLoadTypeOK
    <2>4. Blocks' = IF allocator = "app" THEN Blocks ELSE Blocks \cup {Fresh}
        BY <2>1, <2>2 DEF Blocks
    <2>5. heap' \cup moduleMemory' = IF allocator = "app" THEN heap \cup moduleMemory
                                     ELSE (heap \cup moduleMemory) \cup {Fresh}
        BY <2>1, <2>3 DEF Alloc, Owners
    <2> QED
        BY <2>4, <2>5
<1> QED
    BY <1>1, <1>2

LEMMA ReleaseBlocks ==
    ASSUME TypeOK, References, Owned, NEW r \in Rpls, Release(r),
           heap \cup moduleMemory = Blocks
    PROVE  heap' \cup moduleMemory' = Blocks'
<1>1. CASE rpl[r].refs # 1
    <2>1. Blocks' = Blocks
        BY <1>1, Released DEF Blocks
    <2> QED
        BY <1>1, <2>1, Released
<1>2. CASE rpl[r].refs = 1
    <2>1. /\ \A q \in Rpls \ {r} : rpl'[q] = rpl[q]
          /\ rpl'[r].id = 0 /\ rpl'[r].by = "app"
          /\ Free(r)
        BY <1>2, Released DEF NotLoaded
    <2>2. \A q \in Rpls \ {r} : rpl[q].id # rpl[r].id
        BY <1>2 DEF References, Loaded, TypeOK, DynLoadTypeOK
    <2>3. Blocks' = Blocks \ {rpl[r].id}
        BY <2>1, <2>2 DEF Blocks
    <2>4. heap' \cup moduleMemory' = (heap \cup moduleMemory) \ {rpl[r].id}
        BY <2>1 DEF Free
    <2> QED
        BY <2>3, <2>4
<1> QED
    BY <1>1, <1>2

(* Where the allocator is given, the memory it gives is cleared. *)
LEMMA SomeoneClears ==
    ASSUME AllocatorsClear, TypeOK, HasFrom("GET_CUSTOM_RPL_ALLOCATOR", 1)
    PROVE  HasFrom("CLEAR_ALLOCATED_RPL_MEMORY", 1)
<1>1. PICK j \in 1..Len(gLoadedModules) :
        "GET_CUSTOM_RPL_ALLOCATOR" \in desc[gLoadedModules[j]].hooks
    BY DEF HasFrom
<1>2. gLoadedModules[j] \in Modules
    BY <1>1 DEF TypeOK
<1>3. desc[gLoadedModules[j]] \in Catalog
    BY <1>2 DEF TypeOK, DescInit, Modules
<1> QED
    BY <1>1, <1>3 DEF AllocatorsClear, HasFrom

LEMMA CleaningInit == Init => Cleaning
BY DEF Init, DynLoadInit, Cleaning, HasFrom, Active, Loops

(* A step that leaves the memory, or does to it what the RPLs say. *)
LEMMA CleaningKept ==
    ASSUME Cleaning, desc' = desc, UNCHANGED <<customAllocator, gInitCalled, gLoadedModules>>,
           moduleMemory' # {} => customAllocator,
           ~gInitCalled => heap' = {},
           pc' # "clearRpl",
           pc' \in Active \cup {"exit"} => heap' \cup moduleMemory' = Blocks'
    PROVE  Cleaning'
BY DEF Cleaning, HasFrom

LEMMA HookCleaning ==
    ASSUME TypeOK, Typed, Control, Cleaning, CallHook
    PROVE  Cleaning'
<1>0. desc' = desc /\ gLoadedModules' = gLoadedModules /\ gInitCalled' = gInitCalled
    BY DEF CallHook, start
<1>1. PICK kind \in Hooks : AtHook(kind)
    BY DEF CallHook
<1>2. pc \in Loops \ {"reloc", "relocAll"} /\ k \in 1..Len(gLoadedModules)
    BY <1>1 DEF AtHook, InLoop, Sweep, Loops, Typed
<1>3. Len(gLoadedModules) \in Nat
    BY DEF Typed
<1>4. /\ UNCHANGED <<rpl, heap, pc>>
      /\ customAllocator' = (customAllocator \/ Calls("GET_CUSTOM_RPL_ALLOCATOR"))
      /\ moduleMemory' = IF Calls("CLEAR_ALLOCATED_RPL_MEMORY") THEN {} ELSE moduleMemory
      /\ k' = k + 1
    BY DEF CallHook, NextModule
<1>5. Calls("CLEAR_ALLOCATED_RPL_MEMORY") <=>
          pc = "clearRpl" /\ "CLEAR_ALLOCATED_RPL_MEMORY" \in desc[cur].hooks
    BY <1>2 DEF Calls, AtHook, Sweep, InLoop, Loops
<1>6. HasFrom("GET_CUSTOM_RPL_ALLOCATOR", 1)' <=> HasFrom("GET_CUSTOM_RPL_ALLOCATOR", 1)
    BY <1>0 DEF HasFrom
<1>7. customAllocator' => HasFrom("GET_CUSTOM_RPL_ALLOCATOR", 1)'
    <2>1. Calls("GET_CUSTOM_RPL_ALLOCATOR") => HasFrom("GET_CUSTOM_RPL_ALLOCATOR", 1)
        BY <1>2 DEF Calls, HasFrom, cur
    <2> QED
        BY <1>4, <1>6, <2>1 DEF Cleaning
<1>8. moduleMemory' # {} => customAllocator'
    BY <1>4 DEF Cleaning
<1>9. gInitCalled
    BY <1>2 DEF Control, Loops
<1>10. CASE pc = "clearRpl"
    <2>1. heap' = {}
        BY <1>4, <1>10 DEF Cleaning
    <2>2. moduleMemory' # {} => HasFrom("CLEAR_ALLOCATED_RPL_MEMORY", k)'
        <3>1. SUFFICES ASSUME moduleMemory' # {}
                       PROVE  HasFrom("CLEAR_ALLOCATED_RPL_MEMORY", k)'
            OBVIOUS
        <3>2. PICK j \in k..Len(gLoadedModules) :
                 "CLEAR_ALLOCATED_RPL_MEMORY" \in desc[gLoadedModules[j]].hooks
            BY <1>4, <1>10, <3>1 DEF Cleaning, HasFrom
        <3>3. j # k
            BY <1>4, <1>5, <1>10, <3>1, <3>2 DEF cur
        <3>4. j \in (k + 1)..Len(gLoadedModules)
            BY <1>2, <1>3, <3>2, <3>3
        <3> QED
            BY <1>0, <1>4, <3>2, <3>4 DEF HasFrom
    <2> QED
        BY <1>0, <1>4, <1>7, <1>8, <1>9, <1>10, <2>1, <2>2 DEF Cleaning
<1>11. CASE pc # "clearRpl"
    <2>1. moduleMemory' = moduleMemory /\ Blocks' = Blocks
        BY <1>4, <1>5, <1>11 DEF Blocks
    <2> QED
        BY <1>0, <1>4, <1>7, <1>8, <1>9, <1>11, <2>1 DEF Cleaning
<1> QED
    BY <1>10, <1>11

LEMMA CleaningStep ==
    ASSUME AllocatorsClear, TypeOK, Typed, Control, References, Owned, Cleaning, [Next]_vars
    PROVE  Cleaning'
<1> USE DEF start, reloc, app, dynLoadVars, memory
<1>0. desc' = desc
    BY DescUnchanged
<1>1. ASSUME OSFatal PROVE Cleaning'
    BY <1>0, <1>1, CleaningKept DEF OSFatal, Cleaning, Active, Loops
<1>2. ASSUME NEW S \in SUBSET Rpls, NEW foreign \in BOOLEAN, StartProcess(S, foreign)
      PROVE  Cleaning'
    <2>1. PICK loads \in [S -> Ids] : NewProcess(loads)
        BY <1>2, NewLoads DEF StartProcess
    <2>2. Blocks' = {}
        BY <2>1 DEF NewProcess, NotLoaded, Blocks
    <2>3. /\ UNCHANGED <<heap, moduleMemory, customAllocator, gInitCalled, gLoadedModules>>
          /\ pc' \in {"running", "clear"}
          /\ pc' = "running" => ~gInitCalled
        BY <1>2, <2>1 DEF StartProcess, NewProcess, Control
    <2>4. ~gInitCalled => heap = {} /\ moduleMemory = {}
        BY DEF Cleaning, Control
    <2> QED
        BY <1>0, <2>2, <2>3, <2>4, CleaningKept DEF Cleaning, Active, Loops
<1>3. CASE Clear
    <2>1. /\ pc = "clear"
          /\ heap' = {}
          /\ UNCHANGED <<rpl, moduleMemory, customAllocator, gLoadedModules>>
          /\ k' = 1
          /\ pc' = IF gInitCalled THEN "clearRpl" ELSE "load"
          /\ gInitCalled'
        BY <1>3 DEF Clear, Owned
    <2>2. Blocks' = {}
        BY <2>1 DEF Owned, Before, Blocks
    <2>3. customAllocator => HasFrom("GET_CUSTOM_RPL_ALLOCATOR", 1)'
        BY <1>0, <2>1 DEF Cleaning, HasFrom
    <2>4. moduleMemory # {} => HasFrom("CLEAR_ALLOCATED_RPL_MEMORY", 1)
        BY SomeoneClears DEF Cleaning
    <2>5. HasFrom("CLEAR_ALLOCATED_RPL_MEMORY", k)'
            <=> HasFrom("CLEAR_ALLOCATED_RPL_MEMORY", 1)
        BY <1>0, <2>1 DEF HasFrom
    <2>6. ~gInitCalled => moduleMemory = {}
        BY DEF Cleaning, Control
    <2> QED
        BY <2>1, <2>2, <2>3, <2>4, <2>5, <2>6 DEF Cleaning
<1>4. CASE LoadModules
    <2>1. /\ pc = "load" /\ pc' = "reloc"
          /\ UNCHANGED <<rpl, heap, moduleMemory, customAllocator, gInitCalled>>
        BY <1>4 DEF LoadModules
    <2>2. ~customAllocator
        BY <2>1 DEF Control, Cleaning, HasFrom
    <2>3. Blocks' = Blocks
        BY <2>1 DEF Blocks
    <2> QED
        BY <2>1, <2>2, <2>3 DEF Cleaning, Active, Loops
<1>5. CASE SetAllocator
    BY <1>0, <1>5, CleaningKept DEF SetAllocator, Cleaning, Blocks, Active, Loops
<1>6. CASE EndPhase
    <2>1. /\ pc \in Loops /\ pc' \in Active \ {"clearRpl"} /\ k > Len(gLoadedModules)
          /\ UNCHANGED <<rpl, heap, moduleMemory, customAllocator, gInitCalled, gLoadedModules>>
        BY <1>6, LoopsAre DEF EndPhase, After, Active, Loops
    <2>2. heap \cup moduleMemory = Blocks
        <3>1. CASE pc = "clearRpl"
            <4>1. k \in Nat /\ Len(gLoadedModules) \in Nat
                BY DEF Typed
            <4>2. ~HasFrom("CLEAR_ALLOCATED_RPL_MEMORY", k)
                BY <2>1, <4>1 DEF HasFrom
            <4>3. Blocks = {}
                BY <3>1 DEF Owned, Before, Blocks
            <4> QED
                BY <3>1, <4>2, <4>3 DEF Cleaning
        <3>2. CASE pc # "clearRpl"
            BY <2>1, <3>2 DEF Cleaning, Active
        <3> QED
            BY <3>1, <3>2
    <2>3. Blocks' = Blocks
        BY <2>1 DEF Blocks
    <2> QED
        BY <1>0, <2>1, <2>2, <2>3, CleaningKept DEF Cleaning
<1>7. ASSUME NEW r \in Rpls, SkipUnloaded(r) \/ UseHandle(r) PROVE Cleaning'
    <2>1. /\ pc \in {"reloc", "relocAll"} /\ pc' = pc
          /\ UNCHANGED <<rpl, heap, moduleMemory, customAllocator, gInitCalled, gLoadedModules>>
        BY <1>7 DEF SkipUnloaded, UseHandle, Relocating, InLoop
    <2> QED
        BY <1>0, <2>1, CleaningKept DEF Cleaning, Blocks
<1>8. ASSUME NEW r \in Rpls,
             AcquireImport(r) \/ AppAcquire(r)
      PROVE  Cleaning'
    <2>1. /\ pc \in {"reloc", "relocAll", "early", "running"} /\ pc' = pc
          /\ Numbers # {} /\ Acquire(r, Fresh)
          /\ UNCHANGED <<customAllocator, gInitCalled, gLoadedModules>>
        BY <1>8 DEF AcquireImport, AppAcquire, Relocating, InLoop
    <2>2. heap \cup moduleMemory = Blocks
        BY <2>1 DEF Cleaning, Active, Loops
    <2>3. heap' \cup moduleMemory' = Blocks'
        BY <2>1, <2>2, AcquireBlocks
    <2>4. moduleMemory' # {} => customAllocator
        BY <2>1, Acquired DEF Alloc, Owned, Cleaning
    <2>5. ~gInitCalled => heap' = {}
        BY <2>1, Acquired DEF Alloc, Owned, Cleaning, Control
    <2> QED
        BY <1>0, <2>1, <2>3, <2>4, <2>5, CleaningKept
<1>9. ASSUME NEW r \in Rpls, AppRelease(r) \/ BaseReleases(r) PROVE Cleaning'
    <2>1. /\ pc \in {"running", "exit"} /\ pc' = pc
          /\ Release(r)
          /\ UNCHANGED <<customAllocator, gInitCalled, gLoadedModules>>
        BY <1>9 DEF AppRelease, BaseReleases
    <2>2. heap \cup moduleMemory = Blocks
        BY <2>1 DEF Cleaning, Active
    <2>3. heap' \cup moduleMemory' = Blocks'
        BY <2>1, <2>2, ReleaseBlocks
    <2>4. heap' \subseteq heap /\ moduleMemory' \subseteq moduleMemory
        BY <2>1, Released DEF Free
    <2> QED
        BY <1>0, <2>1, <2>3, <2>4, CleaningKept DEF Cleaning
<1>10. CASE Relocated \/ OtherLoop
    <2>1. /\ pc \in Loops \ {"clearRpl"} /\ pc' = pc
          /\ UNCHANGED <<rpl, heap, moduleMemory, customAllocator, gInitCalled, gLoadedModules>>
        BY <1>10 DEF Relocated, OtherLoop, InLoop, Loops
    <2> QED
        BY <1>0, <2>1, CleaningKept DEF Cleaning, Blocks
<1>11. CASE CallHook
    BY <1>11, HookCleaning
<1>12. CASE SaveLoadedRPLs \/ AppEnds
    BY <1>0, <1>12, CleaningKept DEF SaveLoadedRPLs, AppEnds, Cleaning, Blocks, Active, Loops
<1>13. CASE ProcessEnds
    BY <1>0, <1>13, CleaningKept DEF ProcessEnds, EndProcess, Cleaning, Active, Loops
<1>14. CASE UNCHANGED vars
    BY <1>14 DEF vars, Cleaning, HasFrom, Blocks
<1> QED
    BY <1>1, <1>2, <1>3, <1>4, <1>5, <1>6, <1>7, <1>8, <1>9, <1>10, <1>11, <1>12, <1>13,
       <1>14
    DEF Next, LoaderStep, ExitStep, AppStep, NoHeap, LoadFails, RelocationFails, SaveFails

LEMMA OwnedHolds == Spec => [](TypeOK /\ Typed /\ Control /\ References /\ Owned)
<1>1. Init => Typed /\ Flags /\ Control /\ References /\ Owned
    BY TypeInit, ControlInit, ReferencesInit, OwnedInit
<1>2. Typed /\ Flags /\ Control /\ References /\ Owned /\ [Next]_vars
         => (Typed /\ Flags /\ Control /\ References /\ Owned)'
    BY TypedStep, FlagsStep, TypeParts, ControlStep, ReferencesStep, OwnedStep
<1> QED
    BY <1>1, <1>2, TypeParts, PTL DEF Spec

LEMMA CleaningHolds == ASSUME AllocatorsClear PROVE Spec => []Cleaning
<1>1. Init => Cleaning
    BY CleaningInit
<1>2. TypeOK /\ Typed /\ Control /\ References /\ Owned /\ Cleaning /\ [Next]_vars => Cleaning'
    BY CleaningStep
<1> QED
    BY <1>1, <1>2, OwnedHolds, PTL DEF Spec

(* The loader's list names exactly the blocks RPLs have in its heap; and from the second
   relocation on, what RPLs have in the loader's heap or the module's memory is what the
   RPLs of this application have (RelocationUtils.cpp 11-75, entry.cpp 97-103). *)
THEOREM MemoryIsBalanced == ASSUME AllocatorsClear PROVE Spec => []MemoryBalanced
<1>1. Owned /\ Cleaning => MemoryBalanced
    BY DEF Owned, Cleaning, MemoryBalanced, Active, Loops, Blocks
<1> QED
    BY <1>1, OwnedHolds, CleaningHolds, PTL

(* At the end of a process whose application gave back what it acquired, with the base
   module there, no RPL has memory left of the loader or of a module; and what an
   application loads is in its own memory. *)
THEOREM MemoryIsReturned == ASSUME AllocatorsClear PROVE Spec => MemoryReturns
<1> DEFINE Step == /\ ProcessEnds /\ BaseLoaded /\ appRefs = {} => heap = {} /\ moduleMemory = {}
                   /\ \A r \in Rpls : AppAcquire(r) /\ ~Loaded(r) => rpl'[r].by = "app"
<1>1. TypeOK /\ References /\ Owned /\ Cleaning => Step
    <2> SUFFICES ASSUME TypeOK, References, Owned, Cleaning PROVE Step
        OBVIOUS
    <2>1. ASSUME ProcessEnds, BaseLoaded, appRefs = {} PROVE heap = {} /\ moduleMemory = {}
        <3>1. pc = "exit" /\ ToRelease = {}
            BY <2>1 DEF ProcessEnds
        <3>2. \A r \in Rpls : rpl[r].refs = One(r, sysRefs)
            <4>1. \A r \in Rpls : rpl[r].refs = One(r, sysRefs) + One(r, appRefs) + One(r, ToRelease)
                BY <3>1 DEF References
            <4> QED
                BY <2>1, <3>1, <4>1 DEF One
        <3>3. \A r \in Rpls : rpl[r].by = "app"
            <4>1. \A r \in Rpls : /\ rpl[r].id = 0 <=> rpl[r].refs = 0
                                  /\ rpl[r].by \in Owners
                BY DEF TypeOK, DynLoadTypeOK
            <4>2. \A r \in Rpls : r \notin sysRefs => rpl[r].id = 0
                BY <3>2, <4>1 DEF One
            <4>3. 0 \notin heap /\ 0 \notin moduleMemory
                BY IdsAssumption DEF TypeOK, DynLoadTypeOK
            <4> QED
                BY <4>1, <4>2, <4>3 DEF Owned, Owners
        <3>4. Blocks = {}
            BY <3>3 DEF Blocks
        <3> QED
            BY <3>1, <3>4 DEF Cleaning, Active
    <2>2. ASSUME NEW r \in Rpls, AppAcquire(r), ~Loaded(r) PROVE rpl'[r].by = "app"
        BY <2>2, Acquired DEF AppAcquire, Owned
    <2> QED
        BY <2>1, <2>2
<1>2. Spec => [][Step]_vars
    BY <1>1, OwnedHolds, CleaningHolds, PTL DEF Spec
<1> QED
    BY <1>2 DEF MemoryReturns

-----------------------------------------------------------------------------
(* Links. *)

LEMMA RelocationsInit == Init => Relocations
BY DEF Init, Relocations

LEMMA KeptLinks ==
    ASSUME desc' = desc, UNCHANGED <<gLoadedModules, gUsedRPLs, link, sysRefs>>
    PROVE  /\ AllLinkedTo(sysRefs)' <=> AllLinkedTo(sysRefs)
           /\ AllLinkedTo(Rpls)' <=> AllLinkedTo(Rpls)
BY DEF AllLinkedTo, UsesHandle, Imports

(* A loop of relocations begins. *)
LEMMA FirstModule ==
    ASSUME k' = 1, done' = {}, gLoadedModules' \in Seq(Modules')
    PROVE  LinkedTo(sysRefs)' /\ LinkedTo(Rpls)'
BY DEF LinkedTo

(* One more import is dealt with: it is linked if it is from S. *)
LEMMA ImportDealtWith ==
    ASSUME Typed, NEW S, NEW r \in Rpls, LinkedTo(S), k \in DOMAIN gLoadedModules,
           desc' = desc, UNCHANGED <<k, gLoadedModules>>,
           done' = done \cup {r},
           \A m \in Modules : \A q \in Rpls : UsesHandle(m, q) => UsesHandle(m, q)',
           r \in S => UsesHandle(cur, r)'
    PROVE  \A j \in DOMAIN gLoadedModules' : \A q \in Imports(gLoadedModules[j])' \cap S :
               j < k' \/ (j = k' /\ q \in done') => UsesHandle(gLoadedModules[j], q)'
<1>1. \A j \in DOMAIN gLoadedModules : gLoadedModules[j] \in Modules
    BY DEF Typed
<1>2. \A m : Imports(m)' = Imports(m) /\ Imports(m) \subseteq Rpls
    BY DEF Imports
<1>3. ASSUME NEW j \in DOMAIN gLoadedModules, NEW q \in Imports(gLoadedModules[j]) \cap S,
             j < k \/ (j = k /\ q \in done \cup {r})
      PROVE  UsesHandle(gLoadedModules[j], q)'
    <2>1. CASE j < k \/ (j = k /\ q \in done)
        <3>1. UsesHandle(gLoadedModules[j], q)
            BY <1>3, <2>1 DEF LinkedTo
        <3> QED
            BY <1>1, <1>2, <3>1
    <2>2. CASE j = k /\ q = r
        BY <1>3, <2>2 DEF cur
    <2> QED
        BY <1>3, <2>1, <2>2
<1> QED
    BY <1>2, <1>3

(* A handle that is put into the map, or is in it, and is written. *)
LEMMA HandleWritten ==
    ASSUME Typed, NEW r \in Rpls, NEW handle \in Ids, cur \in Modules,
           gUsedRPLs[r] # 0 => gUsedRPLs[r] = handle,
           gUsedRPLs' = [gUsedRPLs EXCEPT ![r] = handle],
           link' = [link EXCEPT ![cur][r] = handle],
           k' = k, gLoadedModules' = gLoadedModules
    PROVE  /\ \A m \in Modules : \A q \in Rpls : UsesHandle(m, q) => UsesHandle(m, q)'
           /\ UsesHandle(cur, r)'
<1>1. /\ gUsedRPLs \in [Rpls -> Ids \cup {0}]
      /\ link \in [Modules -> [Rpls -> Ids \cup {0}]]
    BY DEF Typed
<1>2. handle # 0 /\ cur' = cur
    BY IdsAssumption DEF cur
<1>3. gUsedRPLs'[r] = handle /\ link'[cur][r] = handle
    BY <1>1
<1>4. ASSUME NEW m \in Modules, NEW q \in Rpls, UsesHandle(m, q) PROVE UsesHandle(m, q)'
    <2>1. CASE q = r
        <3>1. gUsedRPLs[r] = handle /\ link[m][r] = handle
            BY <1>4, <2>1 DEF UsesHandle
        <3> QED
            BY <1>1, <1>2, <2>1, <3>1 DEF UsesHandle
    <2>2. CASE q # r
        BY <1>1, <1>4, <2>2 DEF UsesHandle
    <2> QED
        BY <2>1, <2>2
<1> QED
    BY <1>2, <1>3, <1>4 DEF UsesHandle

LEMMA ImportLinks ==
    ASSUME Typed, TypeOK, References, Owned, Relocations, NEW r \in Rpls,
           SkipUnloaded(r) \/ AcquireImport(r) \/ UseHandle(r), desc' = desc
    PROVE  Relocations'
<1>1. /\ pc \in {"reloc", "relocAll"} /\ pc' = pc /\ InLoop(pc)
      /\ r \in Imports(cur) \ done
      /\ done' = done \cup {r}
      /\ UNCHANGED <<k, gLoadedModules, sysRefs>>
    BY DEF SkipUnloaded, AcquireImport, UseHandle, Relocating, InLoop, LinkTo, start, app
<1>2. cur \in Modules /\ k \in DOMAIN gLoadedModules
    BY <1>1, CurrentModule
<1>3. /\ \A m \in Modules : \A q \in Rpls : UsesHandle(m, q) => UsesHandle(m, q)'
      /\ (pc = "reloc" => r \in sysRefs) => UsesHandle(cur, r)'
    <2>1. CASE SkipUnloaded(r)
        <3>1. r \notin sysRefs /\ pc = "reloc"
            BY <2>1 DEF SkipUnloaded, Owned
        <3>2. UNCHANGED <<gUsedRPLs, link>>
            BY <2>1 DEF SkipUnloaded, reloc
        <3> QED
            BY <3>1, <3>2 DEF UsesHandle
    <2>2. CASE AcquireImport(r)
        <3>1. rpl'[r].id \in Ids
            BY <2>2, AcquireTypes DEF AcquireImport
        <3> QED
            BY <1>1, <1>2, <2>2, <3>1, HandleWritten DEF AcquireImport, LinkTo
    <2>3. CASE UseHandle(r)
        <3>1. gUsedRPLs[r] \in Ids /\ gUsedRPLs' = [gUsedRPLs EXCEPT ![r] = gUsedRPLs[r]]
            BY <2>3 DEF UseHandle, Typed
        <3> QED
            BY <1>1, <1>2, <2>3, <3>1, HandleWritten DEF UseHandle, LinkTo
    <2> QED
        BY <2>1, <2>2, <2>3
<1>4. CASE pc = "reloc"
    <2>1. LinkedTo(sysRefs)
        BY <1>4 DEF Relocations
    <2>2. LinkedTo(sysRefs)'
        BY <1>1, <1>2, <1>3, <1>4, <2>1, ImportDealtWith DEF LinkedTo
    <2> QED
        BY <1>1, <1>4, <2>2 DEF Relocations
<1>5. CASE pc = "relocAll"
    <2>1. LinkedTo(Rpls)
        BY <1>5 DEF Relocations
    <2>2. LinkedTo(Rpls)'
        BY <1>1, <1>2, <1>3, <1>5, <2>1, ImportDealtWith DEF LinkedTo
    <2> QED
        BY <1>1, <1>5, <2>2 DEF Relocations
<1> QED
    BY <1>1, <1>4, <1>5

(* The loop goes on: nothing of the module at k is left. *)
LEMMA ModuleDone ==
    ASSUME Typed, NEW S \in {sysRefs, Rpls}, LinkedTo(S), k \in DOMAIN gLoadedModules,
           Imports(cur) \subseteq done,
           desc' = desc, k' = k + 1, done' = {},
           UNCHANGED <<gLoadedModules, gUsedRPLs, link, sysRefs>>
    PROVE  \A j \in DOMAIN gLoadedModules' : \A q \in Imports(gLoadedModules[j])' \cap S :
               j < k' \/ (j = k' /\ q \in done') => UsesHandle(gLoadedModules[j], q)'
<1>1. \A j \in DOMAIN gLoadedModules : j < k + 1 => j < k \/ j = k
    BY DEF Typed
<1> QED
    BY <1>1 DEF LinkedTo, UsesHandle, Imports, cur

LEMMA LoopDone ==
    ASSUME Typed, NEW S, LinkedTo(S), k > Len(gLoadedModules)
    PROVE  AllLinkedTo(S)
<1>1. \A j \in DOMAIN gLoadedModules : j < k
    BY DEF Typed
<1> QED
    BY <1>1 DEF LinkedTo, AllLinkedTo

LEMMA RelocationsStep ==
    ASSUME TypeOK, Typed, Control, References, Owned, Relocations, [Next]_vars
    PROVE  Relocations'
<1> USE DEF start, reloc, app, dynLoadVars, memory
<1>0. desc' = desc
    BY DescUnchanged
<1>1. CASE pc' \notin {"reloc", "early", "alloc", "relocAll", "relocsDone", "regular", "save",
                       "devoptab", "sockets", "starts", "allStarts", "running"}
    BY <1>1 DEF Relocations
<1>2. ASSUME NEW S \in SUBSET Rpls, NEW foreign \in BOOLEAN, StartProcess(S, foreign)
      PROVE  Relocations'
    <2>1. pc' = "clear" \/ (pc' = "running" /\ gLoadedModules' = << >>)
        BY <1>2 DEF StartProcess, Control
    <2> QED
        BY <2>1 DEF Relocations, AllLinkedTo
<1>3. CASE LoadModules \/ SetAllocator
    <2>1. k' = 1 /\ done' = {} /\ pc' \in {"reloc", "relocAll"}
        BY <1>3 DEF LoadModules, SetAllocator, Control
    <2>2. gLoadedModules' \in Seq(Modules')
        BY TypedStep DEF Typed
    <2> QED
        BY <2>1, <2>2, FirstModule DEF Relocations
<1>4. CASE EndPhase
    <2>1. UNCHANGED <<gLoadedModules, gUsedRPLs, link, sysRefs>> /\ k > Len(gLoadedModules)
        BY <1>4 DEF EndPhase
    <2>2. CASE pc = "reloc"
        <3>1. AllLinkedTo(sysRefs) /\ pc' = "early"
            BY <1>4, <2>1, <2>2, LoopDone DEF Relocations, EndPhase, After
        <3> QED
            BY <1>0, <2>1, <3>1, KeptLinks DEF Relocations
    <2>3. CASE pc = "relocAll"
        <3>1. AllLinkedTo(Rpls) /\ pc' = "relocsDone"
            BY <1>4, <2>1, <2>3, LoopDone DEF Relocations, EndPhase, After
        <3> QED
            BY <1>0, <2>1, <3>1, KeptLinks DEF Relocations
    <2>4. CASE pc = "early"
        <3>1. pc' = "alloc"
            BY <1>4, <2>4 DEF EndPhase, After
        <3> QED
            BY <1>0, <2>1, <2>4, <3>1, KeptLinks DEF Relocations
    <2>5. CASE pc \in {"relocsDone", "regular", "devoptab", "sockets", "starts", "allStarts"}
        <3>1. pc' \in {"regular", "save", "sockets", "starts", "allStarts", "running"}
            BY <1>4, <2>5 DEF EndPhase, After
        <3> QED
            BY <1>0, <2>1, <2>5, <3>1, KeptLinks DEF Relocations
    <2>6. CASE pc \in {"alloc", "clearRpl"}
        BY <1>4, <2>6 DEF EndPhase, After, Relocations
    <2> QED
        BY <1>4, <2>2, <2>3, <2>4, <2>5, <2>6, LoopsAre DEF EndPhase, Loops
<1>5. ASSUME NEW r \in Rpls, SkipUnloaded(r) \/ AcquireImport(r) \/ UseHandle(r)
      PROVE  Relocations'
    BY <1>0, <1>5, ImportLinks
<1>6. CASE Relocated
    <2>1. /\ pc \in {"reloc", "relocAll"} /\ pc' = pc /\ InLoop(pc)
          /\ Imports(cur) \subseteq done
          /\ k' = k + 1 /\ done' = {}
          /\ UNCHANGED <<gLoadedModules, gUsedRPLs, link, sysRefs>>
        BY <1>6 DEF Relocated, NextModule, InLoop
    <2>2. k \in DOMAIN gLoadedModules
        BY <2>1, CurrentModule
    <2>3. CASE pc = "reloc"
        <3>1. LinkedTo(sysRefs)'
            BY <1>0, <2>1, <2>2, <2>3, ModuleDone DEF Relocations, LinkedTo
        <3> QED
            BY <2>1, <2>3, <3>1 DEF Relocations
    <2>4. CASE pc = "relocAll"
        <3>1. LinkedTo(Rpls)'
            BY <1>0, <2>1, <2>2, <2>4, ModuleDone DEF Relocations, LinkedTo
        <3> QED
            BY <2>1, <2>4, <3>1 DEF Relocations
    <2> QED
        BY <2>1, <2>3, <2>4
<1>7. CASE CallHook \/ OtherLoop
    <2>1. CallHook => \E kind \in Hooks : AtHook(kind)
        BY DEF CallHook
    <2>2. pc \in Loops \ {"reloc", "relocAll"} /\ pc' = pc
        BY <1>7, <2>1 DEF CallHook, OtherLoop, AtHook, InLoop, Sweep, Loops
    <2>3. UNCHANGED <<gLoadedModules, gUsedRPLs, link, sysRefs>>
        BY <1>7 DEF CallHook, OtherLoop
    <2> QED
        BY <1>0, <2>2, <2>3, KeptLinks DEF Relocations, Loops
<1>8. CASE SaveLoadedRPLs
    BY <1>0, <1>8, KeptLinks DEF SaveLoadedRPLs, Relocations
<1>9. ASSUME NEW r \in Rpls, AppAcquire(r) \/ AppRelease(r) PROVE Relocations'
    <2>1. pc \in {"early", "running"} /\ pc' = pc
        BY <1>9 DEF AppAcquire, AppRelease
    <2>2. UNCHANGED <<gLoadedModules, gUsedRPLs, link, sysRefs>>
        BY <1>9 DEF AppAcquire, AppRelease
    <2> QED
        BY <1>0, <2>1, <2>2, KeptLinks DEF Relocations
<1>10. CASE UNCHANGED vars
    BY <1>10, KeptLinks DEF vars, Relocations, LinkedTo, UsesHandle, Imports
<1>11. CASE Clear \/ OSFatal \/ AppEnds \/ ProcessEnds \/ \E r \in Rpls : BaseReleases(r)
    <2>1. pc' \in {"clearRpl", "load", "fatal", "exit", "idle"}
        BY <1>11 DEF Clear, OSFatal, AppEnds, ProcessEnds, BaseReleases
    <2> QED
        BY <1>1, <2>1
<1> QED
    BY <1>2, <1>3, <1>4, <1>5, <1>6, <1>7, <1>8, <1>9, <1>10, <1>11
    DEF Next, LoaderStep, ExitStep, AppStep, NoHeap, LoadFails, RelocationFails, SaveFails

(* What the parts so far say together. *)
LEMMA LinksHold == Spec => [](TypeOK /\ Typed /\ Control /\ References /\ Owned /\ Relocations)
<1>1. Init => Relocations
    BY RelocationsInit
<1>2. TypeOK /\ Typed /\ Control /\ References /\ Owned /\ Relocations /\ [Next]_vars
         => Relocations'
    BY RelocationsStep
<1> QED
    BY <1>1, <1>2, OwnedHolds, PTL DEF Spec

(* A link through a handle of the running application is live. *)
LEMMA HandleIsLive ==
    ASSUME References, pc \in Active, NEW m, NEW r \in Rpls, UsesHandle(m, r)
    PROVE  LinkLive(m, r)
BY DEF References, UsesHandle, LinkLive

(* From the end of the start to the end of the application nothing that the application
   acquires or releases takes away an RPL that a module is linked to: there is the loader's
   own reference (RelocationUtils.cpp 113-138). *)
THEOREM LinksAreLive == Spec => []LinksStayLive
<1>1. References /\ Relocations => LinksStayLive
    <2> SUFFICES ASSUME References, Relocations, pc \in {"save", "running"},
                        NEW m \in Elements(gLoadedModules), NEW r \in Imports(m)
                 PROVE  LinkLive(m, r)
        BY DEF LinksStayLive
    <2>1. AllLinkedTo(Rpls) /\ pc \in Active
        BY DEF Relocations, Active
    <2>2. PICK j \in DOMAIN gLoadedModules : gLoadedModules[j] = m
        BY DEF Elements
    <2>3. r \in Rpls /\ UsesHandle(m, r)
        BY <2>1, <2>2 DEF AllLinkedTo, Imports
    <2> QED
        BY <2>1, <2>3, HandleIsLive
<1> QED
    BY <1>1, LinksHold, PTL

(* A hook that is called finds the imports of its module linked to RPLs of the running
   application, but for the three that come too soon (hooks.cpp, entry.cpp 205-247). *)
THEOREM HooksFindImports == Spec => []HooksSeeLiveImports
<1>1. TypeOK /\ Typed /\ Control /\ References /\ Owned /\ Relocations => HooksSeeLiveImports
    <2> SUFFICES ASSUME TypeOK, Typed, References, Owned, Relocations,
                        NEW kind \in Hooks \ {"CLEAR_ALLOCATED_RPL_MEMORY"}, Calls(kind),
                        NEW r \in Imports(cur),
                        ~(pc \in {"early", "alloc"} /\ r \notin sysRefs)
                 PROVE  LinkLive(cur, r)
        BY DEF HooksSeeLiveImports
    <2>1. /\ pc \in Loops \ {"reloc", "relocAll", "clearRpl"}
          /\ InLoop(pc)
        BY DEF Calls, AtHook, Sweep, InLoop, Loops
    <2>2. k \in DOMAIN gLoadedModules
        BY <2>1, CurrentModule
    <2>3. r \in Rpls
        BY DEF Imports
    <2>4. UsesHandle(cur, r)
        <3>1. CASE pc \in {"early", "alloc"}
            BY <2>2, <2>3, <3>1 DEF Relocations, AllLinkedTo, cur
        <3>2. CASE pc \notin {"early", "alloc"}
            BY <2>1, <2>2, <2>3, <3>2 DEF Relocations, AllLinkedTo, cur, Loops
        <3> QED
            BY <3>1, <3>2
    <2> QED
        BY <2>1, <2>3, <2>4, HandleIsLive DEF Active
<1> QED
    BY <1>1, LinksHold, PTL

-----------------------------------------------------------------------------
(* INIT. *)

LEMMA InitCallsInit == Init => InitCalls
BY DEF Init, InitCalls, PastInit

(* A step that leaves it as it is who is past INIT, or stops. *)
LEMMA InitsKept ==
    ASSUME InitCalls, desc' = desc, inits' = inits,
           pc' # "fatal" => pc # "fatal" /\ \A m \in Modules : PastInit(m)' <=> PastInit(m)
    PROVE  InitCalls'
BY DEF InitCalls, Modules

(* The order has each module at one place. *)
LEMMA OnePlace ==
    ASSUME Control, gInitCalled, pc \notin {"load", "fatal"}
    PROVE  /\ \A l, j \in DOMAIN gLoadedModules : gLoadedModules[l] = gLoadedModules[j] => l = j
           /\ \A m \in Modules : \E j \in DOMAIN gLoadedModules : gLoadedModules[j] = m
BY DEF Control, Admissible, Distinct, Elements

(* The loop goes past the module at k. *)
LEMMA PastNext ==
    ASSUME Typed, k \in DOMAIN gLoadedModules, k' = k + 1, gLoadedModules' = gLoadedModules,
           NEW m
    PROVE  PastLoop(m)' <=> PastLoop(m) \/ m = cur
<1>1. 1..(k' - 1) = 1..(k - 1) \cup {k}
    BY DEF Typed
<1> QED
    BY <1>1 DEF PastLoop, cur

LEMMA HookInits ==
    ASSUME Typed, Control, InitCalls, CallHook
    PROVE  InitCalls'
<1>0. /\ desc' = desc /\ k' = k + 1
      /\ UNCHANGED <<gLoadedModules, gInitCalled, first, pc>>
    BY DEF CallHook, NextModule, start
<1>1. PICK kind \in Hooks : AtHook(kind)
    BY DEF CallHook
<1>2. /\ pc \in Loops \ {"reloc", "relocAll"} /\ InLoop(pc)
      /\ pc = "early" => ~Regular(cur)
      /\ pc = "regular" => Regular(cur)
    BY <1>1 DEF AtHook, InLoop, Sweep, Loops
<1>3. k \in DOMAIN gLoadedModules /\ cur \in Modules
    BY <1>2, CurrentModule
<1>4. gInitCalled /\ pc \notin {"load", "fatal"}
    BY <1>2 DEF Control, Loops
<1>5. Calls("INIT") <=> pc \in {"early", "regular"} /\ "INIT" \in desc[cur].hooks
    BY <1>2 DEF Calls, AtHook, InLoop, Sweep
<1>6. \A m : Regular(m)' <=> Regular(m)
    BY <1>0 DEF Regular
<1>7. CASE pc \in {"early", "regular"}
    <2>0. PICK c \in Modules : c = cur
        BY <1>3
    <2>1. ~PastLoop(c)
        BY <1>3, <1>4, <2>0, OnePlace DEF PastLoop, cur, Typed
    <2>2. \A m \in Modules : PastLoop(m)' <=> PastLoop(m) \/ m = c
        BY <1>0, <1>3, <2>0, PastNext
    <2>3. ~PastInit(c) /\ PastInit(c)'
        BY <1>0, <1>2, <1>4, <1>6, <1>7, <2>0, <2>1, <2>2 DEF PastInit
    <2>4. \A m \in Modules \ {c} : PastInit(m)' <=> PastInit(m)
        BY <1>0, <1>4, <1>6, <1>7, <2>2 DEF PastInit
    <2>5. inits[c] = 0 /\ inits \in [Modules -> 0..2]
        BY <1>4, <2>3 DEF InitCalls, Typed
    <2>6. inits' = IF "INIT" \in desc[c].hooks THEN [inits EXCEPT ![c] = Min({@ + 1, 2})] ELSE inits
        BY <1>5, <1>7, <2>0 DEF CallHook
    <2>7. /\ \A m \in Modules \ {c} : inits'[m] = inits[m]
          /\ inits'[c] = IF "INIT" \in desc[c].hooks THEN 1 ELSE 0
        BY <2>5, <2>6, OnceMore
    <2>8. \A m \in Modules : inits'[m] \in {0, 1}
        BY <2>7 DEF InitCalls
    <2>9. \A m \in Modules : inits'[m] = 1 <=> "INIT" \in desc'[m].hooks /\ PastInit(m)'
        <3>1. \A m \in Modules : inits[m] = 1 <=> "INIT" \in desc[m].hooks /\ PastInit(m)
            BY <1>4 DEF InitCalls
        <3>2. \A m \in Modules \ {c} : inits'[m] = 1 <=> "INIT" \in desc[m].hooks /\ PastInit(m)'
            BY <2>4, <2>7, <3>1
        <3>3. inits'[c] = 1 <=> "INIT" \in desc[c].hooks /\ PastInit(c)'
            BY <2>3, <2>7
        <3> QED
            BY <1>0, <3>2, <3>3
    <2>10. Modules' = Modules
        BY <1>0 DEF Modules
    <2> QED
        BY <2>8, <2>9, <2>10 DEF InitCalls
<1>8. CASE pc \notin {"early", "regular"}
    <2>1. inits' = inits
        BY <1>5, <1>8 DEF CallHook
    <2>2. \A m \in Modules : PastInit(m)' <=> PastInit(m)
        BY <1>0, <1>6, <1>8 DEF PastInit
    <2> QED
        BY <1>0, <1>4, <2>1, <2>2, InitsKept
<1> QED
    BY <1>7, <1>8

LEMMA EndPhaseInits ==
    ASSUME Typed, Control, InitCalls, EndPhase
    PROVE  InitCalls'
<1>0. /\ desc' = desc /\ k' = 1 /\ inits' = inits
      /\ UNCHANGED <<gLoadedModules, gInitCalled, first>>
      /\ pc \in Loops /\ pc' = After[pc] /\ k > Len(gLoadedModules)
    BY LoopsAre DEF EndPhase, start
<1>1. gInitCalled /\ pc \notin {"load", "fatal"}
    BY <1>0 DEF Control, Loops
<1>2. \A m \in Modules : PastLoop(m)
    <2>1. \A j \in DOMAIN gLoadedModules : j \in 1..(k - 1)
        BY <1>0 DEF Typed
    <2> QED
        BY <1>1, <2>1, OnePlace DEF PastLoop
<1>3. \A m : ~PastLoop(m)' /\ (Regular(m)' <=> Regular(m))
    BY <1>0 DEF PastLoop, Regular
<1>4. \A m \in Modules : PastInit(m)' <=> PastInit(m)
    BY <1>0, <1>1, <1>2, <1>3 DEF PastInit, After, Loops, Control
<1> QED
    BY <1>0, <1>1, <1>4, InitsKept

LEMMA InitCallsStep ==
    ASSUME Typed, Control, InitCalls, [Next]_vars
    PROVE  InitCalls'
<1> USE DEF start, reloc, app, dynLoadVars, memory
<1>0. desc' = desc /\ \A m : Regular(m)' <=> Regular(m)
    BY DescUnchanged DEF Regular
<1>1. ASSUME OSFatal PROVE InitCalls'
    BY <1>0, <1>1, InitsKept DEF OSFatal
<1>2. ASSUME NEW S \in SUBSET Rpls, NEW foreign \in BOOLEAN, StartProcess(S, foreign)
      PROVE  InitCalls'
    <2>1. pc = "idle" /\ pc' \in {"running", "clear"} /\ UNCHANGED <<gInitCalled, inits>>
        BY <1>2 DEF StartProcess
    <2> QED
        BY <1>0, <2>1, InitsKept DEF PastInit
<1>3. CASE Clear
    <2>1. /\ pc = "clear" /\ pc' = (IF gInitCalled THEN "clearRpl" ELSE "load")
          /\ gInitCalled' /\ inits' = inits
        BY <1>3 DEF Clear
    <2> QED
        BY <1>0, <2>1, InitsKept DEF PastInit
<1>4. CASE LoadModules
    BY <1>0, <1>4, InitsKept DEF LoadModules, PastInit
<1>5. CASE SetAllocator
    BY <1>0, <1>5, InitsKept DEF SetAllocator, PastInit
<1>6. CASE EndPhase
    BY <1>6, EndPhaseInits
<1>7. ASSUME NEW r \in Rpls, SkipUnloaded(r) \/ AcquireImport(r) \/ UseHandle(r)
      PROVE  InitCalls'
    <2>1. /\ pc \in {"reloc", "relocAll"} /\ pc' = pc
          /\ UNCHANGED <<gInitCalled, inits, first>>
        BY <1>7 DEF SkipUnloaded, AcquireImport, UseHandle, Relocating, InLoop
    <2> QED
        BY <1>0, <2>1, InitsKept DEF PastInit
<1>8. CASE Relocated
    <2>1. /\ pc \in {"reloc", "relocAll"} /\ pc' = pc
          /\ UNCHANGED <<gInitCalled, inits, first>>
        BY <1>8 DEF Relocated, InLoop
    <2> QED
        BY <1>0, <2>1, InitsKept DEF PastInit
<1>9. CASE CallHook
    BY <1>9, HookInits
<1>10. CASE OtherLoop
    <2>1. /\ pc \in {"early", "regular"} /\ pc' = pc /\ InLoop(pc)
          /\ pc = "early" => Regular(cur)
          /\ pc = "regular" => ~Regular(cur)
          /\ k' = k + 1
          /\ UNCHANGED <<gInitCalled, inits, first, gLoadedModules>>
        BY <1>10 DEF OtherLoop, InLoop, NextModule
    <2>2. k \in DOMAIN gLoadedModules
        BY <2>1, CurrentModule
    <2>3. \A m \in Modules : PastInit(m)' <=> PastInit(m)
        BY <1>0, <2>1, <2>2, PastNext DEF PastInit
    <2> QED
        BY <1>0, <2>1, <2>3, InitsKept
<1>11. CASE SaveLoadedRPLs \/ AppEnds \/ ProcessEnds
    <2>1. /\ pc \in {"save", "running", "exit"} /\ pc' \in {"devoptab", "exit", "idle"}
          /\ UNCHANGED <<gInitCalled, inits>>
        BY <1>11 DEF SaveLoadedRPLs, AppEnds, ProcessEnds
    <2> QED
        BY <1>0, <2>1, InitsKept DEF PastInit
<1>12. ASSUME NEW r \in Rpls, AppAcquire(r) \/ AppRelease(r) \/ BaseReleases(r)
       PROVE  InitCalls'
    <2>1. /\ pc \in {"early", "running", "exit"} /\ pc' = pc
          /\ UNCHANGED <<gInitCalled, inits, first, k, gLoadedModules>>
        BY <1>12 DEF AppAcquire, AppRelease, BaseReleases
    <2> QED
        BY <1>0, <2>1, InitsKept DEF PastInit, PastLoop
<1>13. CASE UNCHANGED vars
    BY <1>0, <1>13, InitsKept DEF vars, PastInit, PastLoop, InitCalls, Modules
<1> QED
    BY <1>1, <1>2, <1>3, <1>4, <1>5, <1>6, <1>7, <1>8, <1>9, <1>10, <1>11, <1>12, <1>13
    DEF Next, LoaderStep, ExitStep, AppStep, NoHeap, LoadFails, RelocationFails, SaveFails

(* All the parts that InitCalls needs, and it. *)
LEMMA InitsHold == Spec => [](TypeOK /\ Typed /\ Control /\ InitCalls)
<1>1. Init => InitCalls
    BY InitCallsInit
<1>2. TypeOK /\ Typed /\ Control /\ InitCalls /\ [Next]_vars => InitCalls'
    BY InitCallsStep
<1> QED
    BY <1>1, <1>2, OwnedHolds, PTL DEF Spec

(* Some module with the name of an import is before the module at k. *)
LEMMA ImportBefore ==
    ASSUME Admissible(gLoadedModules), k \in DOMAIN gLoadedModules,
           NEW name \in Required(cur)
    PROVE  \E j \in 1..(k - 1) : desc[gLoadedModules[j]].name = name
<1>1. Required(cur) \subseteq Exports({gLoadedModules[j] : j \in 1..(k - 1)})
    BY DEF Admissible, DepsFirst, Satisfied, cur
<1> QED
    BY <1>1 DEF Exports

(* An INIT loop finds the modules that the one at k may rely on past their INIT. *)
LEMMA InitsBefore ==
    ASSUME Typed, Control, Calls("INIT"), BaseLoaded,
           NEW m \in Modules \ {cur},
           \/ desc[m].name \in Required(cur)
           \/ desc[m].name = Base /\ Regular(cur) /\ desc[cur].name # Base
    PROVE  \/ PastInit(m)
           \/ \E n \in Modules \ {m} : desc[n].name = desc[m].name
<1>1. /\ pc \in {"early", "regular"} /\ InLoop(pc)
      /\ pc = "early" => ~Regular(cur)
      /\ pc = "regular" => Regular(cur)
    BY DEF Calls, AtHook, InLoop, Sweep
<1>2. k \in DOMAIN gLoadedModules /\ cur \in Modules /\ k \in Nat
    BY <1>1, CurrentModule DEF Typed
<1>3. gInitCalled /\ Admissible(gLoadedModules)
    BY <1>1 DEF Control
<1>4. /\ Elements(gLoadedModules) = Modules
      /\ EarlyFirst(gLoadedModules) /\ BaseLeads(gLoadedModules)
      /\ Distinct(gLoadedModules)
    <2>1. Elements(gLoadedModules) = Modules /\ Distinct(gLoadedModules)
        BY <1>3 DEF Admissible
    <2>2. Base \in Exports(Modules)
        BY <2>1 DEF BaseLoaded, Exports
    <2> QED
        BY <1>3, <2>1, <2>2 DEF Admissible
<1>5. DOMAIN gLoadedModules \subseteq Nat \ {0}
    BY DEF Typed
<1>6. ASSUME PastLoop(m), pc = "early" => ~Regular(m) PROVE PastInit(m)
    BY <1>1, <1>3, <1>6 DEF PastInit
<1>7. CASE desc[m].name \in Required(cur)
    <2>1. PICK j \in 1..(k - 1) : desc[gLoadedModules[j]].name = desc[m].name
        BY <1>2, <1>3, <1>7, ImportBefore
    <2>2. j \in DOMAIN gLoadedModules /\ j < k
        BY <1>2, <2>1 DEF Typed
    <2>3. gLoadedModules[j] \in Modules
        BY <1>4, <2>2 DEF Elements
    <2>4. CASE gLoadedModules[j] = m
        <3>1. PastLoop(m)
            BY <2>1, <2>4 DEF PastLoop
        <3>2. ASSUME pc = "early", Regular(m) PROVE FALSE
            <4>1. Precedes(gLoadedModules, cur, m)
                BY <1>1, <1>2, <1>4, <3>2 DEF EarlyFirst
            <4>2. PICK a, b \in DOMAIN gLoadedModules :
                      a < b /\ gLoadedModules[a] = cur /\ gLoadedModules[b] = m
                BY <4>1 DEF Precedes
            <4>3. a = k /\ b = j
                BY <1>2, <1>4, <2>2, <2>4, <4>2 DEF Distinct, cur
            <4> QED
                BY <1>2, <2>1, <4>2, <4>3
        <3> QED
            BY <1>6, <3>1, <3>2
    <2> QED
        BY <2>1, <2>3, <2>4
<1>8. CASE desc[m].name = Base /\ Regular(cur) /\ desc[cur].name # Base
    <2>1. pc = "regular"
        BY <1>1, <1>8
    <2>2. CASE ~Regular(m)
        BY <1>3, <2>1, <2>2 DEF PastInit
    <2>3. CASE Regular(m)
        <3>1. PICK b \in Modules :
                  /\ Regular(b) /\ desc[b].name = Base
                  /\ cur # b => Precedes(gLoadedModules, b, cur)
            BY <1>2, <1>4, <1>8, <2>3 DEF BaseLeads
        <3>2. CASE b = m
            <4>1. PICK a, c \in DOMAIN gLoadedModules :
                      a < c /\ gLoadedModules[a] = m /\ gLoadedModules[c] = cur
                BY <3>1, <3>2 DEF Precedes
            <4>2. c = k
                BY <1>2, <1>4, <4>1 DEF Distinct, cur
            <4>3. a \in 1..(k - 1)
                BY <1>2, <1>5, <4>1, <4>2
            <4> QED
                BY <1>6, <2>1, <4>1, <4>3 DEF PastLoop
        <3> QED
            BY <1>8, <3>1, <3>2
    <2> QED
        BY <2>2, <2>3
<1> QED
    BY <1>7, <1>8

(* INIT is called once for a module, after that of what it imports from and of the base
   module (entry.cpp 205-219, 231-235; hooks.cpp; module_order). *)
THEOREM InitOncePerModule == Spec => []InitOnceInOrder
<1>1. Typed /\ Control /\ InitCalls => InitOnceInOrder
    <2> SUFFICES ASSUME Typed, Control, InitCalls PROVE InitOnceInOrder
        OBVIOUS
    <2>1. \A m \in Modules : inits[m] <= 1
        BY DEF InitCalls
    <2>2. ASSUME pc = "running", gInitCalled, NEW m \in Modules
          PROVE  inits[m] = 1 <=> "INIT" \in desc[m].hooks
        BY <2>2 DEF InitCalls, PastInit
    <2>3. ASSUME Calls("INIT"), BaseLoaded, NEW m \in Modules \ {cur},
                 "INIT" \in desc[m].hooks,
                 \/ desc[m].name \in Required(cur)
                 \/ desc[m].name = Base /\ Regular(cur) /\ desc[cur].name # Base
          PROVE  inits[m] = 1 \/ \E n \in Modules \ {m} : desc[n].name = desc[m].name
        <3>1. pc # "fatal"
            BY <2>3 DEF Calls, AtHook, InLoop, Sweep
        <3>2. PastInit(m) \/ \E n \in Modules \ {m} : desc[n].name = desc[m].name
            BY <2>3, InitsBefore
        <3> QED
            BY <2>3, <3>1, <3>2 DEF InitCalls
    <2> QED
        BY <2>1, <2>2, <2>3 DEF InitOnceInOrder
<1> QED
    BY <1>1, InitsHold, PTL

-----------------------------------------------------------------------------
(* The setup payload *)

Steps == {"main", "segments", "sections", "hook", "called", "fatal"}

(* The cells of a segment hold its bytes. *)
InPlace(seg) == \A c \in Target(seg) : cells[c] = ElfByte(seg.offset + c - seg.paddr)

AllInPlace == \A j \in DOMAIN elf.segments : Copied(elf.segments[j]) => InPlace(elf.segments[j])

(* The cells of a section hold its data, or have been cleared. *)
Filled(s) == \A c \in Span(s) : cells[c] = ElfByte(s.offset + c - s.addr)
Cleared(s) == \A c \in Span(s) : cells[c] = 0

(* What main leaves behind the place of the loader. *)
Environment ==
    /\ cells[REGION_END] = RegionEnd
    /\ \A n \in 0..(ENVIRONMENT_PATH_LENGTH - 2) :
          cells[ENVIRONMENT_STRING + n] = IF n < path_length THEN PathByte(n) ELSE 0

SetupTypeOK ==
    /\ step \in Steps
    /\ cells \in [Places -> Int]
    /\ elf \in Images
    /\ path_length \in Nat
    /\ i \in Nat \ {0}

SetupInv ==
    /\ SetupTypeOK
    /\ step = "main" => i = 1
    /\ step \in {"segments", "sections", "hook", "called"} => Environment
    /\ step = "segments" =>
          \A j \in DOMAIN elf.segments :
              j < i /\ Copied(elf.segments[j]) => InPlace(elf.segments[j])
    /\ step = "sections" =>
          \A j \in DOMAIN elf.sections :
              LET s == elf.sections[j]
              IN /\ ~s.nobits => Filled(s)
                 /\ s.nobits /\ j < i => Cleared(s)
    /\ step \in {"hook", "called"} =>
          \A j \in DOMAIN elf.sections :
              LET s == elf.sections[j]
              IN /\ ~s.nobits => Filled(s)
                 /\ s.nobits => Cleared(s)
    /\ step = "called" => hook = elf.entry

-----------------------------------------------------------------------------
(* What the assumptions say of the ELF that is loaded. *)
LEMMA OfImage ==
    ASSUME elf \in Images
    PROVE  /\ elf.segments # << >>
           /\ Len(elf.segments) \in Nat /\ DOMAIN elf.segments = 1..Len(elf.segments)
           /\ Len(elf.sections) \in Nat /\ DOMAIN elf.sections = 1..Len(elf.sections)
           /\ \A j \in DOMAIN elf.segments : elf.segments[j] \in Segment
           /\ \A j \in DOMAIN elf.sections : elf.sections[j] \in Section
           /\ \A j \in DOMAIN elf.sections : elf.sections[j].nobits => elf.sections[j].bss
BY ImagesAssumption

(* The segments that the assumptions are about are those that the code copies. *)
LEMMA CopiedAreLoaded ==
    ASSUME elf \in Images, NEW j \in DOMAIN elf.segments
    PROVE  LET seg == elf.segments[j]
           IN Copied(seg) <=> seg.type = "PT_LOAD" /\ seg.filesz \in 1..seg.memsz
<1>1. elf.segments[j] \in Segment
  BY OfImage
<1> QED
  BY <1>1 DEF Copied, Segment

LEMMA SegmentsApart ==
    ASSUME elf \in Images, NEW j \in DOMAIN elf.segments, Copied(elf.segments[j])
    PROVE  /\ \A c \in Target(elf.segments[j]) : c \in Int /\ 0 <= c /\ c < RELOCATOR_SIZE
           /\ \A l \in DOMAIN elf.segments :
                 j # l /\ Copied(elf.segments[l]) =>
                     \A c \in Target(elf.segments[j]) : c \notin Target(elf.segments[l])
<1> DEFINE loaded(seg) == seg.type = "PT_LOAD" /\ seg.filesz \in 1..seg.memsz
<1> DEFINE copied == {l \in DOMAIN elf.segments : loaded(elf.segments[l])}
<1>1. /\ \A l \in copied : Target(elf.segments[l]) \subseteq 0..(RELOCATOR_SIZE - 1)
      /\ \A l, m \in copied : l # m => Target(elf.segments[l]) \cap Target(elf.segments[m]) = {}
  BY ImagesAssumption
<1>2. j \in copied
  BY CopiedAreLoaded
<1>3. \A c \in Target(elf.segments[j]) : c \in Int /\ 0 <= c /\ c < RELOCATOR_SIZE
  BY <1>1, <1>2, SizesAssumption
<1>4. ASSUME NEW l \in DOMAIN elf.segments, j # l, Copied(elf.segments[l]),
             NEW c \in Target(elf.segments[j])
      PROVE  c \notin Target(elf.segments[l])
  <2>1. l \in copied
    BY <1>4, CopiedAreLoaded
  <2> QED
    BY <1>1, <1>2, <1>4, <2>1
<1> QED
  BY <1>3, <1>4

LEMMA SectionsFit ==
    ASSUME elf \in Images, NEW j \in DOMAIN elf.sections, NEW c \in Span(elf.sections[j])
    PROVE  c \in Int /\ 0 <= c /\ c < RELOCATOR_SIZE
<1>1. Span(elf.sections[j]) \subseteq 0..(RELOCATOR_SIZE - 1)
  BY ImagesAssumption
<1> QED
  BY <1>1, SizesAssumption

LEMMA Shift ==
    \A a, b, d, e, c \in Int : a - b = d - e => a + c - b = d + c - e
OBVIOUS

LEMMA SectionsAreCopied ==
    ASSUME elf \in Images, NEW j \in DOMAIN elf.sections, ~elf.sections[j].nobits,
           NEW c \in Span(elf.sections[j])
    PROVE  /\ \E l \in DOMAIN elf.segments :
                 LET seg == elf.segments[l]
                 IN /\ Copied(seg) /\ c \in Target(seg)
                    /\ ElfByte(seg.offset + c - seg.paddr)
                       = ElfByte(elf.sections[j].offset + c - elf.sections[j].addr)
           /\ \A l \in DOMAIN elf.sections :
                 elf.sections[l].bss => c \notin Span(elf.sections[l])
<1> DEFINE loaded(seg) == seg.type = "PT_LOAD" /\ seg.filesz \in 1..seg.memsz
<1> DEFINE copied == {l \in DOMAIN elf.segments : loaded(elf.segments[l])}
<1> DEFINE s == elf.sections[j]
<1>1. /\ \A d \in Span(s) : \E l \in copied :
             LET seg == elf.segments[l]
             IN d \in Target(seg) /\ seg.offset - seg.paddr = s.offset - s.addr
      /\ \A l \in DOMAIN elf.sections :
             elf.sections[l].bss => Span(s) \cap Span(elf.sections[l]) = {}
  BY ImagesAssumption
<1>2. PICK l \in copied : /\ c \in Target(elf.segments[l])
                          /\ elf.segments[l].offset - elf.segments[l].paddr = s.offset - s.addr
  BY <1>1
<1> DEFINE seg == elf.segments[l]
<1>3. seg \in Segment /\ s \in Section
  BY OfImage
<1>4. /\ c \in Target(seg) /\ Copied(seg)
      /\ seg.offset - seg.paddr = s.offset - s.addr
  BY <1>2, CopiedAreLoaded
<1>5. \A d \in DOMAIN elf.sections : elf.sections[d].bss => c \notin Span(elf.sections[d])
  BY <1>1
<1>6. c \in Int
  BY SectionsFit
<1>7. ElfByte(seg.offset + c - seg.paddr) = ElfByte(s.offset + c - s.addr)
  <2> HIDE DEF s, seg
  <2> QED
    BY <1>3, <1>4, <1>6, Shift DEF Segment, Section, ElfByte
<1> QED
  BY <1>4, <1>5, <1>7

LEMMA PlacesAre ==
    /\ ENVIRONMENT_STRING \in Nat /\ REGION_END \in Nat
    /\ \A c \in Int : 0 <= c /\ c < RELOCATOR_SIZE => c \in Places
    /\ REGION_END \in Places
    /\ \A n \in 0..(ENVIRONMENT_PATH_LENGTH - 2) : ENVIRONMENT_STRING + n \in Places
BY SizesAssumption DEF ENVIRONMENT_STRING, REGION_END, Places

(* Cells outside the loader's place are out of reach. *)
LEMMA EnvironmentStays ==
    ASSUME Environment, UNCHANGED path_length,
           \A c \in Places : c >= RELOCATOR_SIZE => cells'[c] = cells[c]
    PROVE  Environment'
<1>1. /\ REGION_END \in Places /\ REGION_END >= RELOCATOR_SIZE
      /\ \A n \in 0..(ENVIRONMENT_PATH_LENGTH - 2) :
            ENVIRONMENT_STRING + n \in Places /\ ENVIRONMENT_STRING + n >= RELOCATOR_SIZE
  BY SizesAssumption DEF ENVIRONMENT_STRING, REGION_END, Places
<1>2. cells'[REGION_END] = RegionEnd
  BY <1>1 DEF Environment
<1>3. ASSUME NEW n \in 0..(ENVIRONMENT_PATH_LENGTH - 2)
      PROVE  cells'[ENVIRONMENT_STRING + n] = IF n < path_length' THEN PathByte(n) ELSE 0
  BY <1>1, <1>3 DEF Environment
<1> QED
  BY <1>2, <1>3 DEF Environment, RegionEnd, ENVIRONMENT_STRING, REGION_END, PathByte

-----------------------------------------------------------------------------
LEMMA StartOfSetup == SetupInit => SetupInv
<1> SUFFICES ASSUME SetupInit PROVE SetupInv
  OBVIOUS
<1>1. cells \in [Places -> Int]
  BY DEF SetupInit, Old
<1>2. SetupTypeOK
  BY <1>1, PathLengthsAssumption DEF SetupInit, SetupTypeOK, Steps
<1> QED
  BY <1>2 DEF SetupInit, SetupInv

LEMMA PlacesAreNumbers == \A c \in Places : c \in Int
BY SizesAssumption DEF Places, REGION_END, ENVIRONMENT_STRING

LEMMA StepOfMain ==
    ASSUME SetupInv, Main
    PROVE  SetupInv'
<1>1. elf \in Images /\ elf.segments # << >>
  BY OfImage DEF SetupInv, SetupTypeOK
<1>2. step' = "segments" /\ i' = 1
  <2>1. step' = "segments" /\ i' = i
    BY <1>1 DEF Main
  <2> QED
    BY <2>1 DEF SetupInv, Main
<1>3. cells' \in [Places -> Int]
  <2>1. \A c \in Places : c \in Int
    BY PlacesAreNumbers
  <2>2. ENVIRONMENT_STRING \in Int
    BY PlacesAre
  <2>3. cells \in [Places -> Int]
    BY DEF SetupInv, SetupTypeOK
  <2>4. ASSUME NEW c \in Places
        PROVE  (CASE c = REGION_END -> RegionEnd
                  [] c \in ENVIRONMENT_STRING..(REGION_END - 2) ->
                        IF c - ENVIRONMENT_STRING < path_length
                        THEN PathByte(c - ENVIRONMENT_STRING) ELSE 0
                  [] OTHER -> cells[c]) \in Int
    BY <2>1, <2>2, <2>3, <2>4 DEF RegionEnd, PathByte
  <2> QED
    BY <2>4 DEF Main
<1>4. SetupTypeOK'
  BY <1>1, <1>2, <1>3 DEF SetupInv, SetupTypeOK, Steps, Main
<1>5. Environment'
  <2>1. cells'[REGION_END] = RegionEnd
    BY PlacesAre DEF Main
  <2>2. ASSUME NEW n \in 0..(ENVIRONMENT_PATH_LENGTH - 2)
        PROVE  cells'[ENVIRONMENT_STRING + n] = IF n < path_length THEN PathByte(n) ELSE 0
    <3> DEFINE c == ENVIRONMENT_STRING + n
    <3>1. /\ c \in Places /\ c # REGION_END /\ c \in ENVIRONMENT_STRING..(REGION_END - 2)
          /\ c - ENVIRONMENT_STRING = n
      BY <2>2, SizesAssumption DEF ENVIRONMENT_STRING, REGION_END, Places
    <3> HIDE DEF c
    <3>2. cells'[c] = IF c - ENVIRONMENT_STRING < path_length
                      THEN PathByte(c - ENVIRONMENT_STRING) ELSE 0
      BY <3>1 DEF Main
    <3> QED
      BY <3>1, <3>2 DEF c
  <2> QED
    BY <2>1, <2>2 DEF Environment, Main
<1>6. ASSUME NEW j \in DOMAIN elf.segments PROVE ~(j < 1)
  BY <1>1, <1>6, OfImage
<1> QED
  BY <1>2, <1>4, <1>5, <1>6 DEF SetupInv, Main

LEMMA StepOfCopySegment ==
    ASSUME SetupInv, CopySegment
    PROVE  SetupInv'
<1> DEFINE seg == elf.segments[i]
<1>1. /\ elf \in Images /\ elf' = elf /\ step = "segments" /\ step' = "segments"
      /\ i \in DOMAIN elf.segments /\ i' = i + 1
  BY OfImage DEF SetupInv, SetupTypeOK, CopySegment
<1>2. cells \in [Places -> Int] /\ i \in Nat \ {0}
  BY DEF SetupInv, SetupTypeOK
<1>3. seg.offset \in Nat /\ seg.paddr \in Nat
  BY <1>1, OfImage DEF Segment
<1>4. cells' \in [Places -> Int]
  <2>1. CASE Copied(seg)
    <3>1. cells' = [c \in Places |-> IF c \in Target(seg)
                                     THEN ElfByte(seg.offset + c - seg.paddr) ELSE cells[c]]
      BY <2>1 DEF CopySegment
    <3>2. ASSUME NEW c \in Places PROVE ElfByte(seg.offset + c - seg.paddr) \in Int
      BY <1>3, PlacesAreNumbers DEF ElfByte
    <3> HIDE DEF seg
    <3> QED
      BY <1>2, <3>1, <3>2
  <2>2. CASE ~Copied(seg)
    BY <1>2, <2>2 DEF CopySegment
  <2> QED
    BY <2>1, <2>2
<1>5. ASSUME NEW c \in Places, Copied(seg) => c \notin Target(seg)
      PROVE  cells'[c] = cells[c]
  BY <1>5 DEF CopySegment
<1>6. \A c \in Places : c >= RELOCATOR_SIZE => cells'[c] = cells[c]
  <2> SUFFICES ASSUME NEW c \in Places, c >= RELOCATOR_SIZE, Copied(seg)
               PROVE  c \notin Target(seg)
    BY <1>5
  <2> QED
    BY <1>1, SegmentsApart, SizesAssumption, PlacesAreNumbers
<1>7. ASSUME NEW j \in DOMAIN elf.segments, j < i + 1, Copied(elf.segments[j])
      PROVE  InPlace(elf.segments[j])'
  <2> DEFINE copy == elf.segments[j]
  <2> SUFFICES ASSUME NEW c \in Target(copy)
               PROVE  cells'[c] = ElfByte(copy.offset + c - copy.paddr)
    BY <1>1 DEF InPlace, Target, ElfByte
  <2>1. c \in Places
    BY <1>1, <1>7, SegmentsApart, PlacesAre
  <2>2. CASE j = i
    BY <1>7, <2>1, <2>2 DEF CopySegment
  <2>3. CASE j # i
    <3>1. j < i
      BY <1>1, <1>2, <1>7, <2>3, OfImage
    <3>2. cells[c] = ElfByte(copy.offset + c - copy.paddr)
      BY <1>1, <1>7, <3>1 DEF SetupInv, InPlace
    <3>3. Copied(seg) => c \notin Target(seg)
      BY <1>1, <1>7, <2>3, SegmentsApart
    <3> QED
      BY <1>5, <2>1, <3>2, <3>3
  <2> QED
    BY <2>2, <2>3
<1>8. SetupTypeOK'
  BY <1>1, <1>2, <1>4 DEF SetupInv, SetupTypeOK, CopySegment, Steps
<1>9. Environment'
  BY <1>1, <1>6, EnvironmentStays DEF SetupInv, CopySegment
<1> QED
  BY <1>1, <1>7, <1>8, <1>9 DEF SetupInv

LEMMA StepOfEndSegments ==
    ASSUME SetupInv, EndSegments
    PROVE  SetupInv'
<1>1. /\ elf \in Images /\ elf' = elf /\ cells' = cells /\ step = "segments" /\ step' = "sections"
      /\ i \in Nat \ {0} /\ i' = 1
  BY DEF SetupInv, SetupTypeOK, EndSegments
<1>2. ASSUME NEW l \in DOMAIN elf.segments, Copied(elf.segments[l])
      PROVE  InPlace(elf.segments[l])
  <2>1. l < i
    BY <1>1, OfImage DEF EndSegments
  <2> QED
    BY <1>1, <1>2, <2>1 DEF SetupInv
<1>3. ASSUME NEW j \in DOMAIN elf.sections, ~elf.sections[j].nobits
      PROVE  Filled(elf.sections[j])
  <2> SUFFICES ASSUME NEW c \in Span(elf.sections[j])
               PROVE  cells[c] = ElfByte(elf.sections[j].offset + c - elf.sections[j].addr)
    BY DEF Filled
  <2> QED
    BY <1>1, <1>2, <1>3, SectionsAreCopied DEF InPlace
<1>4. \A j \in DOMAIN elf.sections : ~(j < 1)
  BY <1>1, OfImage
<1>5. SetupTypeOK'
  BY <1>1 DEF SetupInv, SetupTypeOK, EndSegments, Steps
<1>6. Environment'
  BY <1>1, EnvironmentStays DEF SetupInv, EndSegments
<1>7. \A j \in DOMAIN elf.sections : Filled(elf.sections[j])' <=> Filled(elf.sections[j])
  BY <1>1 DEF Filled, Span, ElfByte
<1> QED
  BY <1>1, <1>3, <1>4, <1>5, <1>6, <1>7 DEF SetupInv

LEMMA StepOfClearSection ==
    ASSUME SetupInv, ClearSection
    PROVE  SetupInv'
<1> DEFINE s == elf.sections[i]
<1>1. /\ elf \in Images /\ elf' = elf /\ step = "sections" /\ step' = "sections"
      /\ i \in DOMAIN elf.sections /\ i' = i + 1
  BY OfImage DEF SetupInv, SetupTypeOK, ClearSection
<1>2. cells \in [Places -> Int] /\ i \in Nat \ {0}
  BY DEF SetupInv, SetupTypeOK
<1>3. /\ cells' = [c \in Places |-> IF s.bss /\ c \in Span(s) THEN 0 ELSE cells[c]]
      /\ cells' \in [Places -> Int]
  <2>1. cells' = [c \in Places |-> IF s.bss /\ c \in Span(s) THEN 0 ELSE cells[c]]
    BY DEF ClearSection
  <2> HIDE DEF s
  <2> QED
    BY <1>2, <2>1
<1>4. \A c \in Places : c >= RELOCATOR_SIZE => cells'[c] = cells[c]
  <2> SUFFICES ASSUME NEW c \in Places, c >= RELOCATOR_SIZE
               PROVE  c \notin Span(s)
    BY <1>3
  <2> QED
    BY <1>1, SectionsFit, SizesAssumption, PlacesAreNumbers
<1>5. ASSUME NEW j \in DOMAIN elf.sections, ~elf.sections[j].nobits
      PROVE  Filled(elf.sections[j])'
  <2> DEFINE t == elf.sections[j]
  <2> SUFFICES ASSUME NEW c \in Span(t)
               PROVE  cells'[c] = ElfByte(t.offset + c - t.addr)
    BY <1>1 DEF Filled, Span, ElfByte
  <2>1. c \in Places
    BY <1>1, SectionsFit, PlacesAre
  <2>2. cells[c] = ElfByte(t.offset + c - t.addr)
    BY <1>1, <1>5 DEF SetupInv, Filled
  <2>3. s.bss => c \notin Span(s)
    BY <1>1, <1>5, SectionsAreCopied
  <2> QED
    BY <1>3, <2>1, <2>2, <2>3
<1>6. ASSUME NEW j \in DOMAIN elf.sections, elf.sections[j].nobits, j < i + 1
      PROVE  Cleared(elf.sections[j])'
  <2> DEFINE t == elf.sections[j]
  <2> SUFFICES ASSUME NEW c \in Span(t)
               PROVE  cells'[c] = 0
    BY <1>1 DEF Cleared, Span
  <2>1. c \in Places
    BY <1>1, SectionsFit, PlacesAre
  <2>2. CASE j = i
    BY <1>1, <1>3, <1>6, <2>1, <2>2, OfImage
  <2>3. CASE j # i
    <3>1. j < i
      BY <1>1, <1>2, <1>6, <2>3, OfImage
    <3>2. cells[c] = 0
      BY <1>1, <1>6, <3>1 DEF SetupInv, Cleared
    <3> QED
      BY <1>3, <2>1, <3>2
  <2> QED
    BY <2>2, <2>3
<1>7. SetupTypeOK'
  BY <1>1, <1>2, <1>3 DEF SetupInv, SetupTypeOK, ClearSection, Steps
<1>8. Environment'
  BY <1>1, <1>4, EnvironmentStays DEF SetupInv, ClearSection
<1> QED
  BY <1>1, <1>5, <1>6, <1>7, <1>8 DEF SetupInv

LEMMA StepOfEndSections ==
    ASSUME SetupInv, EndSections
    PROVE  SetupInv'
<1>1. /\ elf \in Images /\ elf' = elf /\ cells' = cells /\ step = "sections" /\ step' = "hook"
      /\ i \in Nat \ {0} /\ i' = 1 /\ i > Len(elf.sections)
  BY DEF SetupInv, SetupTypeOK, EndSections
<1>2. \A j \in DOMAIN elf.sections : j < i
  BY <1>1, OfImage
<1>3. \A j \in DOMAIN elf.sections :
          /\ Filled(elf.sections[j])' <=> Filled(elf.sections[j])
          /\ Cleared(elf.sections[j])' <=> Cleared(elf.sections[j])
  BY <1>1 DEF Filled, Cleared, Span, ElfByte
<1>4. SetupTypeOK'
  BY <1>1 DEF SetupInv, SetupTypeOK, EndSections, Steps
<1>5. Environment'
  BY <1>1, EnvironmentStays DEF SetupInv, EndSections
<1> QED
  BY <1>1, <1>2, <1>3, <1>4, <1>5 DEF SetupInv

LEMMA StepOfWriteHook ==
    ASSUME SetupInv, WriteHook
    PROVE  SetupInv'
<1>1. /\ elf \in Images /\ elf' = elf /\ cells' = cells /\ step = "hook" /\ step' = "called"
      /\ i' = i /\ path_length' = path_length
  BY DEF SetupInv, SetupTypeOK, WriteHook
<1>2. hook' = elf.entry
  BY <1>1, OfImage DEF WriteHook
<1>3. \A j \in DOMAIN elf.sections :
          /\ Filled(elf.sections[j])' <=> Filled(elf.sections[j])
          /\ Cleared(elf.sections[j])' <=> Cleared(elf.sections[j])
  BY <1>1 DEF Filled, Cleared, Span, ElfByte
<1>4. SetupTypeOK'
  BY <1>1 DEF SetupInv, SetupTypeOK, Steps
<1>5. Environment'
  BY <1>1, EnvironmentStays DEF SetupInv
<1> QED
  BY <1>1, <1>2, <1>3, <1>4, <1>5 DEF SetupInv

LEMMA SetupSteps == SetupInv /\ [SetupNext]_setupVars => SetupInv'
<1> SUFFICES ASSUME SetupInv, [SetupNext]_setupVars PROVE SetupInv'
  OBVIOUS
<1>1. CASE Main
  BY <1>1, StepOfMain
<1>2. CASE BadArguments
  BY <1>2 DEF SetupInv, SetupTypeOK, BadArguments, Steps
<1>3. CASE CopySegment
  BY <1>3, StepOfCopySegment
<1>4. CASE EndSegments
  BY <1>4, StepOfEndSegments
<1>5. CASE ClearSection
  BY <1>5, StepOfClearSection
<1>6. CASE EndSections
  BY <1>6, StepOfEndSections
<1>7. CASE WriteHook
  BY <1>7, StepOfWriteHook
<1>8. CASE UNCHANGED setupVars
  BY <1>8 DEF SetupInv, SetupTypeOK, setupVars, Steps, Environment, InPlace, Filled, Cleared,
              Target, Span, ElfByte, PathByte
<1> QED
  BY <1>1, <1>2, <1>3, <1>4, <1>5, <1>6, <1>7, <1>8 DEF SetupNext

LEMMA LinkedBySetup == SetupInv => StartsAsLinked
<1> SUFFICES ASSUME SetupInv, step = "called"
             PROVE  /\ hook = elf.entry
                    /\ \A j \in DOMAIN elf.sections : \A c \in Span(elf.sections[j]) :
                          cells[c] = IF elf.sections[j].nobits THEN 0
                                     ELSE ElfByte(elf.sections[j].offset + c - elf.sections[j].addr)
                    /\ cells[REGION_END] = RegionEnd
                    /\ path_length < ENVIRONMENT_PATH_LENGTH - 1 =>
                          /\ \A n \in 0..(path_length - 1) :
                                cells[ENVIRONMENT_STRING + n] = PathByte(n)
                          /\ cells[ENVIRONMENT_STRING + path_length] = 0
  BY DEF StartsAsLinked
<1>1. hook = elf.entry /\ Environment /\ path_length \in Nat
  BY DEF SetupInv, SetupTypeOK
<1>2. \A j \in DOMAIN elf.sections : \A c \in Span(elf.sections[j]) :
          cells[c] = IF elf.sections[j].nobits THEN 0
                     ELSE ElfByte(elf.sections[j].offset + c - elf.sections[j].addr)
  BY DEF SetupInv, Filled, Cleared
<1>3. ASSUME path_length < ENVIRONMENT_PATH_LENGTH - 1
      PROVE  /\ \A n \in 0..(path_length - 1) : cells[ENVIRONMENT_STRING + n] = PathByte(n)
             /\ cells[ENVIRONMENT_STRING + path_length] = 0
  <2>1. \A n \in 0..path_length : n \in 0..(ENVIRONMENT_PATH_LENGTH - 2)
    BY <1>1, <1>3, SizesAssumption
  <2>2. \A n \in 0..path_length :
            cells[ENVIRONMENT_STRING + n] = IF n < path_length THEN PathByte(n) ELSE 0
    BY <1>1, <2>1 DEF Environment
  <2>3. ASSUME NEW n \in 0..(path_length - 1) PROVE cells[ENVIRONMENT_STRING + n] = PathByte(n)
    <3>1. n \in 0..path_length /\ n < path_length
      BY <1>1
    <3> QED
      BY <2>2, <3>1
  <2>4. path_length \in 0..path_length /\ ~(path_length < path_length)
    BY <1>1
  <2> QED
    BY <2>2, <2>3, <2>4
<1> QED
  BY <1>1, <1>2, <1>3 DEF Environment

(* Whenever the loader is called it is in memory as it was linked, with nothing left of what
   was there in its sections without data, and neither the copy nor the clearing reached the
   path and the end of the region behind it: for every size of the place of the loader, every
   length of the path and every ELF that link.ld allows. *)
THEOREM LoaderStartsAsLinked == SetupSpec => []StartsAsLinked
<1> QED
  BY StartOfSetup, SetupSteps, LinkedBySetup, PTL DEF SetupSpec

=============================================================================
