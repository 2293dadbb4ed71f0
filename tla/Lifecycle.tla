----------------------------- MODULE Lifecycle ------------------------------
(***************************************************************************)
(* The life of the loader over the applications of a console session: the  *)
(* one start with the setup magic number, then a start in each application *)
(* (entry.cpp: _start, doStart), the relocation of the modules against the *)
(* RPLs of that application (RelocationUtils.cpp), the calls of the        *)
(* modules' hooks (hooks.cpp), the application itself, and the release of  *)
(* the RPLs at its end by the base module.                                 *)
(*                                                                         *)
(* The order of the modules is one that ModuleOrder may produce.           *)
(***************************************************************************)
EXTENDS ModuleDeps, DynLoad, FiniteSetsExt

VARIABLES
    pc,                 \* where doStart is, or what the application does
    k,                  \* the position of the loop over gLoadedModules
    done,               \* RPLs dealt with for the module at k; those released at the end
    first,              \* this start took the branch that loads the modules
    magic,              \* this start has the setup magic number
    relaunch,           \* the boot flag that OSForceFullRelaunch leaves
    ucSetupRequired,    \* static of _start: the heap is still to be created
    gInitCalled,
    gLoadedModules,
    gUsedRPLs,          \* gUsedRPLs[r]: the handle in the map, 0 if there is none
    acquired_rpls,      \* the handles in gModuleInformation, for the base module
    customAllocator,    \* gCustomRPLAllocatorAllocFn and FreeFn are set
    prevAllocator,      \* ResolveRelocations' prevDynLoadAlloc and Free
    link,               \* link[m][r]: the load of r that m's imports point into
    inits,              \* inits[m]: how often INIT was called for m (2: more than once)
    appRefs,            \* RPLs the application, or a hook, holds a reference to
    sysRefs             \* RPLs the application's program imports

start == <<first, magic, relaunch, ucSetupRequired, gInitCalled, gLoadedModules>>
reloc == <<gUsedRPLs, prevAllocator, link>>
app   == <<appRefs, sysRefs>>
vars  == <<desc, dynLoadVars, pc, k, done, start, reloc, acquired_rpls, customAllocator,
           inits, app>>

(* The RPLs a module imports from: names that no module exports. *)
Imports(m) == desc[m].deps \cap Rpls

(* A set of names, each with no load of it. *)
NoHandles == [r \in Rpls |-> 0]

Init ==
    /\ DescInit
    /\ NamesAgree
    /\ DynLoadInit
    /\ pc = "idle"
    /\ k = 1
    /\ done = {}
    /\ first = FALSE
    /\ magic = FALSE
    /\ relaunch \in BOOLEAN
    /\ ucSetupRequired = TRUE
    /\ gInitCalled = FALSE
    /\ gLoadedModules = << >>
    /\ gUsedRPLs = NoHandles
    /\ acquired_rpls = {}
    /\ customAllocator = FALSE
    /\ prevAllocator = "app"
    /\ link = [m \in Modules |-> NoHandles]
    /\ inits = [m \in Modules |-> 0]
    /\ appRefs = {}
    /\ sysRefs = {}

OSFatal ==
    /\ pc' = "fatal"
    /\ UNCHANGED <<desc, dynLoadVars, k, done, start, reloc, acquired_rpls, customAllocator,
                   inits, app>>

(* Numbers of loads that some handle, link or block still stands for. *)
Remembered ==
    {rpl[r].id : r \in Rpls} \cup {gUsedRPLs[r] : r \in Rpls} \cup acquired_rpls
    \cup {link[m][r] : m \in Modules, r \in Rpls} \cup gAllocatedAddresses \cup heap
    \cup moduleMemory

(* The bound: a load needs a number that nothing remembers. *)
Numbers == Ids \ Remembered

Fresh == CHOOSE x \in Numbers : TRUE

-----------------------------------------------------------------------------
(* _start *)

(* A process starts, with the RPLs S its program imports. The setup payload calls
   _start with the magic number; every later call is an application's. foreign:
   OSGetUPID is neither 2 nor 15. Such a process leaves all of this alone but for
   the heap, so only the first start may be one. *)
StartProcess(S, foreign) ==
    /\ pc = "idle"
    /\ foreign => ucSetupRequired
    /\ Injection(S, Numbers) # {}
    /\ NewProcess(CHOOSE loads \in Injection(S, Numbers) : TRUE)
    /\ sysRefs' = S
    /\ magic' = ucSetupRequired
    /\ ucSetupRequired' = FALSE
    /\ pc' = IF foreign \/ (relaunch /\ magic') THEN "running" ELSE "clear"
    /\ UNCHANGED <<desc, k, done, first, relaunch, gInitCalled, gLoadedModules, reloc,
                   acquired_rpls, customAllocator, inits, appRefs>>

(* MEMCreateExpHeapEx fails. *)
NoHeap == pc = "idle" /\ ucSetupRequired /\ OSFatal

-----------------------------------------------------------------------------
(* doStart, before the phases *)

(* Mutant: the handles of the last application are kept. *)
ClearKeepsHandles ==
    /\ pc = "clear"
    /\ heap' = heap \ gAllocatedAddresses
    /\ gAllocatedAddresses' = {}
    /\ first' = ~gInitCalled
    /\ gInitCalled' = TRUE
    /\ pc' = IF gInitCalled THEN "clearRpl" ELSE "load"
    /\ k' = 1
    /\ UNCHANGED <<desc, rpl, allocator, moduleMemory, done, magic, relaunch, ucSetupRequired,
                   gLoadedModules, reloc, acquired_rpls, customAllocator, inits, app>>

(* Mutant: gInitCalled stays unset, so each start loads the modules. *)
ClearAndLoad ==
    /\ pc = "clear"
    /\ gUsedRPLs' = NoHandles
    /\ heap' = heap \ gAllocatedAddresses
    /\ gAllocatedAddresses' = {}
    /\ first' = TRUE
    /\ gInitCalled' = TRUE
    /\ pc' = "load"
    /\ k' = 1
    /\ UNCHANGED <<desc, rpl, allocator, moduleMemory, done, magic, relaunch, ucSetupRequired,
                   gLoadedModules, prevAllocator, link, acquired_rpls, customAllocator, inits,
                   app>>

Clear ==
    /\ pc = "clear"
    /\ gUsedRPLs' = NoHandles
    /\ heap' = heap \ gAllocatedAddresses
    /\ gAllocatedAddresses' = {}
    /\ first' = ~gInitCalled
    /\ gInitCalled' = TRUE
    /\ pc' = IF gInitCalled THEN "clearRpl" ELSE "load"
    /\ k' = 1
    /\ UNCHANGED <<desc, rpl, allocator, moduleMemory, done, magic, relaunch, ucSetupRequired,
                   gLoadedModules, prevAllocator, link, acquired_rpls, customAllocator, inits,
                   app>>

(* Mutant: the modules stay in the order of their files. *)
LoadUnordered ==
    /\ pc = "load"
    /\ gLoadedModules' = [m \in Modules |-> m]
    /\ pc' = "reloc"
    /\ UNCHANGED <<desc, dynLoadVars, k, done, first, magic, relaunch, ucSetupRequired,
                   gInitCalled, reloc, acquired_rpls, customAllocator, inits, app>>

(* The modules are loaded, described in gModuleInformation, and put in order. *)
LoadModules ==
    /\ pc = "load"
    /\ \E order \in [Modules -> Modules] :
          /\ Admissible(order)
          /\ gLoadedModules' = order
    /\ pc' = "reloc"
    /\ UNCHANGED <<desc, dynLoadVars, k, done, first, magic, relaunch, ucSetupRequired,
                   gInitCalled, reloc, acquired_rpls, customAllocator, inits, app>>

(* Out of memory, or a module order ModuleOrder stops at. *)
LoadFails == pc = "load" /\ OSFatal

-----------------------------------------------------------------------------
(* The phases of doStart, each a loop over gLoadedModules. *)

InLoop(phase) == pc = phase /\ k <= Len(gLoadedModules)

cur == gLoadedModules[k]

(* Mutant: the loop does not go on. *)
SameModule ==
    /\ k' = k
    /\ done' = {}

NextModule ==
    /\ k' = k + 1
    /\ done' = {}

After ==
    [reloc |-> "early", early |-> "alloc", alloc |-> "setAllocator", relocAll |-> "relocsDone",
     relocsDone |-> IF first THEN "regular" ELSE "save", regular |-> "save",
     clearRpl |-> "setAllocator", devoptab |-> "sockets", sockets |-> "starts",
     starts |-> "allStarts", allStarts |-> "running"]

(* Mutant: the allocator stays. *)
EndPhaseKeepsAllocator ==
    /\ pc \in DOMAIN After
    /\ k > Len(gLoadedModules)
    /\ pc' = After[pc]
    /\ k' = 1
    /\ done' = {}
    /\ UNCHANGED <<desc, dynLoadVars, start, reloc, acquired_rpls, customAllocator, inits, app>>

(* A loop is over. The second ResolveRelocations ends with the allocator that was
   set before it. *)
EndPhase ==
    /\ pc \in DOMAIN After
    /\ k > Len(gLoadedModules)
    /\ pc' = After[pc]
    /\ k' = 1
    /\ done' = {}
    /\ allocator' = IF pc = "relocAll" THEN prevAllocator ELSE allocator
    /\ UNCHANGED <<desc, rpl, memory, start, reloc, acquired_rpls, customAllocator, inits, app>>

(* ResolveRelocations(gLoadedModules, false, ...) begins. *)
SetAllocator ==
    /\ pc = "setAllocator"
    /\ prevAllocator' = allocator
    /\ allocator' = IF customAllocator THEN "module" ELSE "loader"
    /\ pc' = "relocAll"
    /\ UNCHANGED <<desc, rpl, memory, k, done, start, gUsedRPLs, link, acquired_rpls,
                   customAllocator, inits, app>>

-----------------------------------------------------------------------------
(* doRelocation, for the imports of the module at k from one RPL. Imports from
   other modules are linked to exports that stay where they are. *)

Relocating(r) ==
    /\ InLoop("reloc") \/ InLoop("relocAll")
    /\ r \in Imports(cur) \ done

(* skipUnloadedRpl: the RPL is left for the second time. *)
SkipUnloaded(r) ==
    /\ Relocating(r)
    /\ pc = "reloc"
    /\ gUsedRPLs[r] = 0
    /\ ~Loaded(r)
    /\ done' = done \cup {r}
    /\ UNCHANGED <<desc, dynLoadVars, pc, k, start, reloc, acquired_rpls, customAllocator,
                   inits, app>>

(* elfLinkOne, with the address FindExport has for that handle. *)
LinkTo(r, handle) ==
    /\ link' = [link EXCEPT ![cur][r] = handle]
    /\ done' = done \cup {r}

(* Mutant: an RPL that is loaded is used without a reference. *)
AcquireUnloaded(r) ==
    /\ Relocating(r)
    /\ gUsedRPLs[r] = 0
    /\ pc = "relocAll" \/ Loaded(r)
    /\ Numbers # {}
    /\ \/ Loaded(r) /\ UNCHANGED dynLoadVars
       \/ Load(r, Fresh)
    /\ gUsedRPLs' = [gUsedRPLs EXCEPT ![r] = rpl'[r].id]
    /\ LinkTo(r, rpl'[r].id)
    /\ UNCHANGED <<desc, pc, k, start, prevAllocator, acquired_rpls, customAllocator, inits, app>>

AcquireImport(r) ==
    /\ Relocating(r)
    /\ gUsedRPLs[r] = 0
    /\ pc = "relocAll" \/ Loaded(r)
    /\ Numbers # {}
    /\ Acquire(r, Fresh)
    /\ gUsedRPLs' = [gUsedRPLs EXCEPT ![r] = rpl'[r].id]
    /\ LinkTo(r, rpl'[r].id)
    /\ UNCHANGED <<desc, pc, k, start, prevAllocator, acquired_rpls, customAllocator, inits, app>>

(* Mutant: acquired again for each module. *)
AcquireAgain(r) ==
    /\ Relocating(r)
    /\ gUsedRPLs[r] # 0
    /\ Numbers # {}
    /\ Acquire(r, Fresh)
    /\ LinkTo(r, gUsedRPLs[r])
    /\ UNCHANGED <<desc, pc, k, start, gUsedRPLs, prevAllocator, acquired_rpls, customAllocator,
                   inits, app>>

UseHandle(r) ==
    /\ Relocating(r)
    /\ gUsedRPLs[r] # 0
    /\ LinkTo(r, gUsedRPLs[r])
    /\ UNCHANGED <<desc, dynLoadVars, pc, k, start, gUsedRPLs, prevAllocator, acquired_rpls,
                   customAllocator, inits, app>>

(* Acquire fails, the RPL or the other module lacks the export, or the address is
   out of reach for the instruction. *)
RelocationFails ==
    /\ InLoop("reloc") \/ InLoop("relocAll")
    /\ desc[cur].deps # {}
    /\ OSFatal

Relocated ==
    /\ InLoop("reloc") \/ InLoop("relocAll")
    /\ Imports(cur) \subseteq done
    /\ NextModule
    /\ UNCHANGED <<desc, dynLoadVars, pc, start, reloc, acquired_rpls, customAllocator, inits, app>>

-----------------------------------------------------------------------------
(* CallHook, for the module at k; a hook of a descriptor is one that CallHook
   finds: the first of its type, and before any without a target. *)

Sweep ==
    [clearRpl |-> "CLEAR_ALLOCATED_RPL_MEMORY", alloc |-> "GET_CUSTOM_RPL_ALLOCATOR",
     relocsDone |-> "RELOCATIONS_DONE", devoptab |-> "INIT_WUT_DEVOPTAB",
     sockets |-> "INIT_WUT_SOCKETS", starts |-> "APPLICATION_STARTS",
     allStarts |-> "ALL_APPLICATION_STARTS_DONE"]

Hooks == {Sweep[phase] : phase \in DOMAIN Sweep} \cup {"INIT"}

(* hook is about to be called, or passed over, in the module at k. *)
AtHook(hook) ==
    \/ \E phase \in DOMAIN Sweep : InLoop(phase) /\ hook = Sweep[phase]
    \/ InLoop("early") /\ ~Regular(cur) /\ hook = "INIT"
    \/ InLoop("regular") /\ Regular(cur) /\ hook = "INIT"

Calls(hook) == AtHook(hook) /\ hook \in desc[cur].hooks

(* A call, or no call if the module has no such hook. Of what hooks do, only the
   allocator's part is followed: the module that gives its allocator frees, when
   told to, what is left of the RPLs of the last application. *)
CallHook ==
    /\ \E hook \in Hooks : AtHook(hook)
    /\ customAllocator' = (customAllocator \/ Calls("GET_CUSTOM_RPL_ALLOCATOR"))
    /\ moduleMemory' = IF Calls("CLEAR_ALLOCATED_RPL_MEMORY") THEN {} ELSE moduleMemory
    /\ inits' = IF Calls("INIT") THEN [inits EXCEPT ![cur] = Min({@ + 1, 2})] ELSE inits
    /\ NextModule
    /\ UNCHANGED <<desc, rpl, allocator, gAllocatedAddresses, heap, pc, start, reloc,
                   acquired_rpls, app>>

(* The init loops pass over the modules that are the other loop's. *)
OtherLoop ==
    /\ \/ InLoop("early") /\ Regular(cur)
       \/ InLoop("regular") /\ ~Regular(cur)
    /\ NextModule
    /\ UNCHANGED <<desc, dynLoadVars, pc, start, reloc, acquired_rpls, customAllocator, inits, app>>

(* Mutant: only the first start saves the handles. *)
SaveOnce ==
    /\ pc = "save"
    /\ acquired_rpls' = IF first THEN {gUsedRPLs[r] : r \in Rpls} \ {0} ELSE acquired_rpls
    /\ pc' = "devoptab"
    /\ UNCHANGED <<desc, dynLoadVars, k, done, start, reloc, customAllocator, inits, app>>

(* SaveLoadedRPLsInGlobalInformation *)
SaveLoadedRPLs ==
    /\ pc = "save"
    /\ acquired_rpls' = {gUsedRPLs[r] : r \in Rpls} \ {0}
    /\ pc' = "devoptab"
    /\ UNCHANGED <<desc, dynLoadVars, k, done, start, reloc, customAllocator, inits, app>>

SaveFails == pc = "save" /\ OSFatal

-----------------------------------------------------------------------------
(* The application, and its end. *)

(* The application, or the INIT hook of an early module, acquires an RPL; the
   application may give it back. *)
AppAcquire(r) ==
    /\ \/ pc = "running" /\ ~magic
       \/ pc = "early" /\ Calls("INIT")
    /\ r \notin appRefs
    /\ Numbers # {}
    /\ Acquire(r, Fresh)
    /\ appRefs' = appRefs \cup {r}
    /\ UNCHANGED <<desc, pc, k, done, start, reloc, acquired_rpls, customAllocator, inits, sysRefs>>

AppRelease(r) ==
    /\ pc = "running"
    /\ r \in appRefs
    /\ Release(r)
    /\ appRefs' = appRefs \ {r}
    /\ UNCHANGED <<desc, pc, k, done, start, reloc, acquired_rpls, customAllocator, inits, sysRefs>>

AppEnds ==
    /\ pc = "running"
    /\ pc' = "exit"
    /\ UNCHANGED <<desc, dynLoadVars, k, done, start, reloc, acquired_rpls, customAllocator,
                   inits, app>>

BaseLoaded == \E m \in Elements(gLoadedModules) : desc[m].name = Base

(* RPLs whose handle the base module has in the list and not yet released. *)
ToRelease == {r \in Rpls \ done : Loaded(r) /\ rpl[r].id \in acquired_rpls}

BaseReleases(r) ==
    /\ pc = "exit"
    /\ BaseLoaded
    /\ r \in ToRelease
    /\ Release(r)
    /\ done' = done \cup {r}
    /\ UNCHANGED <<desc, pc, k, start, reloc, acquired_rpls, customAllocator, inits, app>>

ProcessEnds ==
    /\ pc = "exit"
    /\ BaseLoaded => ToRelease = {}
    /\ EndProcess
    /\ appRefs' = {}
    /\ sysRefs' = {}
    /\ pc' = "idle"
    /\ done' = {}
    /\ UNCHANGED <<desc, k, start, reloc, acquired_rpls, customAllocator, inits>>

-----------------------------------------------------------------------------
(* What the starting thread does, from doStart's first line to the real main. *)
LoaderStep ==
    \/ Clear \/ LoadModules \/ LoadFails \/ EndPhase \/ SetAllocator
    \/ \E r \in Rpls : SkipUnloaded(r) \/ AcquireImport(r) \/ UseHandle(r)
    \/ RelocationFails \/ Relocated \/ CallHook \/ OtherLoop
    \/ SaveLoadedRPLs \/ SaveFails

ExitStep == (\E r \in Rpls : BaseReleases(r)) \/ ProcessEnds

AppStep ==
    \/ \E S \in SUBSET Rpls, foreign \in BOOLEAN : StartProcess(S, foreign)
    \/ NoHeap
    \/ \E r \in Rpls : AppAcquire(r) \/ AppRelease(r)
    \/ AppEnds

Next == LoaderStep \/ ExitStep \/ AppStep

(* The thread that starts a process runs doStart to its end, the hooks return, and
   a process that ends goes through its exit. No application has to end. *)
Spec == Init /\ [][Next]_vars /\ WF_vars(LoaderStep) /\ WF_vars(ExitStep)

-----------------------------------------------------------------------------
(* The variables hold what their C++ types allow, and counts are of the size the
   numbers above bound. *)
TypeOK ==
    /\ DescInit
    /\ DynLoadTypeOK
    /\ pc \in {"idle", "clear", "load", "setAllocator", "save", "running", "exit", "fatal"}
              \cup DOMAIN After
    /\ k \in 1..(MaxModules + 1)
    /\ done \subseteq Rpls
    /\ {first, magic, relaunch, ucSetupRequired, gInitCalled, customAllocator} \subseteq BOOLEAN
    /\ gLoadedModules \in Seq(Modules)
    /\ gUsedRPLs \in [Rpls -> Ids \cup {0}]
    /\ acquired_rpls \subseteq Ids
    /\ prevAllocator \in Owners
    /\ link \in [Modules -> [Rpls -> Ids \cup {0}]]
    /\ inits \in [Modules -> 0..2]
    /\ appRefs \subseteq Rpls
    /\ sysRefs \subseteq Rpls

LinkLive(m, r) == link[m][r] # 0 /\ link[m][r] = rpl[r].id

(* Every hook is called with the module's imports linked to RPLs of the running
   application, but for three that come too soon: before the second relocation of
   the first start only the imports from RPLs the application's program imports
   itself are sure to be there, and CLEAR_ALLOCATED_RPL_MEMORY is called on the
   links of the last application. *)
HooksSeeLiveImports ==
    \A hook \in Hooks \ {"CLEAR_ALLOCATED_RPL_MEMORY"} :
        Calls(hook) =>
            \A r \in Imports(cur) :
                \/ LinkLive(cur, r)
                \/ pc \in {"early", "alloc"} /\ r \notin sysRefs

(* From the moment the start is done until the application ends, no RPL a module
   is linked to goes away, whatever the application acquires and releases: the
   loader's own reference holds it. *)
LinksStayLive ==
    pc \in {"save", "running"} =>
        \A m \in Elements(gLoadedModules) : \A r \in Imports(m) : LinkLive(m, r)

(* The references to an RPL are one for the application's imports, one for what
   it acquired, and one for a handle the base module has still to release: no
   import is acquired twice, no handle is forgotten, and none is left over from
   the last application. *)
RefsBalanced ==
    pc \in {"running", "exit"} =>
        /\ pc = "running" => acquired_rpls \subseteq {rpl[r].id : r \in Rpls}
        /\ \A r \in Rpls :
              LET One(S) == IF r \in S THEN 1 ELSE 0
              IN rpl[r].refs = One(sysRefs) + One(appRefs) + One(ToRelease)

(* The loader's list names exactly the blocks of its heap that RPLs have, at any time:
   none is freed twice, none is lost. And once a start has cleaned up, every block RPLs
   have in the loader's heap or in the allocating module's memory belongs to an RPL that
   is loaded now. *)
MemoryBalanced ==
    /\ heap = gAllocatedAddresses
    /\ pc \in {"relocAll", "relocsDone", "regular", "save", "running"} =>
          heap \cup moduleMemory = {rpl[r].id : r \in {q \in Rpls : rpl[q].by # "app"}}

(* The memory of RPLs goes back to where it came from. When the base module is there and
   the application gave back what it acquired, the process ends with no RPL left in the
   loader's or a module's memory; and an RPL that the application has loaded itself is not
   in that memory at all: the allocator is the application's again when it runs. *)
MemoryReturns ==
    [][/\ ProcessEnds /\ BaseLoaded /\ appRefs = {} => heap = {} /\ moduleMemory = {}
       /\ \A r \in Rpls : AppAcquire(r) /\ ~Loaded(r) => rpl'[r].by = "app"]_vars

(* INIT is called once for a module that has it, over all the applications; with the
   base module loaded, after INIT of the modules it imports from, and of a regular one
   after that of the base module. *)
InitOnceInOrder ==
    /\ \A m \in Modules : inits[m] <= 1
    /\ pc = "running" /\ gInitCalled =>
          \A m \in Modules : inits[m] = 1 <=> "INIT" \in desc[m].hooks
    /\ Calls("INIT") /\ BaseLoaded =>
          \A m \in Modules \ {cur} :
              /\ "INIT" \in desc[m].hooks
              /\ \/ desc[m].name \in Required(cur)
                 \/ desc[m].name = Base /\ Regular(cur) /\ desc[cur].name # Base
              => \/ inits[m] = 1
                 \/ \E n \in Modules \ {m} : desc[n].name = desc[m].name

(* Every start reaches the real main, or stops the console with a message. *)
StartEnds == pc = "clear" ~> pc \in {"running", "fatal"}
=============================================================================
