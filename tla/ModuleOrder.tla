----------------------------- MODULE ModuleOrder ----------------------------
(***************************************************************************)
(* The first start of the loader, from the list of loaded modules to the   *)
(* order in which they are relocated and initialised (entry.cpp): the      *)
(* passes of OrderModulesByDependencies, the plugin backend moved to the   *)
(* end, the check that the base module is there for the hooks it calls,    *)
(* the reordering around the base module, one moved module at a time, and  *)
(* CheckModulesByDependencies on the result.                               *)
(***************************************************************************)
EXTENDS ModuleDeps, SequencesExt

VARIABLES
    pc,                 \* "order", "backend", "base", "copy", "move", "check", "done" or "fatal"
    fatal,              \* why OSFatal was called, or "none"
    gLoadedModules,     \* the module list: numbers of modules
    finalOrder,         \* OrderModulesByDependencies' result so far
    i,                  \* the position of the loop over gLoadedModules
    canBreak,           \* flags of the current pass
    weDidSomething,
    gLoadedModulesCopy  \* regular modules the reordering has still to move

vars == <<desc, pc, fatal, gLoadedModules, finalOrder, i, canBreak, weDidSomething,
          gLoadedModulesCopy>>

scan == <<finalOrder, i, canBreak, weDidSomething>>

Reasons == {"none", "backend", "unresolved", "nobase", "impossible"}

Init ==
    /\ DescInit
    /\ pc = "order"
    /\ fatal = "none"
    /\ gLoadedModules = [k \in Modules |-> k]
    /\ finalOrder = << >>
    /\ i = 1
    /\ canBreak = TRUE
    /\ weDidSomething = FALSE
    /\ gLoadedModulesCopy = << >>

OSFatal(reason) ==
    /\ pc' = "fatal"
    /\ fatal' = reason

-----------------------------------------------------------------------------
(* OrderModulesByDependencies *)

(* loadedModulesEntrypoints: modules do not share memory, so an entry point
   stands for its module. *)
Placed == Elements(finalOrder)

cur == gLoadedModules[i]

InPass == pc = "order" /\ i <= Len(gLoadedModules)

SkipPlaced ==
    /\ InPass
    /\ cur \in Placed
    /\ i' = i + 1
    /\ UNCHANGED <<desc, pc, fatal, gLoadedModules, finalOrder, canBreak, weDidSomething,
                   gLoadedModulesCopy>>

RejectBackendImport ==
    /\ InPass
    /\ cur \notin Placed
    /\ ReachesBackend(cur, Placed)
    /\ canBreak' = FALSE
    /\ OSFatal("backend")
    /\ UNCHANGED <<desc, gLoadedModules, finalOrder, i, weDidSomething, gLoadedModulesCopy>>

LeaveForLater ==
    /\ InPass
    /\ cur \notin Placed
    /\ ~ReachesBackend(cur, Placed)
    /\ ~Satisfied(cur, Placed)
    /\ canBreak' = FALSE
    /\ i' = i + 1
    /\ UNCHANGED <<desc, pc, fatal, gLoadedModules, finalOrder, weDidSomething,
                   gLoadedModulesCopy>>

(* Mutant: the imports are not looked at. *)
PlaceUnchecked ==
    /\ InPass
    /\ cur \notin Placed
    /\ ~ReachesBackend(cur, Placed)
    /\ canBreak' = FALSE
    /\ weDidSomething' = TRUE
    /\ finalOrder' = Append(finalOrder, cur)
    /\ i' = i + 1
    /\ UNCHANGED <<desc, pc, fatal, gLoadedModules, gLoadedModulesCopy>>

PlaceModule ==
    /\ InPass
    /\ cur \notin Placed
    /\ ~ReachesBackend(cur, Placed)
    /\ Satisfied(cur, Placed)
    /\ canBreak' = FALSE
    /\ weDidSomething' = TRUE
    /\ finalOrder' = Append(finalOrder, cur)
    /\ i' = i + 1
    /\ UNCHANGED <<desc, pc, fatal, gLoadedModules, gLoadedModulesCopy>>

PassOver == pc = "order" /\ i > Len(gLoadedModules)

(* Mutant: another pass even if the last one placed nothing. *)
NextPassAlways ==
    /\ PassOver
    /\ ~canBreak
    /\ i' = 1
    /\ canBreak' = TRUE
    /\ weDidSomething' = FALSE
    /\ UNCHANGED <<desc, pc, fatal, gLoadedModules, finalOrder, gLoadedModulesCopy>>

NextPass ==
    /\ PassOver
    /\ ~canBreak
    /\ weDidSomething
    /\ i' = 1
    /\ canBreak' = TRUE
    /\ weDidSomething' = FALSE
    /\ UNCHANGED <<desc, pc, fatal, gLoadedModules, finalOrder, gLoadedModulesCopy>>

(* Mutant: one pass must do. *)
FailAfterFirstPass ==
    /\ PassOver
    /\ ~canBreak
    /\ OSFatal("unresolved")
    /\ UNCHANGED <<desc, gLoadedModules, scan, gLoadedModulesCopy>>

FailToResolve ==
    /\ PassOver
    /\ ~canBreak
    /\ ~weDidSomething
    /\ OSFatal("unresolved")
    /\ UNCHANGED <<desc, gLoadedModules, scan, gLoadedModulesCopy>>

ReturnOrder ==
    /\ PassOver
    /\ canBreak
    /\ gLoadedModules' = finalOrder
    /\ pc' = "backend"
    /\ UNCHANGED <<desc, fatal, scan, gLoadedModulesCopy>>

-----------------------------------------------------------------------------
(* doStart, after the order is known *)

(* k is the place of the first module of s with that export name. *)
IsFirstNamed(s, k, name) ==
    /\ desc[s[k]].name = name
    /\ \A j \in 1..(k - 1) : desc[s[j]].name # name

HasName(s, name) == name \in Exports(Elements(s))

(* Mutant: the backend goes to the front. *)
MoveBackendFirst ==
    /\ pc = "backend"
    /\ \E it \in DOMAIN gLoadedModules :
          /\ IsFirstNamed(gLoadedModules, it, Backend)
          /\ gLoadedModules' = <<gLoadedModules[it]>> \o RemoveAt(gLoadedModules, it)
    /\ pc' = "base"
    /\ UNCHANGED <<desc, fatal, scan, gLoadedModulesCopy>>

MoveBackendLast ==
    /\ pc = "backend"
    /\ \E it \in DOMAIN gLoadedModules :
          /\ IsFirstNamed(gLoadedModules, it, Backend)
          /\ gLoadedModules' = Append(RemoveAt(gLoadedModules, it), gLoadedModules[it])
    /\ pc' = "base"
    /\ UNCHANGED <<desc, fatal, scan, gLoadedModulesCopy>>

NoBackend ==
    /\ pc = "backend"
    /\ ~HasName(gLoadedModules, Backend)
    /\ pc' = "base"
    /\ UNCHANGED <<desc, fatal, gLoadedModules, scan, gLoadedModulesCopy>>

aromaBaseModuleLoaded == HasName(gLoadedModules, Base)

RequiresBase(m) == desc[m].hooks \cap {"APPLICATION_ENDS", "FINI_WUT_DEVOPTAB"} # {}

BaseMissing ==
    /\ pc = "base"
    /\ ~aromaBaseModuleLoaded
    /\ \E m \in Elements(gLoadedModules) : RequiresBase(m)
    /\ OSFatal("nobase")
    /\ UNCHANGED <<desc, gLoadedModules, scan, gLoadedModulesCopy>>

NoReorder ==
    /\ pc = "base"
    /\ ~aromaBaseModuleLoaded
    /\ \A m \in Elements(gLoadedModules) : ~RequiresBase(m)
    /\ pc' = "check"
    /\ UNCHANGED <<desc, fatal, gLoadedModules, scan, gLoadedModulesCopy>>

StartReorder ==
    /\ pc = "base"
    /\ aromaBaseModuleLoaded
    /\ pc' = "copy"
    /\ i' = 1
    /\ UNCHANGED <<desc, fatal, gLoadedModules, finalOrder, canBreak, weDidSomething,
                   gLoadedModulesCopy>>

CopyRegular ==
    /\ pc = "copy"
    /\ i <= Len(gLoadedModules)
    /\ gLoadedModulesCopy' = IF Regular(cur) THEN Append(gLoadedModulesCopy, cur)
                             ELSE gLoadedModulesCopy
    /\ i' = i + 1
    /\ UNCHANGED <<desc, pc, fatal, gLoadedModules, finalOrder, canBreak, weDidSomething>>

(* Mutant: the base module stays where it is. *)
BaseLeftInPlace ==
    /\ pc = "copy"
    /\ i > Len(gLoadedModules)
    /\ pc' = "move"
    /\ UNCHANGED <<desc, fatal, gLoadedModules, scan, gLoadedModulesCopy>>

BaseToFront ==
    /\ pc = "copy"
    /\ i > Len(gLoadedModules)
    /\ \E it \in DOMAIN gLoadedModulesCopy :
          /\ IsFirstNamed(gLoadedModulesCopy, it, Base)
          /\ gLoadedModulesCopy' = <<gLoadedModulesCopy[it]>> \o RemoveAt(gLoadedModulesCopy, it)
    /\ pc' = "move"
    /\ UNCHANGED <<desc, fatal, gLoadedModules, scan>>

BaseNotCopied ==
    /\ pc = "copy"
    /\ i > Len(gLoadedModules)
    /\ ~HasName(gLoadedModulesCopy, Base)
    /\ pc' = "move"
    /\ UNCHANGED <<desc, fatal, gLoadedModules, scan, gLoadedModulesCopy>>

(* Mutant: the first module of the list is removed, whatever its name. *)
MoveFirst ==
    /\ pc = "move"
    /\ gLoadedModulesCopy # << >>
    /\ gLoadedModules' = Append(Tail(gLoadedModules), Head(gLoadedModulesCopy))
    /\ gLoadedModulesCopy' = Tail(gLoadedModulesCopy)
    /\ UNCHANGED <<desc, pc, fatal, scan>>

(* remove_first_if drops the first module that has the name of the one to be
   moved, which is not always that one. *)
MoveRegular ==
    /\ pc = "move"
    /\ gLoadedModulesCopy # << >>
    /\ LET m == Head(gLoadedModulesCopy)
       IN \E it \in DOMAIN gLoadedModules :
             /\ IsFirstNamed(gLoadedModules, it, desc[m].name)
             /\ gLoadedModules' = Append(RemoveAt(gLoadedModules, it), m)
    /\ gLoadedModulesCopy' = Tail(gLoadedModulesCopy)
    /\ UNCHANGED <<desc, pc, fatal, scan>>

EndReorder ==
    /\ pc = "move"
    /\ gLoadedModulesCopy = << >>
    /\ pc' = "check"
    /\ UNCHANGED <<desc, fatal, gLoadedModules, scan, gLoadedModulesCopy>>

(* Mutant: the result of the check is not looked at. *)
CheckIgnored ==
    /\ pc = "check"
    /\ pc' = "done"
    /\ UNCHANGED <<desc, fatal, gLoadedModules, scan, gLoadedModulesCopy>>

(* CheckModulesByDependencies; its test for imports from the backend comes too
   late to find one (BackendNotImported), so it is part of the failure. *)
CheckPasses ==
    /\ pc = "check"
    /\ DepsFirst(gLoadedModules)
    /\ \A m \in Elements(gLoadedModules) : Backend \notin Required(m)
    /\ pc' = "done"
    /\ UNCHANGED <<desc, fatal, gLoadedModules, scan, gLoadedModulesCopy>>

CheckFails ==
    /\ pc = "check"
    /\ \/ ~DepsFirst(gLoadedModules)
       \/ \E m \in Elements(gLoadedModules) : Backend \in Required(m)
    /\ OSFatal("impossible")
    /\ UNCHANGED <<desc, gLoadedModules, scan, gLoadedModulesCopy>>

Next ==
    \/ SkipPlaced \/ RejectBackendImport \/ LeaveForLater \/ PlaceModule
    \/ NextPass \/ FailToResolve \/ ReturnOrder
    \/ MoveBackendLast \/ NoBackend \/ BaseMissing \/ NoReorder \/ StartReorder
    \/ CopyRegular \/ BaseToFront \/ BaseNotCopied \/ MoveRegular \/ EndReorder
    \/ CheckPasses \/ CheckFails

(* The loader runs on the one thread that starts the application, to its end. *)
Spec == Init /\ [][Next]_vars /\ WF_vars(Next)

-----------------------------------------------------------------------------
(* The variables hold what their C++ types and the loops allow. *)
TypeOK ==
    /\ DescInit
    /\ pc \in {"order", "backend", "base", "copy", "move", "check", "done", "fatal"}
    /\ fatal \in Reasons
    /\ fatal # "none" <=> pc = "fatal"
    /\ gLoadedModules \in Seq(Modules)
    /\ finalOrder \in Seq(Modules)
    /\ i \in Nat \ {0}
    /\ canBreak \in BOOLEAN
    /\ weDidSomething \in BOOLEAN
    /\ gLoadedModulesCopy \in Seq(Modules)

(* OrderModulesByDependencies puts a module in line once, only after every
   module it imports from, and never one that imports from the backend. *)
PlacedInOrder ==
    /\ DepsFirst(finalOrder)
    /\ Distinct(finalOrder)
    /\ \A m \in Placed : Backend \notin Required(m)

(* What the flags of a pass over the files know about the modules it has been
   past: canBreak that all of them are in line, weDidSomething = FALSE that those
   which are not are waiting for a name nobody in line exports, both FALSE that
   there is one. *)
PassFlags ==
    pc = "order" =>
        LET past == {gLoadedModules[k] : k \in 1..(i - 1)}
        IN /\ gLoadedModules = [k \in Modules |-> k]
           /\ i <= Len(gLoadedModules) + 1
           /\ canBreak => past \subseteq Placed
           /\ ~weDidSomething => \A m \in past \ Placed : ~Satisfied(m, Placed)
           /\ ~weDidSomething /\ ~canBreak => past \ Placed # {}

(* The ordering loop returns all the modules, each of them once. *)
AllPlaced ==
    pc \notin {"order", "fatal"} => Elements(finalOrder) = Modules

(* "Failed to resolve dependencies" is only reported when each module still
   waiting imports from one that waits too, or is not there. *)
UnresolvedIsStuck ==
    fatal = "unresolved" =>
        /\ Modules \ Placed # {}
        /\ \A m \in Modules \ Placed : ~Satisfied(m, Placed)

(* And then no list of all the modules has each one after its imports: the
   greedy passes miss no order. *)
UnresolvedMeansNoOrder ==
    fatal = "unresolved" =>
        \A p \in [Modules -> Modules] : Elements(p) = Modules => ~DepsFirst(p)

(* No module that imports from the plugin backend gets past the ordering, so the
   same test in CheckModulesByDependencies never fires. *)
BackendNotImported ==
    pc \notin {"order", "fatal"} => \A m \in Modules : Backend \notin Required(m)

Ordered == pc \in {"check", "done"}

(* The reordering neither loses a module nor doubles one, as the comment at entry.cpp:192 has it: "Move all modules which do
   not call init before RelocationDoneHook to the end". *)
ReorderKeepsAllAlways ==
    Ordered => Distinct(gLoadedModules) /\ Elements(gLoadedModules) = Modules

(* A plugin backend that is not initialised early is initialised last. *)
BackendAtEnd(m) ==
    desc[m].name = Backend /\ (\A n \in Modules \ {m} : desc[n].name # Backend) =>
        gLoadedModules[Len(gLoadedModules)] = m

(* The three moves neither lose a module nor double one, and none undoes another. With the
   base module loaded every early module comes before every regular one, a regular base
   module is the first regular one, and but for it and the backend the dependency order
   is kept within each group. A backend that is not initialised early comes last. *)
MovesKeepPlaces ==
    Ordered /\ NamesAgree =>
        /\ Distinct(gLoadedModules)
        /\ Elements(gLoadedModules) = Modules
        /\ aromaBaseModuleLoaded =>
              /\ EarlyFirst(gLoadedModules)
              /\ BaseLeads(gLoadedModules)
              /\ \A m, n \in Modules :
                    /\ Regular(m) = Regular(n)
                    /\ {desc[m].name, desc[n].name} \cap {Base, Backend} = {}
                    => (Precedes(gLoadedModules, m, n) <=> Precedes(finalOrder, m, n))
        /\ \A m \in Modules : Regular(m) \/ ~aromaBaseModuleLoaded => BackendAtEnd(m)

(* What the rest of the start relies on. *)
StartsInOrder == pc = "done" /\ NamesAgree => Admissible(gLoadedModules)

(* "Module order is impossible" is only reported when an early module, or the
   base module, imports from a regular one: the two moves break nothing else. *)
ImpossibleExplained ==
    fatal = "impossible" /\ NamesAgree =>
        /\ aromaBaseModuleLoaded
        /\ LET early == {m \in Modules : desc[m].early}
           IN \E m \in Modules : /\ desc[m].early \/ desc[m].name = Base
                                 /\ ~Satisfied(m, early)

(* The comment at entry.cpp:160: "Make sure aromaBaseModuleLoaded is loaded when
   WUMS_HOOK_APPLICATION_ENDS and WUMS_HOOK_FINI_WUT are called". *)
BaseLoadedForFiniWut ==
    pc = "done" =>
        \A m \in Modules :
            desc[m].hooks \cap {"APPLICATION_ENDS", "FINI_WUT_DEVOPTAB", "FINI_WUT_SOCKETS"} # {}
                => aromaBaseModuleLoaded

(* Every start that gets this far has an order or stops the console with a
   message: the passes do not go on for ever. *)
Termination == <>(pc \in {"done", "fatal"})

-----------------------------------------------------------------------------
(* The search is a way to do what LoadOrder describes. *)
orderStatus ==
    CASE pc = "order"                               -> "ordering"
      [] pc = "fatal" /\ fatal = "unresolved"       -> "unresolved"
      [] pc = "fatal" /\ fatal = "backend"          -> "rejected"
      [] OTHER                                      -> "ordered"

Abstract == INSTANCE LoadOrder WITH order <- finalOrder, status <- orderStatus

ImplementsLoadOrder == Abstract!Spec
=============================================================================
