----------------------------- MODULE LoadOrder ------------------------------
(***************************************************************************)
(* What OrderModulesByDependencies promises, without saying how it searches: *)
(* modules are put in line one at a time, each only when what it imports is *)
(* already in line; the search ends when all of them are, and fails only    *)
(* when none of the others can be, or one of them imports the backend.      *)
(***************************************************************************)
EXTENDS ModuleDeps

VARIABLES
    order,      \* the modules in line, in order
    status      \* "ordering", "ordered", "unresolved" or "rejected"

vars == <<desc, order, status>>

Waiting == Modules \ Elements(order)

Init ==
    /\ DescInit
    /\ order = << >>
    /\ status = "ordering"

Place(m) ==
    /\ status = "ordering"
    /\ m \in Waiting
    /\ Satisfied(m, Elements(order))
    /\ Backend \notin Required(m)
    /\ order' = Append(order, m)
    /\ UNCHANGED <<desc, status>>

Finish ==
    /\ status = "ordering"
    /\ Waiting = {}
    /\ status' = "ordered"
    /\ UNCHANGED <<desc, order>>

GiveUp ==
    /\ status = "ordering"
    /\ Waiting # {}
    /\ \A m \in Waiting : ~Satisfied(m, Elements(order))
    /\ status' = "unresolved"
    /\ UNCHANGED <<desc, order>>

Reject ==
    /\ status = "ordering"
    /\ \E m \in Waiting : Backend \in Required(m)
    /\ status' = "rejected"
    /\ UNCHANGED <<desc, order>>

Next == (\E m \in Modules : Place(m)) \/ Finish \/ GiveUp \/ Reject

Spec == Init /\ [][Next]_vars /\ WF_vars(Next)
=============================================================================
