--------------------------- MODULE MCModuleOrder ----------------------------
(* Descriptors for checking ModuleOrder on every list of a few modules. *)
EXTENDS ModuleOrder

M(name, deps, early, hooks) == [name |-> name, deps |-> deps, early |-> early, hooks |-> hooks]

A == "homebrew_a"
Z == "homebrew_z"

MCHomebrew      == {Base, Backend, A, Z}
MCBeforeBackend == {Base, A}

(* Early and regular modules, chains, a cycle between A and Z, a base module
   that is early or that imports, two modules of one name, and imports from the
   backend listed after and before a name that may be missing. *)
MCCatalog ==
    {M(Base, {}, FALSE, {}), M(Base, {}, TRUE, {}), M(Base, {A}, FALSE, {}),
     M(A, {}, FALSE, {}), M(A, {"coreinit"}, TRUE, {}), M(A, {Z}, FALSE, {}),
     M(Z, {Base}, FALSE, {"APPLICATION_ENDS"}), M(Z, {A}, TRUE, {}),
     M(Z, {A}, FALSE, {"FINI_WUT_SOCKETS"}), M(Z, {}, FALSE, {"FINI_WUT_DEVOPTAB"}),
     M(Backend, {}, FALSE, {}), M(Backend, {Base}, TRUE, {}),
     M("homebrew_c", {A, Backend}, FALSE, {}), M("homebrew_c", {Backend, Z}, FALSE, {})}

(* The descriptors that matter once the order is known, for longer lists. *)
MCReorderCatalog ==
    {M(Base, {}, FALSE, {}), M(Base, {}, TRUE, {}), M(A, {}, FALSE, {}), M(A, {}, TRUE, {}),
     M(Z, {A}, FALSE, {}), M(Z, {A}, TRUE, {}), M(Backend, {Base}, FALSE, {}),
     M(Backend, {}, TRUE, {})}

MCDescriptors == MCCatalog \cup MCReorderCatalog

(* Every list of up to three of all descriptors, and of four of those. *)
MCInit == Init /\ (Len(desc) = 4 => Elements(desc) \subseteq MCReorderCatalog)

MCSpec == MCInit /\ [][Next]_vars /\ WF_vars(Next)
=============================================================================
