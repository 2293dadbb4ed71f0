---------------------------- MODULE MCLifecycle -----------------------------
(* Modules and RPLs for checking Lifecycle over any number of applications, from the setup
   payload on, and ELFs and paths for that. *)
EXTENDS Lifecycle, Setup

M(name, deps, early, hooks) == [name |-> name, deps |-> deps, early |-> early, hooks |-> hooks]

A == "homebrew_a"

MCHomebrew      == {Base, Backend, A}
MCBeforeBackend == {Base, A}
MCRpls          == {"nsysnet", "sysapp"}

(* A base module, an early module with an allocator of its own, a regular
   module that shares an RPL with it, and one that imports from that module and
   shares an RPL with the base module. *)
MCCatalog ==
    {M(Base, {"sysapp"}, FALSE, {"INIT"}),
     M("homebrew_memory", {"nsysnet"}, TRUE,
       {"INIT", "GET_CUSTOM_RPL_ALLOCATOR", "CLEAR_ALLOCATED_RPL_MEMORY", "RELOCATIONS_DONE"}),
     M(A, {"nsysnet"}, FALSE, {"INIT", "APPLICATION_STARTS", "INIT_WUT_SOCKETS"}),
     M("homebrew_b", {A, "sysapp"}, FALSE, {"INIT", "INIT_WUT_DEVOPTAB",
                                            "ALL_APPLICATION_STARTS_DONE"})}

-----------------------------------------------------------------------------
Seg(type, paddr, offset, filesz, memsz) ==
    [type |-> type, paddr |-> paddr, offset |-> offset, filesz |-> filesz, memsz |-> memsz]
Sec(addr, size, offset, nobits, bss) ==
    [addr |-> addr, size |-> size, offset |-> offset, nobits |-> nobits, bss |-> bss]

(* .text, .data and .bss, in one segment, or in two and a note; .bss in a segment of its
   own; and .sbss before .bss, up to the end of the loader's place. *)
MCImage ==
    [entry |-> 0, segments |-> <<Seg("PT_LOAD", 0, 10, 4, 6)>>,
     sections |-> <<Sec(0, 2, 10, FALSE, FALSE), Sec(2, 2, 12, FALSE, FALSE),
                    Sec(4, 2, 14, TRUE, TRUE)>>]

MCImages ==
    {MCImage,
     [MCImage EXCEPT !.segments = <<Seg("PT_LOAD", 0, 10, 2, 2), Seg("PT_NOTE", 0, 20, 2, 2),
                                    Seg("PT_LOAD", 2, 12, 2, 4)>>],
     [MCImage EXCEPT !.segments = <<Seg("PT_LOAD", 4, 14, 0, 2), Seg("PT_LOAD", 0, 10, 4, 4)>>],
     [MCImage EXCEPT !.sections = @ \o <<Sec(6, 2, 14, TRUE, TRUE)>>, !.entry = 1]}

MCInit == Init /\ SetupInit

(* The first start is the payload's call. What it leaves is the same for all ELFs, so that
   one of them, and one path, do for what comes behind. *)
MCNext ==
    \/ SetupNext /\ UNCHANGED vars
    \/ step = "called" /\ elf = MCImage /\ path_length = 0 /\ Next /\ UNCHANGED setupVars

MCSpec ==
    MCInit /\ [][MCNext]_<<vars, setupVars>> /\ WF_vars(LoaderStep) /\ WF_vars(ExitStep)
=============================================================================
