----------------------------- MODULE MCElfLink -----------------------------
(* ElfLink with half words of five bits, and branches that reach 60 and 12. *)
EXTENDS ElfLink

E(type, target, addend, import) ==
    [type |-> type, target |-> target, addend |-> addend, import |-> import]

MCTargets == {512, 516}
MCSlotAt == <<560, 900>>        \* the second is out of reach

(* At the end of reach of each branch and beyond it, before and behind the
   targets, not aligned, and the last word of memory. *)
MCSymbols == {528, 452, 448, 518, 1020}

MCWords == {725, 1023}
MCCtrWords == {132, 1023}       \* with CtrBit set

MCCatalog ==
    {E("NONE", 512, 0, FALSE), E("DTPMOD32", 512, 0, TRUE), E("OTHER", 516, 0, TRUE),
     E("ADDR32", 512, 0, FALSE), E("ADDR32", 516, -8, TRUE), E("DTPREL32", 516, 8, TRUE),
     E("ADDR16_HA", 512, 0, FALSE), E("ADDR16_LO", 516, 0, FALSE),
     E("ADDR16_HA", 512, 6, TRUE), E("ADDR16_LO", 516, 6, TRUE), E("ADDR16_HI", 514, 6, TRUE),
     E("REL16_HA", 512, 0, TRUE), E("REL16_LO", 516, 4, TRUE), E("REL16_HI", 514, 0, FALSE),
     E("REL14", 512, 0, FALSE), E("REL14", 516, 0, TRUE), E("REL14", 516, -4, FALSE),
     E("REL24", 512, 0, FALSE), E("REL24", 516, 0, FALSE), E("REL24", 516, 2, FALSE),
     E("REL24", 512, 0, TRUE), E("REL24", 516, 0, TRUE), E("REL24", 516, -4, TRUE)}

(* The branches only. *)
MCBranches == {e \in MCCatalog : e.type \in {"REL14", "REL24"}}
=============================================================================
