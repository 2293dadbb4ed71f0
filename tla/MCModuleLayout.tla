--------------------------- MODULE MCModuleLayout ---------------------------
(* Section lists for checking ModuleLayout, with the address ranges scaled down. *)
EXTENDS ModuleLayout

MCTextBase   == 16
MCDataBase   == 64
MCImportBase == 128
MCHeapEnd    == 96
MCWord       == 256

S(kind, addr, size, wums) == [kind |-> kind, addr |-> addr, size |-> size, wums |-> wums]

(* Code at its base and behind other code, data with and without padding, a
   section that counts twice, .wut_load_bounds, addresses load refuses, and sizes with
   which the sums wrap: of the block, of the end of the section, and of what was placed. *)
MCSections ==
    {S("bits", 16, 8, FALSE), S("bits", 16, 4, FALSE), S("bits", 24, 4, FALSE),
     S("bits", 64, 8, FALSE), S("bits", 64, 4, TRUE), S("bits", 72, 4, FALSE),
     S("bits", 72, 8, TRUE), S("bits", 80, 4, FALSE), S("bits", 4, 4, FALSE),
     S("bits", 128, 4, FALSE), S("bits", 64, 0, FALSE), S("bounds", 80, 4, FALSE),
     S("import", 192, 8, FALSE), S("other", 0, 12, FALSE),
     S("bits", 72, 248, FALSE), S("bits", 72, 248, TRUE)}
=============================================================================
