---------------------------- MODULE MCElfSymbols ----------------------------
(* Names and hashes for checking ElfSymbols: b and c share a bucket of the one hash
   table; in the other a and c, and b and c differ only in the bit that is not compared.
   And files for checking ElfTables. The two share no state, so a behaviour is one of the
   one or of the other. *)
EXTENDS ElfSymbols, ElfTables

CONSTANTS a, b, c, none

MCNames == {a, b, c}
MCElfHash == (a :> 4) @@ (b :> 1) @@ (c :> 3)
MCGnuHash == (a :> 8) @@ (b :> 5) @@ (c :> 4)

D(tag, value) == [tag |-> tag, value |-> value]
N(type, name, namesz, descsz) ==
    [type |-> type, name |-> name, namesz |-> namesz, descsz |-> descsz]

MCFile ==
    [entries |-> <<D("NEEDED", 1), D("VERNEEDNUM", 2)>>, sized |-> TRUE, filed |-> TRUE,
     strings |-> <<"libc">>, notes |-> <<N(1, "GNU", 4, 6), N(3, "", 0, 4)>>, cut |-> 0,
     info |-> <<"f", EQ, "v", NUL, NUL, "v", EQ, EQ, NUL>>, versions |-> <<1, 2>>,
     chain |-> <<"GLIBC_1", "GLIBC_2">>]

(* A file without tables, files that are whole, and files that are not: a note that is cut
   off, a dynamic section without data or without the size of its entries, information
   that does not end. *)
MCTableFiles ==
    {[MCFile EXCEPT !.entries = << >>, !.strings = << >>, !.notes = << >>, !.info = << >>,
                    !.versions = << >>, !.chain = << >>],
     MCFile,
     [MCFile EXCEPT !.entries = <<D("SONAME", 9), D("SYMBOLIC", 5), D("NEEDED", 0),
                                  D("NULL", 3)>>,
                    !.notes = <<N(2, "", 1, 0)>>],
     [MCFile EXCEPT !.cut = 1],
     [MCFile EXCEPT !.filed = FALSE],
     [MCFile EXCEPT !.sized = FALSE],
     [MCFile EXCEPT !.info = <<"f", EQ, "v", NUL, "f">>]}

MCDynEntries == {D("NULL", 0), D("SYMBOLIC", 4), D("FLAGS", 8)}
MCNotes == {N(1, "GNU", 4, 5), N(2, "Core", 5, 0)}
MCAttributes == {<<<<"f">>, <<"v">>>>, <<<<"w">>, << >>>>}

MCInit == Init /\ TablesInit

MCNext ==
    \/ calls = 0 /\ Next /\ UNCHANGED tableVars
    \/ symbols = << >> /\ TablesNext /\ UNCHANGED vars

MCSpec == MCInit /\ [][MCNext]_<<vars, tableVars>> /\ WF_vars(Arranging)
=============================================================================
