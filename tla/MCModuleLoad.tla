---------------------------- MODULE MCModuleLoad ----------------------------
(* Directories for checking ModuleLoad. *)
EXTENDS ModuleLoad

CONSTANTS a, b, old, older, empty

MCRpls == {a, b}
MCVersions == {"0.3.4"}

File1 == [hidden |-> FALSE, content |-> "module", meta |-> <<<<"wums", "0.3.4">>>>,
          relocs |-> << >>, symbols |-> 1, clash |-> FALSE, names |-> {b}]
R(placed, symbol) == [placed |-> placed, symbol |-> symbol, rpl |-> a]

Lists(S, n) == UNION {[1..k -> S] : k \in 0..n}

(* Every key, versions that are supported and not, values that are keys and values
   that hold an '=', strings without one. *)
MCLines ==
    {<<"wums", "0.3.4">>, <<"wums", "0.2">>, <<"wum", "0.3.4">>,
     <<"export_name", "a">>, <<"export_name", "skipInitFini">>,
     <<"skipInitFini", "true">>, <<"skipInitFini", "no">>, <<"skipInitFini", "wums">>,
     <<"initBeforeRelocationDoneHook", "true">>, <<"initBeforeRelocationDoneHook", "no">>,
     <<"author", "wums", "0.3.4">>, <<"author", "wums", "0.2">>,
     <<"description", "export_name", "b", "c">>, <<"wums", "0.3.4", "x">>, <<"true">>}

MCRelocations ==
    {R(placed, symbol) : placed \in BOOLEAN,
                         symbol \in {"local", "import", "stray", "low", "bad"}}

(* Symbol tables of every size up to one more than the counter counts. *)
MCFiles ==
    {[File1 EXCEPT !.relocs = rs] : rs \in Lists(MCRelocations, 1)}
    \cup {[File1 EXCEPT !.relocs = <<R(TRUE, "import"), R(FALSE, "bad"), R(TRUE, "import")>>],
          [File1 EXCEPT !.relocs = <<R(TRUE, "local"), R(TRUE, "local"), R(TRUE, "import")>>],
          [File1 EXCEPT !.hidden = TRUE]}
    \cup {[File1 EXCEPT !.symbols = n] : n \in 0..(Half + 1)}
    \cup {[File1 EXCEPT !.clash = TRUE, !.symbols = n] : n \in {0, 2}}
    \cup {[File1 EXCEPT !.content = c] : c \in Contents}
    \cup {[File1 EXCEPT !.meta = meta] : meta \in
              {<< >>, <<<<"wums", "0.2">>>>,
               <<<<"export_name", "a">>, <<"skipInitFini", "true">>,
                 <<"initBeforeRelocationDoneHook", "true">>, <<"wums", "0.3.4">>>>}}

(* In no order of their names. *)
MCEntry(k, file) == [path |-> 9 - k, ext |-> ".wms", dots |-> FALSE, folder |-> NoFolder, file |-> file]
MCFolder(path, ext, dots, x) == [path |-> path, ext |-> ext, dots |-> dots, folder |-> x, file |-> File1]

MCFolderOf(list) == (modules :> [k \in DOMAIN list |-> MCEntry(k, list[k])])

(* A folder with "." and other extensions, among folders that hold modules, one of them
   with the extension of modules. *)
MCTrees ==
    {(modules :> <<MCFolder(0, "", TRUE, modules)>> \o p)
     @@ (old :> <<MCFolder(10, "", TRUE, old), MCEntry(4, File1), MCFolder(6, ".wms", FALSE, older)>>)
     @@ (older :> <<MCEntry(2, File1)>>) @@ (empty :> << >>) :
        p \in {<<MCEntry(1, File1), MCFolder(4, ".wms", FALSE, old), [MCEntry(6, File1) EXCEPT !.ext = ".rpx"]>>,
               <<MCFolder(4, "", FALSE, old), [MCEntry(6, File1) EXCEPT !.ext = ""], MCEntry(1, File1),
                 MCFolder(1, "", FALSE, empty)>>}}

(* One file with any metadata or any relocations, or up to two files, or a tree. *)
MCDirectories ==
    MCTrees
    \cup {MCFolderOf(list) : list \in
              {<<[File1 EXCEPT !.meta = meta]>> : meta \in Lists(MCLines, 3)}
              \cup {<<[File1 EXCEPT !.relocs = rs]>> : rs \in Lists(MCRelocations, 3)}
              \cup Lists(MCFiles, 2)}
=============================================================================
