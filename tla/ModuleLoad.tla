----------------------------- MODULE ModuleLoad -----------------------------
(***************************************************************************)
(* How the first start lists the module directory and loads its files, one *)
(* after the other: LoadFileToMem, ModuleDataFactory::load and the loop around   *)
(* them. ModuleMeta holds the reading of the metadata, DirList the listing. Where the sections  *)
(* go is ModuleLayout's subject and what a linked word holds is ElfLink's; *)
(* here they are the outcome of a file and the set of words linked.        *)
(*                                                                         *)
(* Two heaps matter. The file is read into a buffer of the default heap,   *)
(* which is the application's; the loader's own allocations, free()        *)
(* included, are those of its own heap.                                    *)
(***************************************************************************)
EXTENDS ModuleMeta, DirList

CONSTANTS
    Directories,    \* the trees that the folder of the modules may be
    modules,        \* that folder
    Rpls,           \* the RPLs that modules import from
    Half            \* the symbol counter counts modulo this; 2^16

(* What becomes of a file: there is none, there is no room for it in the default heap,
   it is not read to its end; it is no ELF object; its sections are for addresses that
   are not supported, or do not fit the block. *)
Contents == {"missing", "large", "short", "garbage", "misplaced", "overflow", "module"}

(* A relocation. placed: it is for a section that is placed in the block, unlike debug
   sections. symbol: "local"; "import", of an import section of an RPL; "stray", with the
   address of an import but of no import section; "low", which linkSection does not
   link but the search for imports passes over; "bad", not in the symbol table. *)
Relocation == [placed : BOOLEAN, symbol : {"local", "import", "stray", "low", "bad"},
               rpl : Rpls]

(* hidden: the name starts with '.' or '_'. meta: the section .wums.meta. symbols: the
   size of the symbol table. clash: its sh_info is also the index of a section that is
   placed. names: what .wums.dependencies holds. *)
File == [hidden : BOOLEAN, content : Contents, meta : Seq(Seq(STRING) \ {<< >>}),
         relocs : Seq(Relocation), symbols : Nat, clash : BOOLEAN, names : SUBSET Rpls]

ASSUME DirectoriesAssumption ==
    \A tree \in Directories :
        /\ modules \in DOMAIN tree /\ IsTree(tree)
        /\ \A folder \in DOMAIN tree : \A entry \in Range(tree[folder]) :
               isDir(entry) \/ (entry.file \in File /\ ~entry.dots)
ASSUME HalfAssumption == Half \in Nat \ {0}

VARIABLES
    tree,           \* the folder of the modules, and those in it
    files,          \* the list of its files
    f,              \* the file that is loaded
    pc,
    buffers,        \* the blocks of the default heap: the files they are for
    position,       \* in the relocations or in the symbols of the file
    linked,         \* the relocations whose words have been linked
    imports,        \* the relocations to do at each start
    dependencies,   \* of the module
    gLoadedModules

vars == <<tree, files, f, pc, buffers, position, linked, imports, dependencies, gLoadedModules,
          metaVars>>
sections == <<linked, imports, dependencies>>

Phases == {"list", "file", "read", "elf", "meta", "link", "imports", "lists", "symbols", "loaded",
           "failed", "done", "fatal"}

Init ==
    /\ tree \in Directories
    /\ files = << >>
    /\ f = 1
    /\ pc = "list"
    /\ buffers = {}
    /\ position = 0
    /\ linked = {}
    /\ imports = << >>
    /\ dependencies = {}
    /\ gLoadedModules = << >>
    /\ MetaInit

cur == files[f].file
reloc == cur.relocs[position]

(* A step within one file that leaves its metadata alone, and the heap. *)
Stay == UNCHANGED <<tree, files, f, buffers, gLoadedModules, metaVars>>

-----------------------------------------------------------------------------
(* The loop over the directory. *)

ListFiles ==
    /\ pc = "list"
    /\ files' = LoadPath(tree, modules, {".wms"}, {"Files"}, 1)
    /\ pc' = "file"
    /\ UNCHANGED <<tree, f, buffers, position, sections, gLoadedModules, metaVars>>

NextFile == f' = f + 1 /\ pc' = "file" /\ UNCHANGED <<position, sections>>

SkipFile ==
    /\ pc = "file"
    /\ f <= Len(files)
    /\ cur.hidden
    /\ NextFile
    /\ UNCHANGED <<tree, files, buffers, gLoadedModules, metaVars>>

(* A new ModuleData, with nothing in it. *)
OpenFile ==
    /\ pc = "file"
    /\ f <= Len(files)
    /\ ~cur.hidden
    /\ pc' = "read"
    /\ linked' = {}
    /\ imports' = << >>
    /\ dependencies' = {}
    /\ UNCHANGED position
    /\ Stay

EndOfDirectory ==
    /\ pc = "file"
    /\ f > Len(files)
    /\ pc' = "done"
    /\ UNCHANGED <<position, sections>>
    /\ Stay

-----------------------------------------------------------------------------
(* LoadFileToMem *)

NoBuffer ==
    /\ pc = "read"
    /\ cur.content \in {"missing", "large"}
    /\ pc' = "failed"
    /\ UNCHANGED <<position, sections>>
    /\ Stay

(* The buffer is passed to free(), which gives it to the loader's heap: the default
   heap does not get it back. *)
ReadShort ==
    /\ pc = "read"
    /\ cur.content = "short"
    /\ buffers' = buffers \cup {f}
    /\ pc' = "failed"
    /\ UNCHANGED <<tree, files, f, position, sections, gLoadedModules, metaVars>>

ReadFile ==
    /\ pc = "read"
    /\ cur.content \notin {"missing", "large", "short"}
    /\ buffers' = buffers \cup {f}
    /\ pc' = "elf"
    /\ UNCHANGED <<tree, files, f, position, sections, gLoadedModules, metaVars>>

-----------------------------------------------------------------------------
(* ModuleDataFactory::load. Each return from here on runs cleanupBuffer. *)

(* Mutant: the return leaves the buffer where it is. *)
GiveUpOnly ==
    /\ pc' = "failed"
    /\ UNCHANGED <<position, sections>>
    /\ Stay

GiveUp ==
    /\ buffers' = buffers \ {f}
    /\ pc' = "failed"
    /\ UNCHANGED <<tree, files, f, position, sections, gLoadedModules, metaVars>>

NoElf == pc = "elf" /\ cur.content = "garbage" /\ GiveUp

LoadElf ==
    /\ pc = "elf"
    /\ cur.content # "garbage"
    /\ StartMeta(cur.meta)
    /\ pc' = "meta"
    /\ UNCHANGED <<tree, files, f, buffers, position, sections, gLoadedModules>>

ReadMetadata ==
    /\ pc = "meta"
    /\ ReadMeta
    /\ UNCHANGED <<tree, files, f, pc, buffers, position, sections, gLoadedModules>>

Ignore == pc = "meta" /\ verdict = "ignored" /\ GiveUp

Misplaced == pc = "meta" /\ verdict = "accepted" /\ cur.content = "misplaced" /\ GiveUp

Overflow ==
    /\ pc = "meta"
    /\ verdict = "accepted"
    /\ cur.content = "overflow"
    /\ pc' = "fatal"
    /\ UNCHANGED <<position, sections>>
    /\ Stay

PlaceSections ==
    /\ pc = "meta"
    /\ verdict = "accepted"
    /\ cur.content = "module"
    /\ position' = 1
    /\ pc' = "link"
    /\ UNCHANGED sections
    /\ Stay

-----------------------------------------------------------------------------
(* linkSection, for each section that was placed *)

Linking == pc = "link" /\ position <= Len(cur.relocs)

LinkLocal ==
    /\ Linking
    /\ reloc.placed
    /\ reloc.symbol = "local"
    /\ linked' = linked \cup {position}
    /\ position' = position + 1
    /\ UNCHANGED <<pc, imports, dependencies>>
    /\ Stay

(* "Skip imports" *)
LeaveImport ==
    /\ Linking
    /\ ~reloc.placed \/ reloc.symbol \in {"import", "stray"}
    /\ position' = position + 1
    /\ UNCHANGED <<pc, sections>>
    /\ Stay

(* Any section whose sh_info is the index of the section is taken for its relocations. If
   it is the symbol table, its entries are read as symbol 0 of the string table, which
   has no symbols. *)
Clashes(file) == file.clash /\ file.symbols > 0

LinkFails ==
    /\ pc = "link"
    /\ \/ Linking /\ reloc.placed /\ reloc.symbol \in {"low", "bad"}
       \/ ~Linking /\ Clashes(cur)
    /\ GiveUp

LinkedAll ==
    /\ pc = "link"
    /\ ~Linking
    /\ ~Clashes(cur)
    /\ position' = 1
    /\ pc' = "imports"
    /\ UNCHANGED sections
    /\ Stay

-----------------------------------------------------------------------------
(* getImportRelocationData, for all relocations of the file *)

Searching == pc = "imports" /\ position <= Len(cur.relocs)

PassOver ==
    /\ Searching
    /\ reloc.symbol \in {"local", "low"}
    /\ position' = position + 1
    /\ UNCHANGED <<pc, sections>>
    /\ Stay

(* Mutant: addRelocationData does not add the dependency. *)
AddImportOnly ==
    /\ Searching
    /\ reloc.symbol = "import"
    /\ imports' = Append(imports, position)
    /\ position' = position + 1
    /\ UNCHANGED <<pc, linked, dependencies>>
    /\ Stay

AddImport ==
    /\ Searching
    /\ reloc.symbol = "import"
    /\ imports' = Append(imports, position)
    /\ dependencies' = dependencies \cup {reloc.rpl}
    /\ position' = position + 1
    /\ UNCHANGED <<pc, linked>>
    /\ Stay

(* "Relocation is referencing a unknown section." *)
UnknownSection ==
    /\ Searching
    /\ reloc.symbol = "stray"
    /\ pc' = "fatal"
    /\ UNCHANGED <<position, sections>>
    /\ Stay

(* It returns false and the imports behind are lost: load ignores the result. *)
SearchFails ==
    /\ Searching
    /\ reloc.symbol = "bad"
    /\ pc' = "lists"
    /\ UNCHANGED <<position, sections>>
    /\ Stay

SearchedAll ==
    /\ pc = "imports"
    /\ ~Searching
    /\ pc' = "lists"
    /\ UNCHANGED <<position, sections>>
    /\ Stay

-----------------------------------------------------------------------------
(* The exports, the dependencies, the hooks and the symbols *)

ReadLists ==
    /\ pc = "lists"
    /\ dependencies' = dependencies \cup cur.names
    /\ position' = 0
    /\ pc' = "symbols"
    /\ UNCHANGED <<linked, imports>>
    /\ Stay

(* Mutant: the symbol behind the last is read. *)
ReadSymbolBehind ==
    /\ pc = "symbols"
    /\ position <= cur.symbols
    /\ position' = (position + 1) % Half
    /\ UNCHANGED <<pc, sections>>
    /\ Stay

ReadSymbol ==
    /\ pc = "symbols"
    /\ position < cur.symbols
    /\ position' = (position + 1) % Half
    /\ UNCHANGED <<pc, sections>>
    /\ Stay

Loaded ==
    /\ pc = "symbols"
    /\ position >= cur.symbols
    /\ buffers' = buffers \ {f}
    /\ pc' = "loaded"
    /\ UNCHANGED <<tree, files, f, position, sections, gLoadedModules, metaVars>>

-----------------------------------------------------------------------------
(* Back in the loop *)

KeepModule ==
    /\ pc = "loaded"
    /\ gLoadedModules' = Append(gLoadedModules, [file |-> f, fields |-> fields,
           linked |-> linked, imports |-> imports, dependencies |-> dependencies])
    /\ NextFile
    /\ UNCHANGED <<tree, files, buffers, metaVars>>

(* Mutant: a file that fails ends the loop. *)
StopAtFailure ==
    /\ pc = "failed"
    /\ pc' = "done"
    /\ UNCHANGED <<position, sections>>
    /\ Stay

FailToLoad ==
    /\ pc = "failed"
    /\ NextFile
    /\ UNCHANGED <<tree, files, buffers, gLoadedModules, metaVars>>

Next ==
    \/ ListFiles \/ SkipFile \/ OpenFile \/ EndOfDirectory
    \/ NoBuffer \/ ReadShort \/ ReadFile \/ NoElf \/ LoadElf
    \/ ReadMetadata \/ Ignore \/ Misplaced \/ Overflow \/ PlaceSections
    \/ LinkLocal \/ LeaveImport \/ LinkFails \/ LinkedAll
    \/ PassOver \/ AddImport \/ UnknownSection \/ SearchFails \/ SearchedAll
    \/ ReadLists \/ ReadSymbol \/ Loaded
    \/ KeepModule \/ FailToLoad

(* The loader is one thread that nothing interrupts. *)
Spec == Init /\ [][Next]_vars /\ WF_vars(Next)

-----------------------------------------------------------------------------
(* The files that are modules, going by nothing but themselves. *)
Linkable(file) ==
    /\ ~Clashes(file)
    /\ \A j \in DOMAIN file.relocs :
           file.relocs[j].placed => file.relocs[j].symbol \notin {"low", "bad"}

Good(file) ==
    ~file.hidden /\ file.content = "module" /\ VersionsFit(file.meta) /\ Linkable(file)

(* A listing has what the flags, the filter and the depth ask for, and in order: not only
   for those the loader gives. *)
ListsWhatIsAsked ==
    pc = "list" =>
        \A flags \in SUBSET AllFlags, filter \in {{}, {".wms"}}, depth \in 0..2 :
            AsAsked(tree, modules, filter, flags, depth)

(* Between two files the default heap holds no buffer, whatever became of the files,
   unless one could not be read to its end. *)
HeapLeftClean ==
    pc \in {"file", "done"} =>
        buffers = {j \in 1..(f - 1) : ~files[j].file.hidden /\ files[j].file.content = "short"}

(* The comment at cleanupBuffer, that games expect the default heap to be empty: it is
   again after each file. *)
HeapLeftEmpty == pc \in {"file", "done"} => buffers = {}

(* What is loaded depends on each file alone: the good ones that lie in the folder itself,
   with the extension of modules, in the order of their names; a file that fails costs
   only itself. A version in one line does not make up for an unsupported one in another.
   If a value holds an '=', what it says of versions counts as well. *)
LoadsTheGood ==
    LET entries == {entry \in Range(tree[modules]) : ~isDir(entry) /\ entry.ext = ".wms"}
        Entry(j) == files[gLoadedModules[j].file]
        loaded == {Entry(j) : j \in DOMAIN gLoadedModules}
    IN pc = "done" =>
        /\ loaded \subseteq entries
        /\ \A entry \in entries :
               Plain(entry.file.meta) => (entry \in loaded <=> Good(entry.file))
        /\ \A entry \in loaded : \A l \in LinesOf(entry.file.meta, VersionKeys) :
               Supported(Tail(entry.file.meta[l]))
        /\ \A j, l \in DOMAIN gLoadedModules : j < l => Entry(j).path < Entry(l).path

(* The fields of a module have the values its last lines give them, although each value
   is looked at a second time, as a string; if no value holds an '='. And nothing stays
   from the file before. *)
FieldsAsWritten ==
    \A m \in DOMAIN gLoadedModules :
        LET meta == files[gLoadedModules[m].file].file.meta
            True(k) == Says(meta, k, <<"false">>) = <<"true">>
        IN Plain(meta) =>
               gLoadedModules[m].fields =
                   <<Says(meta, "export_name", << >>), True("skipInitFini"),
                     True("initBeforeRelocationDoneHook")>>

(* A loaded module has each relocation of its sections linked, or kept for the starts
   and then its RPL among the dependencies that order the modules; although two passes
   with rules of their own go over the relocations and a failure of the second is
   ignored. Only a symbol that is missing from the symbol table, in a section that was
   not placed, takes the imports behind it away. *)
EveryRelocationOnce ==
    \A m \in DOMAIN gLoadedModules :
        LET module == gLoadedModules[m]
            rs == files[module.file].file.relocs
            Of(symbol) == {j \in DOMAIN rs : rs[j].symbol = symbol}
            placed == {j \in DOMAIN rs : rs[j].placed}
            reached == {j \in DOMAIN rs : \A l \in Of("bad") : j < l}
            kept == {module.imports[j] : j \in DOMAIN module.imports}
        IN /\ module.linked = placed \cap Of("local")
           /\ kept = Of("import") \cap reached
           /\ placed \cap reached \subseteq module.linked \cup kept
           /\ \A j, l \in DOMAIN module.imports :
                  j < l => module.imports[j] < module.imports[l]
           /\ {rs[j].rpl : j \in kept} \subseteq module.dependencies

(* Loading ends, if no module has more symbols than the counter can count. *)
LoadEnds ==
    (\A entry \in Range(tree[modules]) : isDir(entry) \/ entry.file.symbols < Half)
        => <>(pc \in {"done", "fatal"})
=============================================================================
