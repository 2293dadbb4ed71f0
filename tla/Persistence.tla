----------------------------- MODULE Persistence ----------------------------
(***************************************************************************)
(* ModuleDataPersistence::saveModuleData: the tables that describe the     *)
(* loaded modules to the modules. The relocations of a module refer to a   *)
(* second table, with one row for each import section they name; its size  *)
(* is counted before the table is filled. Hooks, exports and symbols are   *)
(* copied one by one and refer to nothing: they are numbers here.          *)
(***************************************************************************)
EXTENDS Integers, Sequences, FiniteSets

CONSTANTS
    Sections,       \* the names of import sections, ".fimport_..." or ".dimport_..."
    DataSections,   \* those that start with ".dimport_"
    MaxModules,     \* bound: at most this many modules
    MaxImports,     \* bound: at most this many relocations in a module
    MaxEntries      \* bound: at most this many hooks, exports or symbols in one

ASSUME SectionsAssumption == IsFiniteSet(Sections) /\ DataSections \subseteq Sections
ASSUME BoundsAssumption == {MaxModules, MaxImports, MaxEntries} \subseteq Nat

(* imports: the import section of each relocation. *)
Module == [imports : UNION {[1..n -> Sections] : n \in 0..MaxImports},
           hooks : 0..MaxEntries, exports : 0..MaxEntries, symbols : 0..MaxEntries]

VARIABLES
    moduleList,
    pc,             \* "module", "fill", "hooks", "exports", "symbols", "done" or "fatal"
    fatal,          \* why OSFatal was called: "none", "memory" or "entries"
    relocation_data,    \* for each relocation written, the row of its importEntry
    rpl_data,           \* the rows written
    rplInfoTotalCount,
    rplInfoMap,         \* the row of each name that has one
    module_data,        \* the description of the module that is worked on
    modules             \* the descriptions that are complete

vars == <<moduleList, pc, fatal, relocation_data, rpl_data, rplInfoTotalCount, rplInfoMap,
          module_data, modules>>
relocations == <<relocation_data, rpl_data, rplInfoTotalCount, rplInfoMap>>

ModuleListInit == \E n \in 0..MaxModules : moduleList \in [1..n -> Module]

Init ==
    /\ ModuleListInit
    /\ pc = "module"
    /\ fatal = "none"
    /\ relocation_data = << >>
    /\ rpl_data = << >>
    /\ rplInfoTotalCount = 0
    /\ rplInfoMap = << >>
    /\ module_data = [hooks |-> 0, exports |-> 0]
    /\ modules = << >>

(* The modules are described in turn. *)
i == Len(modules) + 1
module == moduleList[i]
RangeOf(s) == {s[k] : k \in DOMAIN s}

OSFatal(reason) ==
    /\ pc' = "fatal"
    /\ fatal' = reason
    /\ UNCHANGED <<moduleList, relocations, module_data, modules>>

(* The tables, the set and the map are allocated, and the allocator stops the console
   when the heap is full: the code for null pointers is never used. *)
OutOfMemory ==
    /\ pc \notin {"done", "fatal"}
    /\ OSFatal("memory")

-----------------------------------------------------------------------------
(* saveRelocationDataForModule *)

(* Mutant: the last relocation is not counted. *)
CountAllButLast ==
    /\ pc = "module"
    /\ i <= Len(moduleList)
    /\ rplInfoTotalCount' = Cardinality({module.imports[k] : k \in 1..(Len(module.imports) - 1)})
    /\ relocation_data' = << >>
    /\ rpl_data' = << >>
    /\ rplInfoMap' = << >>
    /\ module_data' = [hooks |-> 0, exports |-> 0]
    /\ pc' = "fill"
    /\ UNCHANGED <<moduleList, fatal, modules>>

(* Mutant: the map of the module before is used on. *)
CountKeepsMap ==
    /\ pc = "module"
    /\ i <= Len(moduleList)
    /\ rplInfoTotalCount' = Cardinality(RangeOf(module.imports))
    /\ relocation_data' = << >>
    /\ rpl_data' = << >>
    /\ module_data' = [hooks |-> 0, exports |-> 0]
    /\ pc' = "fill"
    /\ UNCHANGED <<moduleList, fatal, rplInfoMap, modules>>

CountSections ==
    /\ pc = "module"
    /\ i <= Len(moduleList)
    /\ rplInfoTotalCount' = Cardinality(RangeOf(module.imports))
    /\ relocation_data' = << >>
    /\ rpl_data' = << >>
    /\ rplInfoMap' = << >>
    /\ module_data' = [hooks |-> 0, exports |-> 0]
    /\ pc' = "fill"
    /\ UNCHANGED <<moduleList, fatal, modules>>

Filling == pc = "fill" /\ Len(relocation_data) < Len(module.imports)
name == module.imports[Len(relocation_data) + 1]

UseRow ==
    /\ Filling
    /\ name \in DOMAIN rplInfoMap
    /\ relocation_data' = Append(relocation_data, rplInfoMap[name])
    /\ UNCHANGED <<moduleList, pc, fatal, rpl_data, rplInfoTotalCount, rplInfoMap,
                   module_data, modules>>

AddRow ==
    /\ Filling
    /\ name \notin DOMAIN rplInfoMap
    /\ IF Len(rpl_data) >= rplInfoTotalCount
       THEN OSFatal("entries")
       ELSE /\ rpl_data' = Append(rpl_data, [importName |-> name, isData |-> name \in DataSections])
            /\ rplInfoMap' = [n \in DOMAIN rplInfoMap \cup {name} |->
                                 IF n = name THEN Len(rpl_data) + 1 ELSE rplInfoMap[n]]
            /\ relocation_data' = Append(relocation_data, Len(rpl_data) + 1)
            /\ UNCHANGED <<moduleList, pc, fatal, rplInfoTotalCount, module_data, modules>>

SavedRelocations ==
    /\ pc = "fill"
    /\ ~Filling
    /\ pc' = "hooks"
    /\ UNCHANGED <<moduleList, fatal, relocations, module_data, modules>>

-----------------------------------------------------------------------------
SaveHooks ==
    /\ pc = "hooks"
    /\ module_data' = [module_data EXCEPT !.hooks = module.hooks]
    /\ pc' = "exports"
    /\ UNCHANGED <<moduleList, fatal, relocations, modules>>

SaveExports ==
    /\ pc = "exports"
    /\ module_data' = [module_data EXCEPT !.exports = module.exports]
    /\ pc' = "symbols"
    /\ UNCHANGED <<moduleList, fatal, relocations, modules>>

(* The last table; number_modules counts the module. *)
SaveSymbols ==
    /\ pc = "symbols"
    /\ modules' = Append(modules,
           [imports |-> relocation_data, rows |-> rpl_data, hooks |-> module_data.hooks,
            exports |-> module_data.exports, symbols |-> module.symbols])
    /\ pc' = "module"
    /\ UNCHANGED <<moduleList, fatal, relocations, module_data>>

(* gModuleDataInfo takes the descriptions over. *)
Publish ==
    /\ pc = "module"
    /\ i > Len(moduleList)
    /\ pc' = "done"
    /\ UNCHANGED <<moduleList, fatal, relocations, module_data, modules>>

Next ==
    \/ OutOfMemory
    \/ CountSections \/ UseRow \/ AddRow \/ SavedRelocations
    \/ SaveHooks \/ SaveExports \/ SaveSymbols \/ Publish

Spec == Init /\ [][Next]_vars

-----------------------------------------------------------------------------
(* The variables keep their types. *)
TypeOK ==
    /\ ModuleListInit
    /\ pc \in {"module", "fill", "hooks", "exports", "symbols", "done", "fatal"}
    /\ fatal \in {"none", "memory", "entries"}
    /\ pc \in {"fill", "hooks", "exports", "symbols"} => i <= Len(moduleList)
    /\ relocation_data \in Seq(Nat)
    /\ rpl_data \in Seq([importName : Sections, isData : BOOLEAN])
    /\ rplInfoTotalCount \in Nat
    /\ DOMAIN rplInfoMap \subseteq Sections
    /\ \A n \in DOMAIN rplInfoMap : rplInfoMap[n] \in Nat
    /\ module_data \in [hooks : Nat, exports : Nat]
    /\ modules \in Seq([imports : Seq(Nat), rows : Seq([importName : Sections, isData : BOOLEAN]),
                        hooks : Nat, exports : Nat, symbols : Nat])

(* The rows that were counted with a set of names suffice for the rows that are
   written with a map of names: the check for a full table never stops the console. *)
RowsSuffice == fatal # "entries"

(* A description is that of its module: each relocation refers to a row with the name
   and the kind of its import section, no two rows name the same section, none is
   empty, and none belongs to the module before. *)
Describes(d, m) ==
    /\ Len(d.imports) = Len(m.imports)
    /\ \A k \in DOMAIN d.imports :
          /\ d.imports[k] \in DOMAIN d.rows
          /\ d.rows[d.imports[k]] =
                 [importName |-> m.imports[k], isData |-> m.imports[k] \in DataSections]
    /\ {d.rows[r].importName : r \in DOMAIN d.rows} = RangeOf(m.imports)
    /\ \A r, s \in DOMAIN d.rows : d.rows[r].importName = d.rows[s].importName => r = s
    /\ <<d.hooks, d.exports, d.symbols>> = <<m.hooks, m.exports, m.symbols>>

(* What number_modules counts is complete and right at any time, the n-th description
   being that of the n-th module, and at the end there is one for each module. *)
ModulesDescribed ==
    /\ Len(modules) <= Len(moduleList)
    /\ \A n \in DOMAIN modules : Describes(modules[n], moduleList[n])
    /\ pc = "done" => Len(modules) = Len(moduleList)
=============================================================================
