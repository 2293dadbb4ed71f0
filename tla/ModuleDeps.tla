----------------------------- MODULE ModuleDeps -----------------------------
(***************************************************************************)
(* The modules the loader works on, as far as their order depends on them. *)
(* A module is known by its number, its place in the list the directory    *)
(* scan produced; its descriptor holds what ModuleDataFactory::load read   *)
(* from the .wms file: the export name, the RPL names it imports from or   *)
(* declares in .wums.dependencies, the init-before-relocations flag and    *)
(* the types of its hooks.                                                 *)
(***************************************************************************)
EXTENDS Integers, Sequences

CONSTANTS
    Catalog,        \* the descriptors a module file may have
    Homebrew,       \* the names that start with "homebrew"
    BeforeBackend,  \* the names std::set<std::string> lists before the backend's
    MaxModules      \* bound: at most this many module files

Base    == "homebrew_basemodule"
Backend == "homebrew_wupsbackend"

Descriptor == [name : STRING, deps : SUBSET STRING, early : BOOLEAN, hooks : SUBSET STRING]

ASSUME CatalogAssumption == Catalog \subseteq Descriptor
ASSUME NamesAssumption ==
    /\ Homebrew \subseteq STRING
    /\ {Base, Backend} \subseteq Homebrew
    /\ Backend \notin BeforeBackend
ASSUME MaxModulesAssumption == MaxModules \in Nat

VARIABLE desc       \* desc[m]: the descriptor of module m

Modules == DOMAIN desc

(* Any list of at most MaxModules descriptors. *)
DescInit == \E n \in 0..MaxModules : desc \in [1..n -> Catalog]

(* Only imports from RPLs whose name starts with "homebrew" order modules. *)
Required(m) == desc[m].deps \cap Homebrew

Elements(s) == {s[k] : k \in DOMAIN s}

(* The export names of a set of modules. *)
Exports(S) == {desc[m].name : m \in S}

(* Every import of m is exported by a module of S. *)
Satisfied(m, S) == Required(m) \subseteq Exports(S)

(* The scan of m's sorted imports meets the plugin backend before it meets a
   name that no module of S exports, which would end it. *)
ReachesBackend(m, S) ==
    /\ Backend \in Required(m)
    /\ \A d \in Required(m) \ Exports(S) : d \notin BeforeBackend

Distinct(s) == \A j, k \in DOMAIN s : s[j] = s[k] => j = k

(* m comes before n in s. *)
Precedes(s, m, n) == \E j, k \in DOMAIN s : j < k /\ s[j] = m /\ s[k] = n

(* A module that is not initialised before the relocations are done. *)
Regular(m) == ~desc[m].early

EarlyFirst(s) == \A m, n \in Elements(s) : Regular(n) /\ ~Regular(m) => Precedes(s, m, n)

(* If a base module is regular, one comes before all other regular modules. *)
BaseLeads(s) ==
    LET regular == {m \in Elements(s) : Regular(m)}
        bases   == {m \in regular : desc[m].name = Base}
    IN bases # {} => \E b \in bases : \A n \in regular \ {b} : Precedes(s, b, n)

(* Mutant: the module before is not counted. *)
DepsFirstOffByOne(s) ==
    \A k \in DOMAIN s : Satisfied(s[k], {s[j] : j \in 1..(k - 2)})

(* Every module of s comes after the modules it imports from. *)
DepsFirst(s) ==
    \A k \in DOMAIN s : Satisfied(s[k], {s[j] : j \in 1..(k - 1)})

(* An order a start may use: all the modules, each once and after what it imports
   from, and with the base module loaded the early modules before it and it
   before the other regular ones. *)
Admissible(s) ==
    /\ Distinct(s)
    /\ Elements(s) = Modules
    /\ DepsFirst(s)
    /\ Base \in Exports(Modules) => EarlyFirst(s) /\ BaseLeads(s)

(* Modules that share an export name also share the early flag: the condition
   under which removing by name (remove_first_if) cannot confuse two modules. *)
NamesAgree ==
    \A m, n \in Modules : desc[m].name = desc[n].name => desc[m].early = desc[n].early
=============================================================================
