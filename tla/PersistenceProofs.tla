------------------------- MODULE PersistenceProofs --------------------------
(***************************************************************************)
(* What Persistence publishes, for all modules and import sections.        *)
(***************************************************************************)
EXTENDS Persistence, FiniteSetTheorems, TLAPS

Working == {"fill", "hooks", "exports", "symbols"}

Row(n) == [importName |-> n, isData |-> n \in DataSections]

(* How far the two tables of a module are: the map has the import sections met so far,
   the rows and the names of the map are in one-to-one correspondence, and so there are
   as many rows as names. *)
TablesFit ==
    /\ i <= Len(moduleList)
    /\ Len(relocation_data) <= Len(module.imports)
    /\ rplInfoTotalCount = Cardinality(RangeOf(module.imports))
    /\ DOMAIN rplInfoMap = {module.imports[k] : k \in 1..Len(relocation_data)}
    /\ Cardinality(DOMAIN rplInfoMap) = Len(rpl_data)
    /\ \A n \in DOMAIN rplInfoMap : /\ rplInfoMap[n] \in 1..Len(rpl_data)
                                    /\ rpl_data[rplInfoMap[n]] = Row(n)
    /\ \A r \in 1..Len(rpl_data) : /\ rpl_data[r].importName \in DOMAIN rplInfoMap
                                   /\ rplInfoMap[rpl_data[r].importName] = r
    /\ \A k \in 1..Len(relocation_data) : relocation_data[k] = rplInfoMap[module.imports[k]]

TablesDone ==
    /\ pc \in Working => TablesFit
    /\ pc \in Working \ {"fill"} => Len(relocation_data) = Len(module.imports)
    /\ pc \in {"exports", "symbols"} => module_data.hooks = module.hooks
    /\ pc = "symbols" => module_data.exports = module.exports

PInv == TypeOK /\ RowsSuffice /\ ModulesDescribed /\ TablesDone

-----------------------------------------------------------------------------
LEMMA ListTypes ==
    ASSUME ModuleListInit
    PROVE  /\ Len(moduleList) \in Nat
           /\ DOMAIN moduleList = 1..Len(moduleList)
           /\ \A j \in 1..Len(moduleList) : moduleList[j] \in Module
<1>1. PICK n \in 0..MaxModules : moduleList \in [1..n -> Module]
    BY DEF ModuleListInit
<1>2. n \in Nat
    BY BoundsAssumption
<1>3. Len(moduleList) = n /\ DOMAIN moduleList = 1..n
    BY <1>1, <1>2
<1> QED
    BY <1>1, <1>2, <1>3

LEMMA ModuleTypes ==
    ASSUME NEW m \in Module
    PROVE  /\ m.imports \in Seq(Sections)
           /\ RangeOf(m.imports) \subseteq Sections
           /\ IsFiniteSet(RangeOf(m.imports))
           /\ m.hooks \in Nat /\ m.exports \in Nat /\ m.symbols \in Nat
<1>1. PICK n \in 0..MaxImports : m.imports \in [1..n -> Sections]
    BY DEF Module
<1>2. n \in Nat
    BY BoundsAssumption
<1>3. m.imports \in Seq(Sections)
    BY <1>1, <1>2
<1>4. RangeOf(m.imports) \subseteq Sections
    BY <1>1 DEF RangeOf
<1>5. IsFiniteSet(RangeOf(m.imports))
    BY <1>4, SectionsAssumption, FS_Subset
<1>6. m.hooks \in Nat /\ m.exports \in Nat /\ m.symbols \in Nat
    BY BoundsAssumption DEF Module
<1> QED
    BY <1>3, <1>4, <1>5, <1>6

(* Appending, element by element. *)
LEMMA Appended ==
    ASSUME NEW S, NEW s \in Seq(S), NEW x \in S
    PROVE  /\ Append(s, x) \in Seq(S)
           /\ Len(Append(s, x)) = Len(s) + 1
           /\ Len(s) \in Nat
           /\ \A k \in 1..Len(s) : Append(s, x)[k] = s[k]
           /\ Append(s, x)[Len(s) + 1] = x
    OBVIOUS

(* A new name leaves room for its row: the rows are as many as the names in the map,
   and these are some, but not all, of the names that were counted. *)
LEMMA RoomForRow ==
    ASSUME PInv, pc = "fill", Filling, name \notin DOMAIN rplInfoMap
    PROVE  Len(rpl_data) < rplInfoTotalCount
<1>1. module \in Module /\ module.imports \in Seq(Sections)
    BY ListTypes, ModuleTypes DEF PInv, TypeOK, TablesDone, TablesFit, Working, module, i
<1>2. IsFiniteSet(RangeOf(module.imports))
    BY <1>1, ModuleTypes
<1>3. name \in RangeOf(module.imports)
    BY <1>1 DEF PInv, TypeOK, Filling, name, RangeOf
<1>4. DOMAIN rplInfoMap \subseteq RangeOf(module.imports)
    BY <1>1 DEF PInv, TypeOK, TablesDone, TablesFit, Working, RangeOf
<1>5. DOMAIN rplInfoMap # RangeOf(module.imports)
    BY <1>3
<1>6. /\ Cardinality(DOMAIN rplInfoMap) <= Cardinality(RangeOf(module.imports))
      /\ Cardinality(DOMAIN rplInfoMap) # Cardinality(RangeOf(module.imports))
    BY <1>2, <1>4, <1>5, FS_Subset
<1>7. Cardinality(RangeOf(module.imports)) \in Nat
    BY <1>2, FS_CardinalityType
<1> QED
    BY <1>6, <1>7 DEF PInv, TypeOK, TablesDone, TablesFit, Working

-----------------------------------------------------------------------------
LEMMA InitInv == Init => PInv
    BY DEF Init, PInv, TypeOK, RowsSuffice, ModulesDescribed, TablesDone, Working

(* OSFatal changes nothing that is described. *)
LEMMA FatalInv ==
    ASSUME PInv, OSFatal("memory")
    PROVE  PInv'
<1>1. TypeOK'
    BY DEF PInv, TypeOK, OSFatal, ModuleListInit, relocations
<1>2. RowsSuffice' /\ TablesDone'
    BY DEF OSFatal, RowsSuffice, TablesDone, Working
<1>3. ModulesDescribed'
    BY DEF PInv, ModulesDescribed, OSFatal
<1> QED
    BY <1>1, <1>2, <1>3 DEF PInv

LEMMA CountInv ==
    ASSUME PInv, CountSections
    PROVE  PInv'
<1>1. module \in Module /\ module.imports \in Seq(Sections) /\ module' = module /\ i' = i
    BY ListTypes, ModuleTypes DEF PInv, TypeOK, CountSections, module, i
<1>2. Cardinality(RangeOf(module.imports)) \in Nat
    BY <1>1, ModuleTypes, FS_CardinalityType
<1>3. TypeOK'
    BY <1>1, <1>2 DEF PInv, TypeOK, CountSections, ModuleListInit
<1>4. RowsSuffice' /\ ModulesDescribed'
    BY DEF PInv, RowsSuffice, ModulesDescribed, CountSections
<1>5. TablesFit'
    <2>1. DOMAIN rplInfoMap' = {} /\ Len(rpl_data') = 0 /\ Len(relocation_data') = 0
        BY DEF CountSections
    <2>2. Cardinality({}) = 0
        BY FS_EmptySet
    <2>3. i' <= Len(moduleList') /\ rplInfoTotalCount' = Cardinality(RangeOf(module.imports))'
        BY <1>1 DEF CountSections
    <2>4. Len(module'.imports) \in Nat
        BY <1>1
    <2> QED
        BY <2>1, <2>2, <2>3, <2>4 DEF TablesFit
<1>6. TablesDone'
    BY <1>5 DEF TablesDone, CountSections, Working
<1> QED
    BY <1>3, <1>4, <1>6 DEF PInv

LEMMA UseRowInv ==
    ASSUME PInv, UseRow
    PROVE  PInv'
<1>1. /\ module \in Module /\ module.imports \in Seq(Sections)
      /\ module' = module /\ i' = i /\ pc = "fill" /\ TablesFit
    BY ListTypes, ModuleTypes
    DEF PInv, TypeOK, UseRow, Filling, TablesDone, Working, module, i
<1> DEFINE n == Len(relocation_data)
<1>2. n \in Nat /\ n + 1 <= Len(module.imports) /\ name = module.imports[n + 1]
    BY <1>1 DEF PInv, TypeOK, UseRow, Filling, name
<1>3. /\ relocation_data' \in Seq(Nat)
      /\ Len(relocation_data') = n + 1
      /\ \A k \in 1..n : relocation_data'[k] = relocation_data[k]
      /\ relocation_data'[n + 1] = rplInfoMap[name]
    BY Appended DEF PInv, TypeOK, UseRow
<1>4. TypeOK'
    BY <1>1, <1>3 DEF PInv, TypeOK, UseRow, ModuleListInit
<1>5. RowsSuffice' /\ ModulesDescribed'
    BY DEF PInv, RowsSuffice, ModulesDescribed, UseRow
<1>6. TablesFit'
    <2>1. DOMAIN rplInfoMap = {module.imports[k] : k \in 1..(n + 1)}
        <3>1. DOMAIN rplInfoMap = {module.imports[k] : k \in 1..n} /\ name \in DOMAIN rplInfoMap
            BY <1>1 DEF TablesFit, UseRow
        <3>2. 1..(n + 1) = (1..n) \cup {n + 1}
            BY <1>2
        <3> HIDE DEF n
        <3> QED
            BY <1>2, <3>1, <3>2
    <2>2. ASSUME NEW k \in 1..(n + 1) PROVE relocation_data'[k] = rplInfoMap[module.imports[k]]
        <3>1. \A l \in 1..n : relocation_data[l] = rplInfoMap[module.imports[l]]
            BY <1>1 DEF TablesFit
        <3> HIDE DEF n
        <3> QED
            BY <1>2, <1>3, <3>1
    <2>3. UNCHANGED <<moduleList, rpl_data, rplInfoTotalCount, rplInfoMap>>
        BY DEF UseRow
    <2>4. /\ (i <= Len(moduleList))'
          /\ (Len(relocation_data) <= Len(module.imports))'
          /\ (rplInfoTotalCount = Cardinality(RangeOf(module.imports)))'
        BY <1>1, <1>2, <1>3, <2>3 DEF TablesFit, RangeOf
    <2>5. /\ (DOMAIN rplInfoMap = {module.imports[k] : k \in 1..Len(relocation_data)})'
          /\ (\A k \in 1..Len(relocation_data) :
                  relocation_data[k] = rplInfoMap[module.imports[k]])'
        BY <1>1, <1>3, <2>1, <2>2, <2>3
    <2>6. /\ (Cardinality(DOMAIN rplInfoMap) = Len(rpl_data))'
          /\ (\A x \in DOMAIN rplInfoMap : /\ rplInfoMap[x] \in 1..Len(rpl_data)
                                            /\ rpl_data[rplInfoMap[x]] = Row(x))'
          /\ (\A r \in 1..Len(rpl_data) : /\ rpl_data[r].importName \in DOMAIN rplInfoMap
                                           /\ rplInfoMap[rpl_data[r].importName] = r)'
        BY <1>1, <2>3 DEF TablesFit, Row
    <2> QED
        BY <2>4, <2>5, <2>6 DEF TablesFit
<1>7. TablesDone'
    BY <1>1, <1>6 DEF TablesDone, UseRow, Working
<1> QED
    BY <1>4, <1>5, <1>7 DEF PInv

LEMMA AddRowInv ==
    ASSUME PInv, AddRow
    PROVE  PInv'
<1>1. /\ module \in Module /\ module.imports \in Seq(Sections)
      /\ pc = "fill" /\ TablesFit
    BY ListTypes, ModuleTypes DEF PInv, TypeOK, AddRow, Filling, TablesDone, Working, module, i
<1> DEFINE n == Len(relocation_data)
           r == Len(rpl_data)
<1>2. n \in Nat /\ r \in Nat /\ n + 1 <= Len(module.imports) /\ name = module.imports[n + 1]
    BY <1>1 DEF PInv, TypeOK, AddRow, Filling, name
<1>3. name \in Sections
    BY <1>1, <1>2
<1>4. /\ rpl_data' = Append(rpl_data, Row(name))
      /\ rplInfoMap' = [x \in DOMAIN rplInfoMap \cup {name} |->
                           IF x = name THEN r + 1 ELSE rplInfoMap[x]]
      /\ relocation_data' = Append(relocation_data, r + 1)
      /\ UNCHANGED <<moduleList, pc, fatal, rplInfoTotalCount, module_data, modules>>
    <2>1. ~(r >= rplInfoTotalCount)
        BY <1>1, <1>2, RoomForRow DEF PInv, TypeOK, AddRow
    <2> QED
        BY <2>1 DEF AddRow, Row
<1>5. module' = module /\ i' = i
    BY <1>4 DEF module, i
<1>6. /\ rpl_data' \in Seq([importName : Sections, isData : BOOLEAN])
      /\ Len(rpl_data') = r + 1
      /\ \A s \in 1..r : rpl_data'[s] = rpl_data[s]
      /\ rpl_data'[r + 1] = Row(name)
    <2>1. Row(name) \in [importName : Sections, isData : BOOLEAN]
        BY <1>3 DEF Row
    <2> QED
        BY <1>4, <2>1, Appended DEF PInv, TypeOK
<1>7. /\ relocation_data' \in Seq(Nat)
      /\ Len(relocation_data') = n + 1
      /\ \A k \in 1..n : relocation_data'[k] = relocation_data[k]
      /\ relocation_data'[n + 1] = r + 1
    BY <1>2, <1>4, Appended DEF PInv, TypeOK
<1>8. /\ DOMAIN rplInfoMap' = DOMAIN rplInfoMap \cup {name}
      /\ rplInfoMap'[name] = r + 1
      /\ \A x \in DOMAIN rplInfoMap : rplInfoMap'[x] = rplInfoMap[x]
      /\ name \notin DOMAIN rplInfoMap
    BY <1>4 DEF AddRow
<1>9. TypeOK'
    BY <1>1, <1>2, <1>3, <1>4, <1>5, <1>6, <1>7, <1>8 DEF PInv, TypeOK, ModuleListInit
<1>10. RowsSuffice' /\ ModulesDescribed'
    BY <1>4 DEF PInv, RowsSuffice, ModulesDescribed
<1>11. TablesFit'
    <2>1. DOMAIN rplInfoMap' = {module.imports[k] : k \in 1..(n + 1)}
        BY <1>1, <1>2, <1>8 DEF TablesFit
    <2>2. Cardinality(DOMAIN rplInfoMap') = r + 1
        <3>1. IsFiniteSet(DOMAIN rplInfoMap)
            BY SectionsAssumption, FS_Subset DEF PInv, TypeOK
        <3>2. Cardinality(DOMAIN rplInfoMap) = r
            BY <1>1 DEF TablesFit
        <3>3. Cardinality(DOMAIN rplInfoMap \cup {name}) = Cardinality(DOMAIN rplInfoMap) + 1
            BY <1>8, <3>1, FS_AddElement
        <3> QED
            BY <1>8, <3>2, <3>3
    <2>3. ASSUME NEW x \in DOMAIN rplInfoMap'
          PROVE  rplInfoMap'[x] \in 1..(r + 1) /\ rpl_data'[rplInfoMap'[x]] = Row(x)
        <3>1. CASE x = name
            BY <1>2, <1>6, <1>8, <3>1
        <3>2. CASE x # name
            <4>1. x \in DOMAIN rplInfoMap /\ rplInfoMap'[x] = rplInfoMap[x]
                BY <1>8, <3>2
            <4>2. rplInfoMap[x] \in 1..r /\ rpl_data[rplInfoMap[x]] = Row(x)
                BY <1>1, <4>1 DEF TablesFit
            <4>3. rpl_data'[rplInfoMap[x]] = rpl_data[rplInfoMap[x]]
                BY <1>6, <4>2
            <4>4. rplInfoMap[x] \in 1..(r + 1)
                BY <1>2, <4>2
            <4> QED
                BY <4>1, <4>2, <4>3, <4>4
        <3> QED
            BY <3>1, <3>2
    <2>4. ASSUME NEW s \in 1..(r + 1)
          PROVE  /\ rpl_data'[s].importName \in DOMAIN rplInfoMap'
                 /\ rplInfoMap'[rpl_data'[s].importName] = s
        <3>1. CASE s = r + 1
            BY <1>6, <1>8, <3>1 DEF Row
        <3>2. CASE s \in 1..r
            <4>1. /\ rpl_data[s].importName \in DOMAIN rplInfoMap
                  /\ rplInfoMap[rpl_data[s].importName] = s
                BY <1>1, <3>2 DEF TablesFit
            <4>2. rpl_data'[s] = rpl_data[s]
                BY <1>6, <3>2
            <4> QED
                BY <1>8, <4>1, <4>2
        <3> QED
            BY <1>2, <3>1, <3>2
    <2>5. ASSUME NEW k \in 1..(n + 1)
          PROVE  relocation_data'[k] = rplInfoMap'[module.imports[k]]
        <3>1. CASE k = n + 1
            BY <1>2, <1>7, <1>8, <3>1
        <3>2. CASE k \in 1..n
            <4>1. module.imports[k] \in DOMAIN rplInfoMap
                BY <1>1, <3>2 DEF TablesFit
            <4> QED
                BY <1>1, <1>7, <1>8, <3>2, <4>1 DEF TablesFit
        <3> QED
            BY <1>2, <3>1, <3>2
    <2>6. /\ (i <= Len(moduleList))'
          /\ (Len(relocation_data) <= Len(module.imports))'
          /\ (rplInfoTotalCount = Cardinality(RangeOf(module.imports)))'
        BY <1>1, <1>2, <1>4, <1>5, <1>7 DEF TablesFit, RangeOf
    <2>7. /\ (DOMAIN rplInfoMap = {module.imports[k] : k \in 1..Len(relocation_data)})'
          /\ (\A k \in 1..Len(relocation_data) :
                  relocation_data[k] = rplInfoMap[module.imports[k]])'
        BY <1>5, <1>7, <2>1, <2>5
    <2>8. /\ (Cardinality(DOMAIN rplInfoMap) = Len(rpl_data))'
          /\ (\A x \in DOMAIN rplInfoMap : /\ rplInfoMap[x] \in 1..Len(rpl_data)
                                            /\ rpl_data[rplInfoMap[x]] = Row(x))'
          /\ (\A s \in 1..Len(rpl_data) : /\ rpl_data[s].importName \in DOMAIN rplInfoMap
                                           /\ rplInfoMap[rpl_data[s].importName] = s)'
        BY <1>6, <2>2, <2>3, <2>4 DEF Row
    <2> QED
        BY <2>6, <2>7, <2>8 DEF TablesFit
<1>12. TablesDone'
    BY <1>1, <1>4, <1>11 DEF TablesDone, Working
<1> QED
    BY <1>9, <1>10, <1>12 DEF PInv

(* The steps that leave the two tables alone. *)
LEMMA CopyInv ==
    ASSUME PInv, SavedRelocations \/ SaveHooks \/ SaveExports
    PROVE  PInv'
<1>1. /\ module \in Module /\ module' = module /\ i' = i /\ pc \in Working /\ pc' \in Working
      /\ TablesFit /\ i <= Len(moduleList)
      /\ UNCHANGED <<moduleList, fatal, relocations, modules>>
    BY ListTypes
    DEF PInv, TypeOK, SavedRelocations, SaveHooks, SaveExports, TablesDone, Working, module, i
<1>2. module.hooks \in Nat /\ module.exports \in Nat /\ module.imports \in Seq(Sections)
    BY <1>1, ModuleTypes
<1>3. TypeOK'
    BY <1>1, <1>2
    DEF PInv, TypeOK, SavedRelocations, SaveHooks, SaveExports, ModuleListInit, relocations,
        Working
<1>4. RowsSuffice' /\ ModulesDescribed'
    BY <1>1 DEF PInv, RowsSuffice, ModulesDescribed, Working
<1>5. TablesFit'
    <2>1. /\ UNCHANGED <<relocation_data, rpl_data, rplInfoTotalCount, rplInfoMap>>
          /\ UNCHANGED <<moduleList, modules, module.imports, RangeOf(module.imports)>>
        BY <1>1 DEF relocations, RangeOf
    <2>2. (i <= Len(moduleList))'
        BY <1>1
    <2>3. /\ (Len(relocation_data) <= Len(module.imports))'
          /\ (rplInfoTotalCount = Cardinality(RangeOf(module.imports)))'
          /\ (Cardinality(DOMAIN rplInfoMap) = Len(rpl_data))'
        BY <1>1, <2>1 DEF TablesFit
    <2>4. (DOMAIN rplInfoMap = {module.imports[n] : n \in 1..Len(relocation_data)})'
        BY <1>1, <2>1 DEF TablesFit
    <2>5. /\ (\A n \in DOMAIN rplInfoMap : /\ rplInfoMap[n] \in 1..Len(rpl_data)
                                            /\ rpl_data[rplInfoMap[n]] = Row(n))'
          /\ (\A r \in 1..Len(rpl_data) : /\ rpl_data[r].importName \in DOMAIN rplInfoMap
                                           /\ rplInfoMap[rpl_data[r].importName] = r)'
        BY <1>1, <2>1 DEF TablesFit, Row
    <2>6. (\A n \in 1..Len(relocation_data) :
              relocation_data[n] = rplInfoMap[module.imports[n]])'
        BY <1>1, <2>1 DEF TablesFit
    <2> QED
        BY <2>2, <2>3, <2>4, <2>5, <2>6 DEF TablesFit
<1>6. Len(relocation_data) = Len(module.imports)
    <2>1. CASE SavedRelocations
        BY <1>1, <1>2, <2>1 DEF SavedRelocations, Filling, TablesFit, PInv, TypeOK
    <2>2. CASE SaveHooks \/ SaveExports
        BY <2>2 DEF SaveHooks, SaveExports, PInv, TablesDone, Working
    <2> QED
        BY <2>1, <2>2
<1>7. TablesDone'
    BY <1>1, <1>5, <1>6
    DEF PInv, TypeOK, TablesDone, SavedRelocations, SaveHooks, SaveExports, Working,
        relocations
<1> QED
    BY <1>3, <1>4, <1>7 DEF PInv

(* The tables that are complete describe the module. *)
LEMMA Complete ==
    ASSUME PInv, pc = "symbols", NEW d,
           d = [imports |-> relocation_data, rows |-> rpl_data, hooks |-> module_data.hooks,
                exports |-> module_data.exports, symbols |-> module.symbols]
    PROVE  Describes(d, module)
<1>1. /\ TablesFit
      /\ Len(relocation_data) = Len(module.imports)
      /\ module_data.hooks = module.hooks /\ module_data.exports = module.exports
    BY DEF PInv, TablesDone, Working
<1>8. module \in Module /\ module.imports \in Seq(Sections)
    BY ListTypes, ModuleTypes DEF PInv, TypeOK, Working, module, i
<1>2. DOMAIN relocation_data = 1..Len(relocation_data) /\ DOMAIN rpl_data = 1..Len(rpl_data)
    BY DEF PInv, TypeOK
<1>3. /\ d.imports = relocation_data /\ d.rows = rpl_data
      /\ <<d.hooks, d.exports, d.symbols>> = <<module.hooks, module.exports, module.symbols>>
    BY <1>1
<1>4. DOMAIN rplInfoMap = RangeOf(module.imports)
    BY <1>1 DEF TablesFit, RangeOf
<1>5. ASSUME NEW k \in 1..Len(relocation_data)
      PROVE  /\ relocation_data[k] \in 1..Len(rpl_data)
             /\ rpl_data[relocation_data[k]] = Row(module.imports[k])
    <2>1. module.imports[k] \in DOMAIN rplInfoMap
        BY <1>1 DEF TablesFit
    <2> QED
        BY <1>1, <2>1 DEF TablesFit
<1>6. {rpl_data[r].importName : r \in 1..Len(rpl_data)} = RangeOf(module.imports)
    <2>1. ASSUME NEW n \in DOMAIN rplInfoMap
          PROVE  \E r \in 1..Len(rpl_data) : rpl_data[r].importName = n
        <3>1. rplInfoMap[n] \in 1..Len(rpl_data) /\ rpl_data[rplInfoMap[n]] = Row(n)
            BY <1>1 DEF TablesFit
        <3>2. Row(n).importName = n
            BY DEF Row
        <3> QED
            BY <3>1, <3>2
    <2>2. \A r \in 1..Len(rpl_data) : rpl_data[r].importName \in DOMAIN rplInfoMap
        BY <1>1 DEF TablesFit
    <2> QED
        BY <1>4, <2>1, <2>2
<1>7. \A r, s \in 1..Len(rpl_data) : rpl_data[r].importName = rpl_data[s].importName => r = s
    BY <1>1 DEF TablesFit
<1> QED
    BY <1>1, <1>2, <1>3, <1>5, <1>6, <1>7, <1>8 DEF Describes, Row

LEMMA SymbolsInv ==
    ASSUME PInv, SaveSymbols
    PROVE  PInv'
<1> DEFINE d == [imports |-> relocation_data, rows |-> rpl_data, hooks |-> module_data.hooks,
                 exports |-> module_data.exports, symbols |-> module.symbols]
           D == [imports : Seq(Nat), rows : Seq([importName : Sections, isData : BOOLEAN]),
                 hooks : Nat, exports : Nat, symbols : Nat]
<1>1. module \in Module /\ module = moduleList[Len(modules) + 1] /\ pc = "symbols"
      /\ Len(modules) + 1 <= Len(moduleList)
      /\ UNCHANGED <<moduleList, fatal, relocations, module_data>> /\ pc' = "module"
    BY ListTypes DEF PInv, TypeOK, SaveSymbols, module, i
<1>2. d \in D
    BY <1>1, ModuleTypes DEF PInv, TypeOK
<1>3. /\ modules' \in Seq(D)
      /\ Len(modules') = Len(modules) + 1
      /\ Len(modules) \in Nat
      /\ \A k \in 1..Len(modules) : modules'[k] = modules[k]
      /\ modules'[Len(modules) + 1] = d
    <2>1. modules \in Seq(D) /\ modules' = Append(modules, d)
        BY DEF PInv, TypeOK, SaveSymbols
    <2> HIDE DEF d, D
    <2> QED
        BY <1>2, <2>1, Appended
<1>4. TypeOK'
    BY <1>1, <1>3 DEF PInv, TypeOK, ModuleListInit, relocations
<1>5. RowsSuffice' /\ TablesDone'
    BY <1>1 DEF PInv, RowsSuffice, TablesDone, Working
<1>6. Describes(d, moduleList[Len(modules) + 1])
    BY <1>1, Complete
<1>7. ASSUME NEW k \in DOMAIN modules'
      PROVE  Describes(modules'[k], moduleList[k])
    <2>1. k \in 1..(Len(modules) + 1) /\ DOMAIN modules = 1..Len(modules)
        BY <1>3 DEF PInv, TypeOK
    <2>2. CASE k = Len(modules) + 1
        BY <1>3, <1>6, <2>2
    <2>3. CASE k \in 1..Len(modules)
        <3>1. Describes(modules[k], moduleList[k])
            BY <2>1, <2>3 DEF PInv, ModulesDescribed
        <3>2. modules'[k] = modules[k]
            BY <1>3, <2>3
        <3> QED
            BY <3>1, <3>2
    <2> QED
        BY <1>3, <2>1, <2>2, <2>3
<1>8. ModulesDescribed'
    <2>1. \A k \in DOMAIN modules' : Describes(modules'[k], moduleList'[k])
        BY <1>1, <1>7
    <2>2. Len(modules') <= Len(moduleList') /\ pc' # "done"
        BY <1>1, <1>3
    <2> QED
        BY <2>1, <2>2 DEF ModulesDescribed
<1> QED
    BY <1>4, <1>5, <1>8 DEF PInv

LEMMA PublishInv ==
    ASSUME PInv, Publish
    PROVE  PInv'
<1>1. TypeOK'
    BY DEF PInv, TypeOK, Publish, ModuleListInit, relocations
<1>2. RowsSuffice' /\ TablesDone'
    BY DEF PInv, Publish, RowsSuffice, TablesDone, Working
<1>3. Len(moduleList) \in Nat /\ Len(modules) \in Nat
    BY ListTypes DEF PInv, TypeOK
<1>4. ModulesDescribed'
    BY <1>3 DEF PInv, ModulesDescribed, Publish, i
<1> QED
    BY <1>1, <1>2, <1>4 DEF PInv

LEMMA StepInv == PInv /\ [Next]_vars => PInv'
<1> SUFFICES ASSUME PInv, [Next]_vars PROVE PInv'
    OBVIOUS
<1>1. CASE OutOfMemory
    BY <1>1, FatalInv DEF OutOfMemory
<1>2. CASE CountSections
    BY <1>2, CountInv
<1>3. CASE UseRow
    BY <1>3, UseRowInv
<1>4. CASE AddRow
    BY <1>4, AddRowInv
<1>5. CASE SavedRelocations \/ SaveHooks \/ SaveExports
    BY <1>5, CopyInv
<1>6. CASE SaveSymbols
    BY <1>6, SymbolsInv
<1>7. CASE Publish
    BY <1>7, PublishInv
<1>8. CASE UNCHANGED vars
    <2>1. TypeOK'
        BY <1>8 DEF PInv, TypeOK, vars, ModuleListInit, i
    <2>2. RowsSuffice' /\ ModulesDescribed'
        BY <1>8 DEF PInv, RowsSuffice, ModulesDescribed, vars
    <2>3. TablesDone'
        BY <1>8 DEF PInv, TablesDone, TablesFit, vars, module, i
    <2> QED
        BY <2>1, <2>2, <2>3 DEF PInv
<1> QED
    BY <1>1, <1>2, <1>3, <1>4, <1>5, <1>6, <1>7, <1>8 DEF Next

LEMMA InvHolds == Spec => []PInv
    BY InitInv, StepInv, PTL DEF Spec

-----------------------------------------------------------------------------
(* The tables of saveModuleData keep their types. *)
THEOREM PersistenceTypes == Spec => []TypeOK
    BY InvHolds, PTL DEF PInv

(* saveRelocationDataForModule never finds its table of import sections full: what it
   counted with a set it fills with a map. *)
THEOREM TableNeverFull == Spec => []RowsSuffice
    BY InvHolds, PTL DEF PInv

(* What is published for a module is the description of that module: every relocation
   refers to the row of its own import section. *)
THEOREM PublishedRight == Spec => []ModulesDescribed
    BY InvHolds, PTL DEF PInv
=============================================================================
