SPECIFICATION Spec
CONSTANTS
    a = a
    b = b
    modules = modules
    old = old
    older = older
    empty = empty
    NoFolder = NoFolder
    Rpls <- MCRpls
    Versions <- MCVersions
    Directories <- MCDirectories
    Half = 4
INVARIANTS
    ListsWhatIsAsked
    HeapLeftClean
    LoadsTheGood
    EveryRelocationOnce
    FieldsAsWritten
PROPERTIES
    LoadEnds
CHECK_DEADLOCK FALSE
