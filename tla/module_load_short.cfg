SPECIFICATION Spec
CONSTANTS
    a = a
    b = b
    modules = modules
    old = old
    older = older
    empty = empty
    NoFolder = NoFolder
    Rpls <- MCRpls
    Versions <- MCVersions
    Directories <- MCDirectories
    Half = 4
INVARIANTS
    HeapLeftEmpty
CHECK_DEADLOCK FALSE
