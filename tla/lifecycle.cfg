SPECIFICATION MCSpec
CONSTANTS
    Catalog <- MCCatalog
    Homebrew <- MCHomebrew
    BeforeBackend <- MCBeforeBackend
    MaxModules = 3
    Rpls <- MCRpls
    Ids = {1, 2, 3, 4, 5, 6}
    RELOCATOR_SIZE = 8
    ENVIRONMENT_PATH_LENGTH = 4
    Images <- MCImages
    PathLengths = {0, 1, 2, 3, 4}
INVARIANTS
    HooksSeeLiveImports
    LinksStayLive
    RefsBalanced
    MemoryBalanced
    InitOnceInOrder
    StartsAsLinked
PROPERTIES
    MemoryReturns
    StartEnds
CHECK_DEADLOCK FALSE
