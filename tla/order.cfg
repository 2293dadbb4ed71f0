SPECIFICATION MCSpec
CONSTANTS
    Catalog <- MCDescriptors
    Homebrew <- MCHomebrew
    BeforeBackend <- MCBeforeBackend
    MaxModules = 4
INVARIANTS
    UnresolvedMeansNoOrder
    MovesKeepPlaces
    StartsInOrder
    ImpossibleExplained
PROPERTIES
    Termination
    ImplementsLoadOrder
CHECK_DEADLOCK FALSE
