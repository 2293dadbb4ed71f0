SPECIFICATION Spec
CONSTANTS
    Catalog <- MCCatalog
    Homebrew <- MCHomebrew
    BeforeBackend <- MCBeforeBackend
    MaxModules = 3
INVARIANT
    BaseLoadedForFiniWut
CHECK_DEADLOCK FALSE
