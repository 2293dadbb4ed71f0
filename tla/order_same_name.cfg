SPECIFICATION Spec
CONSTANTS
    Catalog <- MCReorderCatalog
    Homebrew <- MCHomebrew
    BeforeBackend <- MCBeforeBackend
    MaxModules = 3
INVARIANT
    ReorderKeepsAllAlways
CHECK_DEADLOCK FALSE
