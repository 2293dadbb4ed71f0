SPECIFICATION Spec
CONSTANTS
    fcoreinit = fcoreinit
    dcoreinit = dcoreinit
    fgx2 = fgx2
    Sections <- MCSections
    DataSections <- MCDataSections
    MaxModules = 2
    MaxImports = 3
    MaxEntries = 1
INVARIANTS
    RowsSuffice
    ModulesDescribed
CHECK_DEADLOCK FALSE
