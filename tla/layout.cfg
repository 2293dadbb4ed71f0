SPECIFICATION Spec
CONSTANTS
    TextBase <- MCTextBase
    DataBase <- MCDataBase
    ImportBase <- MCImportBase
    Catalog <- MCSections
    MaxSections = 4
    Blocks = {8}
    HeapEnd <- MCHeapEnd
    Word <- MCWord
INVARIANTS
    InsideBlock
    SymbolsMeetSections
    PartsApart
    EndBehindAll
CHECK_DEADLOCK FALSE
