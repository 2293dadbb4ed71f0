SPECIFICATION MCSpec
CONSTANTS
    a = a
    b = b
    c = c
    none = none
    NoName = none
    Names <- MCNames
    elf_hash <- MCElfHash
    elf_gnu_hash <- MCGnuHash
    TypeSize = 4
    InfoSize = 16
    BloomBits = 4
    Types = {3}
    MaxSymbols = 4
    MaxEntries = 1
    Chaining = 2
    FirstHashed = 1
    TableFiles <- MCTableFiles
    DynEntries <- MCDynEntries
    DynStrings = {"", "libm"}
    Notes <- MCNotes
    Attributes <- MCAttributes
    Versions = {3}
    MaxCalls = 4
INVARIANTS
    LookupFindsName
    TablesReadBack
PROPERTIES
    RelocationsKeepSymbols
    Arranged
CHECK_DEADLOCK FALSE
