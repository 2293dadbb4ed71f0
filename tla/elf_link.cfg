CONSTANTS
    Half = 32
    Span = 64
    CtrBit = 4
    Targets <- MCTargets
    Catalog <- MCCatalog
    MaxEntries = 2
    Symbols <- MCSymbols
    Words <- MCWords
    SlotAt <- MCSlotAt
SPECIFICATION Spec
INVARIANTS AddressesMeet BranchesReach FixedFarReach
PROPERTIES KeepsOtherBits
CHECK_DEADLOCK FALSE
