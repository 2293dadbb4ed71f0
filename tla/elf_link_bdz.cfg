CONSTANTS
    Half = 32
    Span = 64
    CtrBit = 4
    Targets <- MCTargets
    Catalog <- MCBranches
    MaxEntries = 2
    Symbols <- MCSymbols
    Words <- MCCtrWords
    SlotAt <- MCSlotAt
SPECIFICATION Spec
INVARIANT ConditionKept
CHECK_DEADLOCK FALSE
