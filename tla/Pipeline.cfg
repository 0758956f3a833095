SPECIFICATION Spec
CONSTANTS
    Null = Null
    MaxAmount = 8
    Inputs <- MCInputs
INVARIANTS
    LedgerLeavesNothingOut
    MastersBalance
    EveryRowAnswered
    OneCheckDecoder
