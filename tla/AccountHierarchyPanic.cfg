SPECIFICATION Spec
CONSTANTS
    N = 3
INVARIANTS
    FaultsAreRejected
