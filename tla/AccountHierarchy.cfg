SPECIFICATION FairSpec
CONSTANTS
    N = 4
INVARIANTS
    AcceptsOnlyWellFormed
    RefusalsJustified
PROPERTIES
    AlwaysDecides
