SPECIFICATION Spec
CONSTANTS
    InputCount = 2
    Requested = 2
    MaxWorkers = 8
    MaxLength = 2
    MaxWrites = 1
    Worlds = {"recurring"}
    Gone = Gone
INVARIANTS
    AllOrNothing
PROPERTIES
    BatchIsAtomic
