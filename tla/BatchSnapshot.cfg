SPECIFICATION Spec
CONSTANTS
    InputCount = 1
    Requested = 1
    MaxWorkers = 8
    MaxLength = 3
    MaxWrites = 3
    Worlds = {"coarse", "recurring"}
    Gone = Gone
INVARIANTS
    ReportIsInstant
    BoundedReading
