SPECIFICATION Spec
CONSTANTS
    Null = Null
    Bad = Bad
    Absent = Absent
    Nowhere = Nowhere
    Scans <- MCScans
    HeaderScans <- MCHeaderScans
    Expectations <- MCExpectations
INVARIANTS
    CompleteLosesNothing
    CountsHideNothing
    CarriersGrounded
