SPECIFICATION FairSpec
CONSTANTS
    InputCount = 3
    Requested = 3
    MaxWorkers = 8
    Outcomes = {completed, inputError}
    NotRun = NotRun
INVARIANTS
    NoDoubleWork
    OrderedResults
    FailuresStayAlone
PROPERTIES
    RunEnds
