SPECIFICATION Spec
CONSTANTS
    Charts <- MCCharts
    PostingStreams <- MCStreams
    Dates = {1, 2, 3}
    MaxAmount = 3
INVARIANTS
    BuiltLedgerHolds
    StatementsAgree
    HistoryIsStable
    ReportsRestOnProof
    AmountsFit
CHECK_DEADLOCK FALSE
