SPECIFICATION Spec
CONSTANTS
    Null = Null
    MaxCents = 2147483647
    Numerals = {"1", "2", "3", "7", "8", "9", "12", "1000"}
    DepositTails <- MCDepositTails
    BillTails <- MCBillTails
    CheckAmounts <- MCCheckAmounts
    PaymentAmounts <- MCPaymentAmounts
    JournalAmounts <- MCJournalAmounts
    FixedRows <- MCFixedRows
    JournalInputs <- MCJournalInputs
    JournalTables <- MCJournalTables
    PostingInputs <- MCPostingInputs
    AccountInputs <- MCAccountInputs
    Selections <- MCSelections
    HighBit = 8
    CatalogPages <- MCCatalogPages
    RecoveredPages <- MCRecoveredPages
    Relations <- MCRelations
    CatalogBodies <- MCCatalogBodies
    Bad = Bad
    CsvTexts <- MCCsvTexts
    CsvRows <- MCCsvRows
    HashedPieces <- MCHashedPieces
    DrecBytes <- MCDrecBytes
    DrecRecords <- MCDrecRecords
    Days <- MCDays
    DiskValues <- MCDiskValues
    TransformedPages <- MCTransformedPages
    PageSets <- MCPageSets
    AffinePages <- MCAffinePages
    SchemaColumns <- MCSchemaColumns
    DesktopDates <- MCDesktopDates
    KeyEvidence <- MCKeyEvidence
    BalancePairs <- MCBalancePairs
    LedgerPairs <- MCLedgerPairs
    Sections <- MCSections
    Manifest <- MCManifest
    ReportTexts <- MCReportTexts
    ReportWrites <- MCReportWrites
    BatchItems <- MCBatchItems
INVARIANTS
    AmountsAsWritten RowsReadOneWay SetAsideIsGrounded BoundedRowsAgree CatalogsAgree
    WrittenReadsBack PagesReadBack KeyUndisputed BooksReconcile
    OwnReportsReadBack ReportsStoredAreLast
CHECK_DEADLOCK FALSE
