--------------------------- MODULE ConversionsProofs ---------------------------
(****************************************************************************)
(* Theorems about Conversions, for any inputs.  All calls share one         *)
(* invariant, Asked: a call that has been made was on one of its inputs and *)
(* the output is its answer to it.  What the property says is then a fact   *)
(* about the operator that answers:                                         *)
(*   RowsReadOneWay  a chain of tests passes when each of them does, which  *)
(*                   bounds the places of every field, and the grammars of  *)
(*                   the journal exclude each other by family and class;    *)
(*   KeyUndisputed   the places that balance are those of a mirrored order, *)
(*                   mirrored, and what is taken of one place is the same;  *)
(*   BoundedRowsAgree  what an adapter says follows from the cells that it  *)
(*                   looks at, and a cell that was decoded is that of the   *)
(*                   complete row;                                          *)
(*   CatalogsAgree   no error depends on which of two contradicting pages   *)
(*                   comes first, the places of records correspond one to   *)
(*                   one when the pages are reversed, and a gate that finds *)
(*                   none of a kind speaks for every reading of a page.     *)
(****************************************************************************)
EXTENDS Conversions, FiniteSetTheorems, FunctionTheorems, SequenceTheorems, TLAPS

\* An action takes its call from the start, and is the only one of its name.
LEMMA OneCall ==
    ASSUME Next
    PROVE  /\ task = "none"
           /\ task' = "row" => ParseRow
           /\ task' = "journal row" => ClassifyJournalRow
           /\ task' = "posting row" => AdaptRow
           /\ task' = "account row" => AdaptAccount
           /\ task' = "selection" => AuditSelection
           /\ task' = "catalog" => CollectCatalogs
           /\ task' = "recovered" => RecoverCatalogs
           /\ task' = "key" => SelectKey
           /\ task' = "manifest" => CheckManifest
<1>1. DecodeDepositTail => task = "none" /\ task' = "amount"
  BY DEF DecodeDepositTail, Call
<1>2. DecodeBillTail => task = "none" /\ task' = "amount"
  BY DEF DecodeBillTail, Call
<1>3. DecodeCheckAmount => task = "none" /\ task' = "amount"
  BY DEF DecodeCheckAmount, Call
<1>4. DecodePaymentAmount => task = "none" /\ task' = "amount"
  BY DEF DecodePaymentAmount, Call
<1>5. DecodeJournalAmount => task = "none" /\ task' = "amount"
  BY DEF DecodeJournalAmount, Call
<1>6. ParseRow => task = "none" /\ task' = "row"
  BY DEF ParseRow, Call
<1>7. ClassifyJournalRow => task = "none" /\ task' = "journal row"
  BY DEF ClassifyJournalRow, Call
<1>8. ClassifyJournal => task = "none" /\ task' = "journal"
  BY DEF ClassifyJournal, Call
<1>9. AdaptRow => task = "none" /\ task' = "posting row"
  BY DEF AdaptRow, Call
<1>10. AdaptAccount => task = "none" /\ task' = "account row"
  BY DEF AdaptAccount, Call
<1>11. AuditSelection => task = "none" /\ task' = "selection"
  BY DEF AuditSelection, Call
<1>12. CollectCatalogs => task = "none" /\ task' = "catalog"
  BY DEF CollectCatalogs, Call
<1>13. RecoverCatalogs => task = "none" /\ task' = "recovered"
  BY DEF RecoverCatalogs, Call
<1>14. RelateCatalogs => task = "none" /\ task' = "relation"
  BY DEF RelateCatalogs, Call
<1>15. ScanCatalogPage => task = "none" /\ task' = "catalog page"
  BY DEF ScanCatalogPage, Call
<1>16. ReadCsv => task = "none" /\ task' = "csv"
  BY DEF ReadCsv, Call
<1>17. WriteCsv => task = "none" /\ task' = "csv rows"
  BY DEF WriteCsv, Call
<1>18. HashPieces => task = "none" /\ task' = "hash"
  BY DEF HashPieces, Call
<1>19. ReadDrec => task = "none" /\ task' = "drec"
  BY DEF ReadDrec, Call
<1>20. WriteDrec => task = "none" /\ task' = "drec record"
  BY DEF WriteDrec, Call
<1>21. ReadDay => task = "none" /\ task' = "day"
  BY DEF ReadDay, Call
<1>22. ReadDiskValue => task = "none" /\ task' = "disk value"
  BY DEF ReadDiskValue, Call
<1>23. MaterializePage => task = "none" /\ task' = "page"
  BY DEF MaterializePage, Call
<1>24. ResolvePage => task = "none" /\ task' = "candidates"
  BY DEF ResolvePage, Call
<1>25. DiscoverKey => task = "none" /\ task' = "pages"
  BY DEF DiscoverKey, Call
<1>26. RelocateByte => task = "none" /\ task' = "place"
  BY DEF RelocateByte, Call
<1>27. RecoverAffinePage => task = "none" /\ task' = "affine"
  BY DEF RecoverAffinePage, Call
<1>28. SelectKey => task = "none" /\ task' = "key"
  BY DEF SelectKey, Call
<1>29. CheckManifest => task = "none" /\ task' = "manifest"
  BY DEF CheckManifest, Call
<1>30. ReconcileTrialBalances => task = "none" /\ task' = "balances"
  BY DEF ReconcileTrialBalances, Call
<1>31. ReconcileLedgers => task = "none" /\ task' = "ledgers"
  BY DEF ReconcileLedgers, Call
<1>32. ResolveSections => task = "none" /\ task' = "sections"
  BY DEF ResolveSections, Call
<1>33. ReadDesktopDate => task = "none" /\ task' = "desktop date"
  BY DEF ReadDesktopDate, Call
<1>34. WriteText => task = "none" /\ task' = "report text"
  BY DEF WriteText, Call
<1>35. WriteDatabase => task = "none" /\ task' = "database"
  BY DEF WriteDatabase, Call
<1>36. Consolidate => task = "none" /\ task' = "batch"
  BY DEF Consolidate, Call
<1> QED
  BY <1>1, <1>2, <1>3, <1>4, <1>5, <1>6, <1>7, <1>8, <1>9, <1>10, <1>11, <1>12, <1>13, <1>14, <1>15, <1>16, <1>17, <1>18, <1>19, <1>20, <1>21, <1>22, <1>23, <1>24, <1>25, <1>26, <1>27, <1>28, <1>29, <1>30, <1>31, <1>32, <1>33, <1>34, <1>35, <1>36 DEF Next, DecodersNext, RecoveryNext, ReportingNext

--------------------------------------------------------------------------------
(* What was asked, and what it was answered *)

\* A line that is read in several ways.
ThreeWays(x) ==
    [complete |-> Adapter!AdaptComplete(x.table, x.schema, x.row),
     partial |-> Adapter!AdaptPartial(x.table, x.schema, x.bounded),
     dedicated |-> CASE x.table = "CheckLine" -> Adapter!AdaptCheck(x.parsed)
                     [] x.table = "BillLine" -> Adapter!AdaptBill(x.parsed)
                     [] x.table = "GeneralJournalLine" -> Adapter!AdaptJournal(x.parsed)
                     [] OTHER -> [is |-> "unread"]]

\* A record that is read whole and as far as it was decoded.
TwoWays(x) ==
    [complete |-> Chart!DecodeComplete(x.schema, x.values, x.identity, x.internal, x.identities),
     partial |-> Chart!DecodePartial(x.schema, x.through, x.prefix, x.booleans,
                                     x.identity, x.internal, x.identities)]

\* The catalogs of a store, collected with their gates and recovered.
CatalogAnswer(x) ==
    LET tables == Catalog!Collected(x.pages, Catalog!TableCarrier)
        columns == Catalog!Collected(x.pages, Catalog!ColumnCarrier)
    IN [tables |-> tables, columns |-> columns,
        gate |-> IF tables.refused = Null THEN Catalog!UnambiguousTables(tables, x.ids) ELSE Null,
        complete |-> IF columns.refused = Null
                     THEN Catalog!CompleteColumns(columns, 5, x.expected) ELSE Null,
        attested |-> IF columns.refused = Null
                     THEN Catalog!ColumnsAttested(columns, x.declared, 2, 4) ELSE Null]
RecoveredAnswer(x) ==
    LET tables == Catalog!ConflictFree(Catalog!TableRows(x)) IN
    [tables |-> tables, columns |-> Catalog!FirstOfKey(Catalog!ColumnRows(x)),
     indexes |-> Catalog!FirstOfKey(Catalog!IndexRows(x)),
     schema |-> Catalog!SchemaFor(tables, Catalog!FirstOfKey(Catalog!ColumnRows(x)), "a")]

\* A call that has been made was on one of its inputs, and the output is its
\* answer to it.
Asked ==
    /\ task = "row" => input \in FixedRows /\ output = Parsed(input.parser, input.row)
    /\ task = "journal row" => input \in JournalInputs /\ output = Row!RowDisposition(input)
    /\ task = "posting row" => input \in PostingInputs /\ output = ThreeWays(input)
    /\ task = "account row" => input \in AccountInputs /\ output = TwoWays(input)
    /\ task = "selection" =>
         input \in Selections /\ output = Chart!SelectionRefusal(input.rows, input.expected, input.reference)
    /\ task = "catalog" => input \in CatalogPages /\ output = CatalogAnswer(input)
    /\ task = "recovered" => input \in RecoveredPages /\ output = RecoveredAnswer(input)
    /\ task = "key" =>
         input \in KeyEvidence /\ output = Select!Chosen(input.witnessed, input.evidence, input.order)
    /\ task = "manifest" =>
         /\ input \in SchemaColumns
         /\ output = Select!ManifestRefusal(input, [t \in {1, 2} |-> [count |-> 2, metadata |-> Manifest(t)]])

\* From the start on, whatever is called.
LEMMA AskedAlways == Spec => []Asked
<1>1. Init => Asked
  BY DEF Init, Asked
<1>2. ASSUME Asked, [Next]_vars PROVE Asked'
  <2>1. CASE UNCHANGED vars
    BY <1>2, <2>1 DEF vars, Asked
  <2>2. CASE Next
    <3>1. task' = "row" => input' \in FixedRows /\ output' = Parsed(input'.parser, input'.row)
      BY <2>2, OneCall DEF ParseRow, Call
    <3>2. task' = "journal row" => input' \in JournalInputs /\ output' = Row!RowDisposition(input')
      BY <2>2, OneCall DEF ClassifyJournalRow, Call
    <3>3. task' = "key" =>
            input' \in KeyEvidence /\ output' = Select!Chosen(input'.witnessed, input'.evidence, input'.order)
      BY <2>2, OneCall DEF SelectKey, Call
    <3>4. task' = "manifest" =>
            /\ input' \in SchemaColumns
            /\ output' = Select!ManifestRefusal(input', [t \in {1, 2} |-> [count |-> 2, metadata |-> Manifest(t)]])
      BY <2>2, OneCall DEF CheckManifest, Call
    <3>5. task' = "posting row" => input' \in PostingInputs /\ output' = ThreeWays(input')
      BY <2>2, OneCall DEF AdaptRow, Call, ThreeWays
    <3>6. task' = "account row" => input' \in AccountInputs /\ output' = TwoWays(input')
      BY <2>2, OneCall DEF AdaptAccount, Call, TwoWays
    <3>7. task' = "catalog" => input' \in CatalogPages /\ output' = CatalogAnswer(input')
      BY <2>2, OneCall DEF CollectCatalogs, Call, CatalogAnswer
    <3>8. task' = "recovered" => input' \in RecoveredPages /\ output' = RecoveredAnswer(input')
      BY <2>2, OneCall DEF RecoverCatalogs, Call, RecoveredAnswer
    <3>9. task' = "selection" =>
            /\ input' \in Selections
            /\ output' = Chart!SelectionRefusal(input'.rows, input'.expected, input'.reference)
      BY <2>2, OneCall DEF AuditSelection, Call
    <3> QED  BY <3>1, <3>2, <3>3, <3>4, <3>5, <3>6, <3>7, <3>8, <3>9 DEF Asked
  <2> QED  BY <1>2, <2>1, <2>2
<1> QED  BY <1>1, <1>2, PTL DEF Spec

--------------------------------------------------------------------------------
(* Rows of a fixed grammar *)

\* A chain of tests passes when every one of them does, and panics when the
\* first that fails does.
LEMMA Tests ==
    \A x, y : /\ (Row!??(x, y) = Null <=> x = Null /\ y = Null)
              /\ (Row!??(x, y) = "panic" <=> x = "panic" \/ (x = Null /\ y = "panic"))
  BY NullAssumption DEF Row!??

\* A check line, linked or terminal: two of its places follow from the link.
LEMMA CheckFits ==
    ASSUME NEW row, row.len \in Nat
    PROVE  /\ Row!CheckRefusal(row) # "panic"
           /\ Row!CheckRefusal(row) = Null => Fit(Row!CheckFields(row), row.len)
<1>1. Row!CheckRefusal(row) # "panic"
  BY Tests, NullAssumption
  DEF Row!CheckRefusal, Row!Framed, Row!Kind, Row!Read, Row!Reference, Row!References, Row!HasAmount,
      Row!Unless, Row!CheckSource, Row!CheckEditSequence
<1>2. ASSUME Row!CheckRefusal(row) = Null PROVE Fit(Row!CheckFields(row), row.len)
  <2>1. row.len >= 85
    BY <1>2, Tests, NullAssumption
    DEF Row!CheckRefusal, Row!Framed, Row!Unless
  <2> QED
    BY <2>1 DEF Fit, FieldsOf, Apart, Row!CheckFields, Row!Field, Row!CheckSource, Row!CheckEditSequence
<1> QED  BY <1>1, <1>2

\* The same of the tests of an account row.
LEMMA ChartTests ==
    \A x, y : /\ (Chart!??(x, y) = Null <=> x = Null /\ y = Null)
              /\ (Chart!??(x, y) = "panic" <=> x = "panic" \/ (x = Null /\ y = "panic"))
  BY NullAssumption DEF Chart!??

\* A companion of a voided check.
LEMMA CompanionFits ==
    ASSUME NEW row, row.len \in Nat
    PROVE  /\ Row!CompanionRefusal(row) # "panic"
           /\ Row!CompanionRefusal(row) = Null => Fit(Row!CompanionFields(row), row.len)
<1>1. Row!CompanionRefusal(row) # "panic"
  BY Tests, NullAssumption
  DEF Row!CompanionRefusal, Row!Framed, Row!Kind, Row!Read, Row!References, Row!Unless, Row!CompanionLengths
<1>2. ASSUME Row!CompanionRefusal(row) = Null PROVE Fit(Row!CompanionFields(row), row.len)
  <2>1. row.len >= 185
    BY <1>2, Tests, NullAssumption
    DEF Row!CompanionRefusal, Row!Framed, Row!Unless, Row!CompanionLengths
  <2> QED
    BY <2>1, NullAssumption DEF Fit, FieldsOf, Apart, Row!CompanionFields, Row!Field
<1> QED  BY <1>1, <1>2

\* A deposit line, linked or terminal.
LEMMA DepositFits ==
    ASSUME NEW row, row.len \in Nat
    PROVE  /\ Row!DepositRefusal(row) # "panic"
           /\ Row!DepositRefusal(row) = Null => Fit(Row!DepositFields(row), row.len)
<1>1. Row!DepositRefusal(row) # "panic"
  BY Tests, NullAssumption
  DEF Row!DepositRefusal, Row!Framed, Row!Kind, Row!Read, Row!Reference, Row!HasAmount, Row!Unless,
      Row!DepositSource, Row!DepositAmount, Row!DepositLinked
<1>2. ASSUME Row!DepositRefusal(row) = Null PROVE Fit(Row!DepositFields(row), row.len)
  <2>1. row.len >= Row!DepositAmount(row) + 2
    BY <1>2, Tests, NullAssumption
    DEF Row!DepositRefusal, Row!Framed, Row!Unless
  <2> QED
    BY <2>1, NullAssumption DEF Fit, FieldsOf, Apart, Row!DepositFields, Row!Field, Row!DepositSource,
                                Row!DepositAmount, Row!DepositLinked
<1> QED  BY <1>1, <1>2

\* The counterpart of a deposit.
LEMMA CounterpartFits ==
    ASSUME NEW row, row.len \in Nat
    PROVE  /\ Row!CounterpartRefusal(row) # "panic"
           /\ Row!CounterpartRefusal(row) = Null => Fit(Row!CounterpartFields(row), row.len)
<1>1. Row!CounterpartRefusal(row) # "panic"
  BY Tests, NullAssumption
  DEF Row!CounterpartRefusal, Row!Framed, Row!Kind, Row!Read, Row!Reference, Row!HasAmount, Row!Unless,
      Row!CounterpartAccount
<1>2. ASSUME Row!CounterpartRefusal(row) = Null PROVE Fit(Row!CounterpartFields(row), row.len)
  <2>1. row.len >= Row!CounterpartAccount(row) + 4 + 5 + 2
    BY <1>2, Tests, NullAssumption
    DEF Row!CounterpartRefusal, Row!Framed, Row!Unless
  <2> QED
    BY <2>1, NullAssumption DEF Fit, FieldsOf, Apart, Row!CounterpartFields, Row!Field,
                                Row!CounterpartAccount
<1> QED  BY <1>1, <1>2

\* A bill payment, of either of its link shapes.
LEMMA PaymentFits ==
    ASSUME NEW row, row.len \in Nat
    PROVE  /\ Row!PaymentRefusal(row) # "panic"
           /\ Row!PaymentRefusal(row) = Null => Fit(Row!PaymentFields(row), row.len)
<1>1. Row!PaymentRefusal(row) # "panic"
  BY Tests, NullAssumption
  DEF Row!PaymentRefusal, Row!Framed, Row!Kind, Row!Read, Row!Reference, Row!References, Row!HasAmount,
      Row!Unless, Row!PaymentSource, Row!PaymentPlace
<1>2. ASSUME Row!PaymentRefusal(row) = Null PROVE Fit(Row!PaymentFields(row), row.len)
  <2>1. row.len >= Row!PaymentPlace(Row!PaymentShape(row)) + 2
    BY <1>2, Tests, NullAssumption
    DEF Row!PaymentRefusal, Row!Framed, Row!Unless
  <2> QED
    BY <2>1, NullAssumption DEF Fit, FieldsOf, Apart, Row!PaymentFields, Row!Field, Row!PaymentSource,
                                Row!PaymentPlace
<1> QED  BY <1>1, <1>2

\* A bill line.
LEMMA BillFits ==
    ASSUME NEW row, row.len \in Nat
    PROVE  /\ Row!BillRefusal(row) # "panic"
           /\ Row!BillRefusal(row) = Null => Fit(Row!BillFields(row), row.len)
<1>1. Row!BillRefusal(row) # "panic"
  BY Tests, NullAssumption
  DEF Row!BillRefusal, Row!Framed, Row!Kind, Row!Class, Row!Read, Row!References, Row!HasAmount, Row!Unless
<1>2. ASSUME Row!BillRefusal(row) = Null PROVE Fit(Row!BillFields(row), row.len)
  <2>1. row.len >= 41
    BY <1>2, Tests, NullAssumption
    DEF Row!BillRefusal, Row!Framed, Row!Unless
  <2> QED
    BY <2>1, NullAssumption DEF Fit, FieldsOf, Apart, Row!BillFields, Row!Field
<1> QED  BY <1>1, <1>2

\* The header of a bill.
LEMMA BillHeaderFits ==
    ASSUME NEW row, row.len \in Nat
    PROVE  /\ Row!BillHeaderRefusal(row) # "panic"
           /\ Row!BillHeaderRefusal(row) = Null => Fit(Row!BillHeaderFields(row), row.len)
<1>1. Row!BillHeaderRefusal(row) # "panic"
  BY Tests, NullAssumption
  DEF Row!BillHeaderRefusal, Row!Framed, Row!Kind, Row!Class, Row!Read, Row!Reference, Row!Unless
<1>2. ASSUME Row!BillHeaderRefusal(row) = Null PROVE Fit(Row!BillHeaderFields(row), row.len)
  <2>1. row.len >= 11
    BY <1>2, Tests, NullAssumption
    DEF Row!BillHeaderRefusal, Row!Framed, Row!Unless
  <2> QED
    BY <2>1, NullAssumption DEF Fit, FieldsOf, Apart, Row!BillHeaderFields, Row!Field
<1> QED  BY <1>1, <1>2

\* A transaction master: its prefixes announce fields that end in the row.
LEMMA MasterFits ==
    ASSUME NEW row, row.len \in Nat, \A o \in {22, 55} : row.prefix[o] \in Nat
    PROVE  /\ Row!MasterRefusal(row) # "panic"
           /\ Row!MasterRefusal(row) = Null => Fit(Row!MasterFields(row), row.len)
<1>1. Row!MasterRefusal(row) # "panic"
  BY Tests, NullAssumption
  DEF Row!MasterRefusal, Row!Framed, Row!Kind, Row!Read, Row!Unless, Row!PrefixFits, Row!Present
<1>2. ASSUME Row!MasterRefusal(row) = Null PROVE Fit(Row!MasterFields(row), row.len)
  <2>1. row.len >= 22 /\ Row!PrefixFits(row, 55)
    BY <1>2, Tests, NullAssumption
    DEF Row!MasterRefusal, Row!Framed, Row!Unless
  <2> QED
    BY <2>1, NullAssumption DEF Fit, FieldsOf, Apart, Row!MasterFields, Row!Field, Row!PrefixFits,
                                Row!Present
<1> QED  BY <1>1, <1>2

\* A source link of the journal.
LEMMA SourceLinkFits ==
    ASSUME NEW row, row.len \in Nat
    PROVE  /\ Row!SourceLinkRefusal(row) # "panic"
           /\ Row!SourceLinkRefusal(row) = Null => Fit(Row!SourceLinkFields(row), row.len)
<1>1. Row!SourceLinkRefusal(row) # "panic"
  BY Tests, NullAssumption
  DEF Row!SourceLinkRefusal, Row!Framed, Row!Kind, Row!Read, Row!Reference, Row!Unless
<1>2. ASSUME Row!SourceLinkRefusal(row) = Null PROVE Fit(Row!SourceLinkFields(row), row.len)
  <2>1. row.len = 33
    BY <1>2, Tests, NullAssumption
    DEF Row!SourceLinkRefusal, Row!Framed, Row!Unless
  <2> QED
    BY <2>1, NullAssumption DEF Fit, FieldsOf, Apart, Row!SourceLinkFields, Row!Field
<1> QED  BY <1>1, <1>2

\* A posting target of the journal.
LEMMA TargetFits ==
    ASSUME NEW row, row.len \in Nat
    PROVE  /\ Row!TargetRefusal(row) # "panic"
           /\ Row!TargetRefusal(row) = Null => Fit(Row!TargetFields(row), row.len)
<1>1. Row!TargetRefusal(row) # "panic"
  BY Tests, NullAssumption
  DEF Row!TargetRefusal, Row!Framed, Row!Kind, Row!Class, Row!Read, Row!Reference, Row!HasAmount,
      Row!Unless, Row!TargetAmount, Row!TargetLinked
<1>2. ASSUME Row!TargetRefusal(row) = Null PROVE Fit(Row!TargetFields(row), row.len)
  <2>1. row.len >= Row!TargetAmount(row) + 2
    BY <1>2, Tests, NullAssumption
    DEF Row!TargetRefusal, Row!Framed, Row!Unless
  <2> QED
    BY <2>1, NullAssumption DEF Fit, FieldsOf, Apart, Row!TargetFields, Row!Field, Row!TargetAmount,
                                Row!TargetLinked
<1> QED  BY <1>1, <1>2

\* An account: the places of its suffix follow from the lengths before them.
LEMMA AccountFits ==
    ASSUME NEW row, row.len \in Nat, {row.name, row.number, row.description} \subseteq Nat
    PROVE  /\ Chart!AccountRefusal(row) # "panic"
           /\ Chart!AccountRefusal(row) = Null => Fit(Chart!AccountFields(row), row.len)
<1>1. Chart!AccountRefusal(row) # "panic"
  BY ChartTests, NullAssumption
  DEF Chart!AccountRefusal, Chart!Framed, Chart!Read, Chart!Unless, Chart!AccountType
<1>2. ASSUME Chart!AccountRefusal(row) = Null PROVE Fit(Chart!AccountFields(row), row.len)
  <2>1. 37 + row.name <= row.len /\ Chart!AccountType(row) + 5 <= row.len
    BY <1>2, ChartTests, NullAssumption
    DEF Chart!AccountRefusal, Chart!Framed, Chart!Unless
  <2>2. /\ Chart!Suffix(row) = "NumberOnly" => Chart!NumberLength(row) + 1 + row.number <= row.len
        /\ Chart!Suffix(row) = "Both" => Chart!NumberLength(row) + 2 + row.number + row.description <= row.len
    BY <2>1 DEF Chart!Suffix, Chart!NumberLength, Chart!AccountType
  <2>3. /\ Chart!AccountType(row) = 64 + row.name /\ Chart!NumberLength(row) = 69 + row.name
        /\ row.name \in Nat /\ row.number \in Nat /\ row.description \in Nat
    BY DEF Chart!NumberLength, Chart!AccountType
  <2> QED
    BY <2>1, <2>2, <2>3, NullAssumption DEF Fit, FieldsOf, Apart, Chart!AccountFields, Chart!Field
<1> QED  BY <1>1, <1>2

\* Whatever the parser.
LEMMA ParsedFits ==
    ASSUME NEW x \in FixedRows
    PROVE  /\ Parsed(x.parser, x.row).refused # "panic"
           /\ Parsed(x.parser, x.row).refused = Null => Fit(Parsed(x.parser, x.row).fields, x.row.len)
<1>1. x.parser \in Parsers /\ x.row.len \in Nat
  BY RowsAssumption
<1>2. CASE x.parser = "check"
  BY <1>1, <1>2, CheckFits DEF Parsed, Row!Result
<1>3. CASE x.parser = "companion"
  BY <1>1, <1>3, CompanionFits DEF Parsed, Row!Result
<1>4. CASE x.parser = "deposit"
  BY <1>1, <1>4, DepositFits DEF Parsed, Row!Result
<1>5. CASE x.parser = "counterpart"
  BY <1>1, <1>5, CounterpartFits DEF Parsed, Row!Result
<1>6. CASE x.parser = "payment"
  BY <1>1, <1>6, PaymentFits DEF Parsed, Row!Result
<1>7. CASE x.parser = "bill"
  BY <1>1, <1>7, BillFits DEF Parsed, Row!Result
<1>8. CASE x.parser = "bill header"
  BY <1>1, <1>8, BillHeaderFits DEF Parsed, Row!Result
<1>9. CASE x.parser = "master"
  BY <1>1, <1>9, MasterFits, RowsAssumption DEF Parsed, Row!Result
<1>10. CASE x.parser = "source link"
  BY <1>1, <1>10, SourceLinkFits DEF Parsed, Row!Result
<1>11. CASE x.parser = "target"
  BY <1>1, <1>11, TargetFits DEF Parsed, Row!Result
<1>12. CASE x.parser = "account"
  BY <1>1, <1>12, AccountFits, RowsAssumption DEF Parsed, Row!Result
<1> QED  BY <1>1, <1>2, <1>3, <1>4, <1>5, <1>6, <1>7, <1>8, <1>9, <1>10, <1>11, <1>12 DEF Parsers

--------------------------------------------------------------------------------
(* Rows of the General Journal *)

\* What a row is that each of the grammars takes.
LEMMA Taken ==
    ASSUME NEW row
    PROVE  /\ Row!PostingRefusal(row) = Null =>
                /\ row.family \in Row!Families
                /\ row.third = "ff" \/ Row!ShortTerminal(row)
                /\ Row!LinkClass(row)
                /\ ~Row!JournalAmount(row).zero
           /\ Row!ZeroRefusal(row) = Null =>
                /\ row.family \in Row!Families /\ row.third = "ff" /\ row.class = 19
                /\ Row!MainAmount(row).zero
           /\ Row!SpecialRefusal(row) = Null =>
                Row!SpecialLayout(row) /\ ~row.special.amount.zero
           /\ Row!SourceRefusal(row) = Null => Row!SourceLayout(row)
<1>1. Row!PostingRefusal(row) = Null =>
        /\ row.family \in Row!Families
        /\ row.third = "ff" \/ Row!ShortTerminal(row)
        /\ Row!LinkClass(row)
        /\ ~Row!JournalAmount(row).zero
  BY Tests, NullAssumption DEF Row!PostingRefusal, Row!Unless
<1>2. Row!ZeroRefusal(row) = Null =>
        /\ row.family \in Row!Families /\ row.third = "ff" /\ row.class = 19
        /\ Row!MainAmount(row).zero
  BY Tests, NullAssumption DEF Row!ZeroRefusal, Row!Unless, Row!Declines
<1>3. Row!SpecialRefusal(row) = Null => Row!SpecialLayout(row) /\ ~row.special.amount.zero
  BY Tests, NullAssumption DEF Row!SpecialRefusal, Row!Unless, Row!Declines
<1>4. Row!SourceRefusal(row) = Null => Row!SourceLayout(row)
  BY Tests, NullAssumption DEF Row!SourceRefusal, Row!Unless, Row!Declines
<1> QED  BY <1>1, <1>2, <1>3, <1>4

\* No two of them take the same row.
LEMMA TakersDiffer ==
    ASSUME NEW row
    PROVE  \A p, q \in Row!Takers(row) : p = q
<1> DEFINE P == Row!PostingRefusal(row) = Null
           Z == Row!ZeroRefusal(row) = Null
           S == Row!SpecialRefusal(row) = Null
           L == Row!SourceRefusal(row) = Null
<1>1. L => row.family \in {"60", "64"}
  BY Taken DEF Row!SourceLayout, Row!HeaderFamily, Row!Layout
<1>2. S => row.family = "e0" /\ (row.third = "9f" \/ row.class = 3)
  BY Taken DEF Row!SpecialLayout
<1>3. ~(Z /\ P)
  <2>1. SUFFICES ASSUME Z, P PROVE FALSE
    OBVIOUS
  <2>2. Row!JournalAmount(row) = Row!MainAmount(row)
    BY <2>1, Taken DEF Row!JournalAmount, Row!ShortTerminal, Row!PrebaseVariant
  <2> QED  BY <2>1, <2>2, Taken
<1>4. ~(Z /\ S)
  BY <1>2, Taken
<1>5. ~(P /\ S)
  BY <1>2, Taken DEF Row!ShortTerminal, Row!LinkClass, Row!PrebaseVariant
<1>6. ~(L /\ (P \/ Z \/ S))
  BY <1>1, <1>2, Taken DEF Row!Families
<1> QED  BY <1>3, <1>4, <1>5, <1>6 DEF Row!Takers

\* A row of the layouts that are set aside is no source.
LEMMA ResidualIsNoSource ==
    ASSUME NEW row, Row!RowDisposition(row) = "residual"
    PROVE  "source" \notin Row!Takers(row)
<1>1. \A x, y : Row!??(x, y) = "residual" => x = "residual" \/ y = "residual"
  BY DEF Row!??
<1>2. Row!Identity(row, 11, 15, 19) # "residual" /\ Row!Identity(row, 11, 15, 29) # "residual"
      /\ Row!Header(row) # "residual" /\ Row!Dated(row) # "residual"
      /\ Row!Lifecycle(row) # "residual"
  BY <1>1, NullAssumption
  DEF Row!Identity, Row!Header, Row!Framed, Row!Kind, Row!Reference, Row!Read, Row!Dated, Row!Lifecycle, Row!Unless
<1>3. Row!ZeroRefusal(row) # "residual" /\ Row!SpecialRefusal(row) # "residual" /\ Row!SourceRefusal(row) # "residual"
  BY <1>1, <1>2, NullAssumption
  DEF Row!ZeroRefusal, Row!SpecialRefusal, Row!SourceRefusal, Row!Selected, Row!Read, Row!Unless, Row!Declines
<1>4. Row!Residual(row)
  BY <1>3 DEF Row!RowDisposition, Row!Found
<1> QED  BY <1>4, Taken DEF Row!Residual, Row!SourceLayout, Row!HeaderFamily, Row!Layout, Row!Takers

\* A header is of a family that none of the four grammars takes.
LEMMA WitnessIsNoRow ==
    ASSUME NEW row, Row!WitnessRefusal(row) = Null
    PROVE  Row!Takers(row) = {}
<1>1. row.family = "a7"
  BY Tests, NullAssumption DEF Row!WitnessRefusal, Row!Unless
<1>2. Row!PostingRefusal(row) # Null /\ Row!ZeroRefusal(row) # Null
  BY <1>1, Taken DEF Row!Families
<1>3. Row!SpecialRefusal(row) # Null
  BY <1>1, Taken DEF Row!SpecialLayout
<1>4. Row!SourceRefusal(row) # Null
  BY <1>1, Taken DEF Row!SourceLayout, Row!HeaderFamily, Row!Layout
<1> QED  BY <1>2, <1>3, <1>4 DEF Row!Takers

\* A posting and a source have their fields in the thirty-three bytes that every
\* header has.
LEMMA JournalFits ==
    ASSUME NEW row, row.len \in Nat
    PROVE  /\ "posting" \in Row!Takers(row) => Fit(Row!JournalFields(row), row.len)
           /\ "source" \in Row!Takers(row) => Fit(Row!SourceFields(row), row.len)
<1>1. Row!Header(row) = Null => row.len >= 33
  BY Tests, NullAssumption DEF Row!Header, Row!Framed, Row!Unless
<1>2. ASSUME "posting" \in Row!Takers(row) PROVE Fit(Row!JournalFields(row), row.len)
  <2>1. row.len >= 33
    BY <1>1, <1>2, Tests DEF Row!Takers, Row!PostingRefusal
  <2> QED  BY <2>1, NullAssumption DEF Fit, FieldsOf, Apart, Row!JournalFields, Row!Field
<1>3. ASSUME "source" \in Row!Takers(row) PROVE Fit(Row!SourceFields(row), row.len)
  <2>1. row.len >= 33
    BY <1>1, <1>3, Tests DEF Row!Takers, Row!SourceRefusal
  <2> QED  BY <2>1, NullAssumption DEF Fit, FieldsOf, Apart, Row!SourceFields, Row!Field
<1> QED  BY <1>2, <1>3

\* Rows are read in one way: a parser stays inside a row and takes no byte
\* twice, and no row has two grammars (the parsers of materialized_*.rs).
THEOREM OneReading == Spec => []RowsReadOneWay
<1>1. ASSUME Asked PROVE RowsReadOneWay
  <2>1. FieldsFit
    BY <1>1, ParsedFits DEF Asked, FieldsFit
  <2>2. OneGrammar
    BY <1>1, TakersDiffer, ResidualIsNoSource, WitnessIsNoRow, JournalFits, JournalRowsAssumption
    DEF Asked, OneGrammar
  <2> QED  BY <2>1, <2>2 DEF RowsReadOneWay
<1> QED  BY <1>1, AskedAlways, PTL

--------------------------------------------------------------------------------
(* Keys *)

\* An order and its reverse have the same places.
LEMMA Mirror ==
    ASSUME NEW seq, Len(seq) \in Nat, DOMAIN seq = 1..Len(seq)
    PROVE  /\ DOMAIN Reversed(seq) = DOMAIN seq
           /\ \A i \in DOMAIN seq : Len(seq) + 1 - i \in DOMAIN seq /\ Reversed(seq)[Len(seq) + 1 - i] = seq[i]
           /\ \A i \in DOMAIN seq : Reversed(seq)[i] = seq[Len(seq) + 1 - i]
  BY DEF Reversed

\* The ledgers that the relaxed candidates come to, by their places in an order.
Tried(x, order) ==
    {i \in DOMAIN order : /\ order[i] \in Select!RelaxedCandidates(x.witnessed, x.evidence)
                          /\ Select!LedgerOf(x.evidence[order[i]]) # Null}
TriedLedgers(x, order) ==
    [i \in Tried(x, order) |-> [context |-> order[i], balances |-> x.evidence[order[i]].balances]]
BalancedAt(x, order) == {i \in Tried(x, order) : x.evidence[order[i]].balances}

LEMMA BalancedIs ==
    ASSUME NEW x, NEW order
    PROVE  Select!Balanced(TriedLedgers(x, order)) = BalancedAt(x, order)
  BY DEF Select!Balanced, TriedLedgers, BalancedAt

\* What is selected of them: nothing, the only one that balances, or no one.
LEMMA SelectedOf ==
    ASSUME NEW x, NEW order
    PROVE  Select!SelectBalanced(TriedLedgers(x, order)) =
              IF BalancedAt(x, order) = {} THEN Select!None
              ELSE IF \A i, j \in BalancedAt(x, order) : i = j
              THEN [refused |-> Null, context |-> order[CHOOSE i \in BalancedAt(x, order) : TRUE]]
              ELSE [refused |-> "multiple"]
<1>1. ASSUME BalancedAt(x, order) # {}
      PROVE  TriedLedgers(x, order)[CHOOSE i \in BalancedAt(x, order) : TRUE].context
                = order[CHOOSE i \in BalancedAt(x, order) : TRUE]
  BY <1>1 DEF BalancedAt, TriedLedgers
<1> QED  BY <1>1, BalancedIs DEF Select!SelectBalanced, Select!Selected

\* The order does not matter to it.
LEMMA AnyOrder ==
    ASSUME NEW x \in KeyEvidence
    PROVE  Select!SelectBalanced(TriedLedgers(x, Reversed(x.order)))
              = Select!SelectBalanced(TriedLedgers(x, x.order))
<1> DEFINE s == x.order
           r == Reversed(x.order)
           n == Len(x.order)
<1>1. n \in Nat /\ DOMAIN s = 1..n
  BY KeysAssumption
<1>2. /\ DOMAIN r = DOMAIN s
      /\ \A i \in DOMAIN s : n + 1 - i \in DOMAIN s /\ r[n + 1 - i] = s[i] /\ r[i] = s[n + 1 - i]
  BY <1>1, Mirror
<1> HIDE DEF s, r, n
<1>3. \A i \in BalancedAt(x, s) : n + 1 - i \in BalancedAt(x, r)
  BY <1>2 DEF BalancedAt, Tried
<1>4. \A i \in BalancedAt(x, r) : n + 1 - i \in BalancedAt(x, s)
  BY <1>1, <1>2 DEF BalancedAt, Tried
<1>5. BalancedAt(x, s) \subseteq 1..n /\ BalancedAt(x, r) \subseteq 1..n
  BY <1>1, <1>2 DEF BalancedAt, Tried
<1>6. (\A i, j \in BalancedAt(x, s) : i = j) <=> (\A i, j \in BalancedAt(x, r) : i = j)
  <2>1. ASSUME \A i, j \in BalancedAt(x, s) : i = j, NEW i \in BalancedAt(x, r), NEW j \in BalancedAt(x, r)
        PROVE  i = j
    BY <1>1, <1>4, <1>5, <2>1
  <2>2. ASSUME \A i, j \in BalancedAt(x, r) : i = j, NEW i \in BalancedAt(x, s), NEW j \in BalancedAt(x, s)
        PROVE  i = j
    BY <1>1, <1>3, <1>5, <2>2
  <2> QED  BY <2>1, <2>2
<1>7. ASSUME BalancedAt(x, s) # {}, \A i, j \in BalancedAt(x, s) : i = j
      PROVE  s[CHOOSE i \in BalancedAt(x, s) : TRUE] = r[CHOOSE i \in BalancedAt(x, r) : TRUE]
  <2>1. PICK i \in BalancedAt(x, s) : TRUE
    BY <1>7
  <2>2. n + 1 - i \in BalancedAt(x, r) /\ i \in DOMAIN s
    BY <1>3, <1>1, <1>5
  <2>3. (CHOOSE k \in BalancedAt(x, s) : TRUE) = i
    BY <1>7, <2>1
  <2>4. (CHOOSE k \in BalancedAt(x, r) : TRUE) = n + 1 - i
    BY <1>6, <1>7, <2>2
  <2> QED  BY <1>2, <2>2, <2>3, <2>4
<1>8. BalancedAt(x, s) = {} <=> BalancedAt(x, r) = {}
  BY <1>3, <1>4
<1>9. Select!SelectBalanced(TriedLedgers(x, s)) =
        IF BalancedAt(x, s) = {} THEN Select!None
        ELSE IF \A i, j \in BalancedAt(x, s) : i = j
        THEN [refused |-> Null, context |-> s[CHOOSE i \in BalancedAt(x, s) : TRUE]]
        ELSE [refused |-> "multiple"]
  BY SelectedOf
<1>10. Select!SelectBalanced(TriedLedgers(x, r)) =
        IF BalancedAt(x, r) = {} THEN Select!None
        ELSE IF \A i, j \in BalancedAt(x, r) : i = j
        THEN [refused |-> Null, context |-> r[CHOOSE i \in BalancedAt(x, r) : TRUE]]
        ELSE [refused |-> "multiple"]
  BY SelectedOf
<1>11. Select!SelectBalanced(TriedLedgers(x, r)) = Select!SelectBalanced(TriedLedgers(x, s))
  BY <1>6, <1>7, <1>8, <1>9, <1>10
<1> QED  BY <1>11 DEF s, r

\* Sizes are sizes, whichever module counts them.
LEMMA SizesAre == \A S : Select!Cardinality(S) = Cardinality(S)
  BY DEF Cardinality, Select!Cardinality

\* The choice, with the candidates named.
Strict(x) == Select!StrictCandidates(x.witnessed, x.evidence)
Only(x) == CHOOSE c \in Strict(x) : TRUE
LEMMA ChosenIs ==
    ASSUME NEW x, NEW order
    PROVE  Select!Chosen(x.witnessed, x.evidence, order) =
              IF x.witnessed = {} THEN [refused |-> "StructuralDiscoveryFailed"]
              ELSE IF Cardinality(Strict(x)) > 1 THEN [refused |-> "AmbiguousSemanticCandidates"]
              ELSE IF Strict(x) = {} THEN Select!SelectBalanced(TriedLedgers(x, order))
              ELSE IF Select!LedgerOf(x.evidence[Only(x)]) = Null THEN [refused |-> "incomplete"]
              ELSE [refused |-> Null, context |-> Only(x)]
<1> DEFINE strict == Select!StrictCandidates(x.witnessed, x.evidence)
           tried == {i \in DOMAIN order : /\ order[i] \in Select!RelaxedCandidates(x.witnessed, x.evidence)
                                          /\ Select!LedgerOf(x.evidence[order[i]]) # Null}
           ledgers == [i \in tried |-> [context |-> order[i], balances |-> x.evidence[order[i]].balances]]
<1>1. Select!Chosen(x.witnessed, x.evidence, order) =
        IF x.witnessed = {} THEN [refused |-> "StructuralDiscoveryFailed"]
        ELSE IF Select!Cardinality(strict) > 1 THEN [refused |-> "AmbiguousSemanticCandidates"]
        ELSE IF strict = {} THEN Select!SelectBalanced(ledgers)
        ELSE IF Select!LedgerOf(x.evidence[CHOOSE c \in strict : TRUE]) = Null THEN [refused |-> "incomplete"]
        ELSE [refused |-> Null, context |-> CHOOSE c \in strict : TRUE]
  BY DEF Select!Chosen
<1>2. ledgers = TriedLedgers(x, order)
  BY DEF TriedLedgers, Tried
<1> QED  BY <1>1, <1>2, SizesAre DEF Strict, Only

\* A relaxed candidate is one that was witnessed, or the pair of two that were.
LEMMA RelaxedIs ==
    ASSUME NEW x \in KeyEvidence, NEW c \in Select!RelaxedCandidates(x.witnessed, x.evidence)
    PROVE  /\ \E p \in Select!Profiles : Select!Rejection(p, x.evidence[c]) = Null
           /\ \/ c \in x.witnessed
              \/ \E k \in x.witnessed : Select!Neighbour(k) \in x.witnessed /\ c = Select!Pair(k)
           /\ c \in x.witnessed =>
                \A k \in x.witnessed :
                   Select!Rejection("AccountingReadinessPageFloor", x.evidence[k]) = Null
                      => k \in Select!RelaxedCandidates(x.witnessed, x.evidence)
<1> DEFINE relaxed(k) == Select!Rejection("AccountingReadinessPageFloor", x.evidence[k])
           alone == {k \in x.witnessed : relaxed(k) = Null}
           pairs == {Select!Pair(k) : k \in {k \in x.witnessed : Select!Eligible(k, x.witnessed, relaxed(k))}}
<1>1. Select!RelaxedCandidates(x.witnessed, x.evidence) =
        IF alone # {} THEN alone
        ELSE {p \in pairs : \E profile \in Select!Profiles : Select!Rejection(profile, x.evidence[p]) = Null}
  BY DEF Select!RelaxedCandidates
<1>2. CASE alone # {}
  BY <1>1, <1>2 DEF Select!Profiles
<1>3. CASE alone = {}
  <2>1. PICK k \in x.witnessed : c = Select!Pair(k) /\ Select!Eligible(k, x.witnessed, relaxed(k))
    BY <1>1, <1>3
  <2>2. c.adjacent
    BY <2>1, KeysAssumption DEF Select!Pair
  <2>3. c \notin x.witnessed
    BY <2>2, KeysAssumption
  <2> QED  BY <1>1, <1>3, <2>1, <2>3 DEF Select!Eligible
<1> QED  BY <1>2, <1>3

\* A ledger is built with one strict candidate, or without any with the only
\* relaxed one whose ledger balances.
LEMMA OneOfTwoWays ==
    ASSUME NEW x \in KeyEvidence, NEW c,
           Select!Chosen(x.witnessed, x.evidence, x.order).refused = Null,
           c = Select!Chosen(x.witnessed, x.evidence, x.order).context
    PROVE  /\ Select!LedgerOf(x.evidence[c]) # Null
           /\ \/ Strict(x) = {c}
              \/ /\ Strict(x) = {}
                 /\ c \in Select!RelaxedCandidates(x.witnessed, x.evidence)
                 /\ x.evidence[c].balances
                 /\ \A k \in x.witnessed :
                       /\ k \in Select!RelaxedCandidates(x.witnessed, x.evidence)
                       /\ Select!LedgerOf(x.evidence[k]) # Null
                       /\ x.evidence[k].balances
                       => k = c
<1> DEFINE chosen == Select!Chosen(x.witnessed, x.evidence, x.order)
<1>1. chosen = IF x.witnessed = {} THEN [refused |-> "StructuralDiscoveryFailed"]
               ELSE IF Cardinality(Strict(x)) > 1 THEN [refused |-> "AmbiguousSemanticCandidates"]
               ELSE IF Strict(x) = {} THEN Select!SelectBalanced(TriedLedgers(x, x.order))
               ELSE IF Select!LedgerOf(x.evidence[Only(x)]) = Null THEN [refused |-> "incomplete"]
               ELSE [refused |-> Null, context |-> Only(x)]
  BY ChosenIs
<1>2. chosen.refused = Null /\ c = chosen.context
  OBVIOUS
<1> HIDE DEF chosen
<1>3. ~(Cardinality(Strict(x)) > 1) /\ x.witnessed # {}
  BY <1>1, <1>2, KeysAssumption
<1>4. CASE Strict(x) # {}
  <2>1. c = Only(x) /\ Select!LedgerOf(x.evidence[c]) # Null
    BY <1>1, <1>2, <1>3, <1>4, KeysAssumption
  <2>2. IsFiniteSet(Strict(x))
    BY KeysAssumption, FS_Subset DEF Strict, Select!StrictCandidates
  <2>3. Cardinality(Strict(x)) = 1
    BY <1>3, <1>4, <2>2, FS_EmptySet, FS_CardinalityType
  <2>4. PICK k : Strict(x) = {k}
    BY <2>2, <2>3, FS_Singleton
  <2> QED  BY <2>1, <2>4 DEF Only
<1>5. CASE Strict(x) = {}
  <2> DEFINE B == BalancedAt(x, x.order)
             s == x.order
  <2>1. chosen = IF B = {} THEN Select!None
                 ELSE IF \A i, j \in B : i = j THEN [refused |-> Null, context |-> s[CHOOSE i \in B : TRUE]]
                 ELSE [refused |-> "multiple"]
    BY <1>1, <1>3, <1>5, SelectedOf
  <2>2. B # {} /\ \A i, j \in B : i = j
    <3> HIDE DEF B
    <3> QED  BY <1>2, <2>1, KeysAssumption DEF Select!None
  <2>3. PICK i \in B : c = s[i]
    <3> HIDE DEF B, s
    <3> QED  BY <1>2, <2>1, <2>2
  <2>4. ASSUME NEW k \in x.witnessed, k \in Select!RelaxedCandidates(x.witnessed, x.evidence),
               Select!LedgerOf(x.evidence[k]) # Null, x.evidence[k].balances
        PROVE  k = c
    <3>1. PICK j \in DOMAIN s : s[j] = k
      BY KeysAssumption
    <3>2. j \in B
      BY <2>4, <3>1 DEF BalancedAt, Tried
    <3> QED  BY <2>2, <2>3, <3>1, <3>2
  <2>5. /\ c \in Select!RelaxedCandidates(x.witnessed, x.evidence)
        /\ Select!LedgerOf(x.evidence[c]) # Null /\ x.evidence[c].balances
    BY <2>3 DEF BalancedAt, Tried
  <2> QED  BY <1>5, <2>4, <2>5
<1> QED  BY <1>4, <1>5

\* What a manifest refuses: some table that is not the known one.
LEMMA ManifestIs ==
    ASSUME NEW columns \in SchemaColumns
    PROVE  Select!ManifestRefusal(columns, [t \in {1, 2} |-> [count |-> 2, metadata |-> Manifest(t)]]) = Null
              <=> columns = Manifest(1) \cup Manifest(2)
<1> DEFINE manifest == [t \in {1, 2} |-> [count |-> 2, metadata |-> Manifest(t)]]
           found(t) == {c \in columns : c[1] = t}
           wrong(t) ==
              CASE Select!Cardinality(found(t)) # manifest[t].count -> "ColumnCountMismatch"
                [] /\ Select!Cardinality(found(t)) = manifest[t].count
                   /\ {c[2] : c \in found(t)} # 1..manifest[t].count -> "OrdinalMismatch"
                [] /\ Select!Cardinality(found(t)) = manifest[t].count
                   /\ {c[2] : c \in found(t)} = 1..manifest[t].count
                   /\ found(t) # manifest[t].metadata -> "FingerprintMismatch"
                [] OTHER -> Null
           failing == {t \in DOMAIN manifest : wrong(t) # Null}
<1>1. Select!ManifestRefusal(columns, manifest)
        = IF failing = {} THEN Null ELSE wrong(CHOOSE t \in failing : \A u \in failing : t <= u)
  BY DEF Select!ManifestRefusal
<1>2. ASSUME NEW t \in {1, 2} PROVE wrong(t) = Null <=> found(t) = Manifest(t)
  <2>1. manifest[t].count = 2 /\ manifest[t].metadata = Manifest(t)
    OBVIOUS
  <2>2. found(t) = Manifest(t) => Select!Cardinality(found(t)) = 2 /\ {c[2] : c \in found(t)} = 1..2
    BY KeysAssumption, SizesAre
  <2> HIDE DEF found, manifest
  <2> QED  BY <2>1, <2>2, KeysAssumption
<1>3. failing = {} <=> \A t \in {1, 2} : found(t) = Manifest(t)
  <2> HIDE DEF found, wrong
  <2> QED  BY <1>2
<1>4. failing # {} => \E t \in failing : \A u \in failing : t <= u
  <2> HIDE DEF wrong
  <2> QED  OBVIOUS
<1>5. Select!ManifestRefusal(columns, manifest) = Null <=> failing = {}
  <2> HIDE DEF wrong
  <2> QED  BY <1>1, <1>4
<1>6. (\A t \in {1, 2} : found(t) = Manifest(t)) <=> columns = Manifest(1) \cup Manifest(2)
  BY KeysAssumption
<1> QED  BY <1>3, <1>5, <1>6

\* A key is chosen on what it and the others show, never on their order, and the
\* schema that goes with it is the supported one (local_ledger.rs,
\* enterprise24_schema_manifest.rs).
THEOREM OneKey == Spec => []KeyUndisputed
<1>1. ASSUME Asked, task = "key" PROVE KeyUndisputed
  <2> DEFINE x == input
             out == Select!Chosen(input.witnessed, input.evidence, input.order)
  <2>1. x \in KeyEvidence /\ output = out
    BY <1>1 DEF Asked
  <2>2. Select!Chosen(input.witnessed, input.evidence, Reversed(input.order)) = output
    BY <2>1, ChosenIs, AnyOrder
  <2>3. ASSUME output.refused = Null, NEW c, c = output.context
        PROVE  /\ PassedBy(c) /\ Select!LedgerOf(input.evidence[c]) # Null
               /\ c \in input.witnessed
                  \/ \E k \in input.witnessed : Select!Neighbour(k) \in input.witnessed /\ c = Select!Pair(k)
               /\ \A k \in input.witnessed \ {c} : Select!Rejection("Strict", input.evidence[k]) # Null
               /\ \/ c \in input.witnessed /\ Select!Rejection("Strict", input.evidence[c]) = Null
                  \/ /\ input.evidence[c].balances
                     /\ c \in input.witnessed =>
                          \A k \in input.witnessed \ {c} :
                             PassedBy(k) /\ Select!LedgerOf(input.evidence[k]) # Null => ~input.evidence[k].balances
    <3>1. CASE Strict(x) = {c}
      BY <2>1, <2>3, <3>1, OneOfTwoWays DEF PassedBy, Select!Profiles, Strict, Select!StrictCandidates
    <3>2. CASE Strict(x) # {c}
      <4>1. /\ Strict(x) = {} /\ c \in Select!RelaxedCandidates(x.witnessed, x.evidence)
            /\ x.evidence[c].balances /\ Select!LedgerOf(x.evidence[c]) # Null
            /\ \A k \in x.witnessed :
                  /\ k \in Select!RelaxedCandidates(x.witnessed, x.evidence)
                  /\ Select!LedgerOf(x.evidence[k]) # Null
                  /\ x.evidence[k].balances
                  => k = c
        BY <2>1, <2>3, <3>2, OneOfTwoWays
      <4>2. \A k \in x.witnessed : Select!Rejection("Strict", x.evidence[k]) # Null
        BY <4>1 DEF Strict, Select!StrictCandidates
      <4>3. ASSUME c \in x.witnessed, NEW k \in x.witnessed \ {c}, PassedBy(k),
                   Select!LedgerOf(x.evidence[k]) # Null, x.evidence[k].balances
            PROVE  FALSE
        <5>1. Select!Rejection("AccountingReadinessPageFloor", x.evidence[k]) = Null
          BY <4>2, <4>3 DEF PassedBy, Select!Profiles
        <5> QED  BY <2>1, <4>1, <4>3, <5>1, RelaxedIs
      <4> QED  BY <2>1, <4>1, <4>2, <4>3, RelaxedIs DEF PassedBy
    <3> QED  BY <3>1, <3>2
  <2> QED  BY <1>1, <2>2, <2>3 DEF KeyUndisputed
<1>2. ASSUME Asked, task = "manifest" PROVE KeyUndisputed
  BY <1>2, ManifestIs DEF Asked, KeyUndisputed
<1>3. ASSUME task \notin {"key", "manifest"} PROVE KeyUndisputed
  BY <1>3 DEF KeyUndisputed
<1>4. Asked => KeyUndisputed
  BY <1>1, <1>2, <1>3
<1> QED  BY <1>4, AskedAlways, PTL
--------------------------------------------------------------------------------
(* The postings.  Both adapters of the catalog see a line as its cells, and  *)
(* a cell that is seen is that of the complete row.                          *)

\* A cell that a test lets through, and the refusals that a cell may stand for.
Good(cell) == cell # Null /\ cell.fault = Null
Faults == {Null, "AmbiguousColumn", "PartialSchemaProvenance"}
Cells(cell) == \A name \in Adapter!Names : cell[name] = Null \/ cell[name].fault \in Faults
Missing == {"MissingColumn", "PartialValueUnavailable"}
Refuses(answer) == answer # Null /\ answer.is = "refused"

\* A test either refuses or has found its cell.
LEMMA Tested ==
    ASSUME NEW cell, cell = Null \/ cell.fault \in Faults, NEW missing \in Missing, NEW layout
    PROVE  /\ Refuses(Adapter!Identifier(cell, missing))
              \/ (Adapter!Identifier(cell, missing) = Null /\ Good(cell))
           /\ Refuses(Adapter!Dated(cell, missing))
              \/ (Adapter!Dated(cell, missing) = Null /\ Good(cell))
           /\ Refuses(Adapter!Boolean(cell, missing))
              \/ (Adapter!Boolean(cell, missing) = Null /\ Good(cell))
           /\ Refuses(Adapter!Boolean(cell, Null))
              \/ (Adapter!Boolean(cell, Null) = Null /\ (cell = Null \/ Good(cell)))
           /\ Refuses(Adapter!Numeric(cell, missing))
              \/ (Adapter!Numeric(cell, missing) = Null /\ Good(cell))
           /\ Refuses(Adapter!Money(cell, missing, layout))
              \/ (/\ Adapter!Money(cell, missing, layout) = Null /\ Good(cell)
                  /\ cell.value.kind = "token" /\ cell.value.holds # Null)
<1> DEFINE Why == {"AmbiguousColumn", "InvalidPostingAmount", "InvalidPostingDate", "MissingColumn",
                   "NegativeIdentifier", "PartialSchemaProvenance", "PartialValueUnavailable",
                   "UnexpectedColumnType", "UnexpectedNumericLayout", "UnexpectedValueType", "ZeroIdentifier"}
<1>1. ASSUME NEW why \in Why PROVE why # Null /\ Adapter!Stop(why) # Null /\ Refuses(Adapter!Stop(why))
  BY AnswersAssumption DEF Adapter!Stop, Adapter!Refused, Refuses
<1>2. Adapter!Stop(Null) = Null
  BY DEF Adapter!Stop
<1>3. ASSUME NEW types, NEW last \in Why \cup {Null}, NEW absent \in Missing \cup {Null}
      PROVE  \/ Adapter!Holds(cell, absent, types, last) \in Why
             \/ Adapter!Holds(cell, absent, types, last) = Null /\ Good(cell) /\ last = Null
             \/ Adapter!Holds(cell, absent, types, last) = Null /\ cell = Null /\ absent = Null
  BY <1>1 DEF Adapter!Holds, Adapter!Unless, Adapter!??, Faults, Missing, Good
<1>4. \A a, b : /\ Adapter!Unless(a, b) = IF a THEN Null ELSE b
                /\ Adapter!??(a, b) = IF a # Null THEN a ELSE b
  BY DEF Adapter!Unless, Adapter!??
<1>5. missing # Null /\ missing \in Missing \cup {Null} /\ Null \in Missing \cup {Null}
  BY <1>1 DEF Missing
<1>6. \/ Refuses(Adapter!Identifier(cell, missing))
      \/ Adapter!Identifier(cell, missing) = Null /\ Good(cell)
  <2> DEFINE last == Adapter!??(Adapter!??(Adapter!Unless(cell.value.kind \in {"integer", "unsigned"}, "UnexpectedValueType"),
                                           Adapter!Unless(cell.value.holds >= 0, "NegativeIdentifier")),
                                Adapter!Unless(cell.value.holds # 0, "ZeroIdentifier"))
  <2>1. last \in Why \cup {Null}
    BY <1>4
  <2>2. Adapter!Identifier(cell, missing) = Adapter!Stop(Adapter!Holds(cell, missing, Adapter!IntegerTypes, last))
    BY DEF Adapter!Identifier
  <2> HIDE DEF Why, last
  <2>3. \/ Adapter!Holds(cell, missing, Adapter!IntegerTypes, last) \in Why
        \/ Adapter!Holds(cell, missing, Adapter!IntegerTypes, last) = Null /\ Good(cell) /\ last = Null
    BY <1>3, <1>5, <2>1
  <2> QED  BY <1>1, <1>2, <2>1, <2>2, <2>3
<1>7. \/ Refuses(Adapter!Dated(cell, missing))
      \/ Adapter!Dated(cell, missing) = Null /\ Good(cell)
  <2> DEFINE last == Adapter!??(Adapter!Unless(cell.value.kind = "date", "UnexpectedValueType"),
                                Adapter!Unless(cell.value.holds # Null, "InvalidPostingDate"))
  <2>1. last \in Why \cup {Null}
    BY <1>4
  <2>2. Adapter!Dated(cell, missing) = Adapter!Stop(Adapter!Holds(cell, missing, {"Date"}, last))
    BY DEF Adapter!Dated
  <2> HIDE DEF Why, last
  <2>3. \/ Adapter!Holds(cell, missing, {"Date"}, last) \in Why
        \/ Adapter!Holds(cell, missing, {"Date"}, last) = Null /\ Good(cell) /\ last = Null
    BY <1>3, <1>5, <2>1
  <2> QED  BY <1>1, <1>2, <2>1, <2>2, <2>3
<1>8. ASSUME NEW none \in Missing \cup {Null}
      PROVE  \/ Refuses(Adapter!Boolean(cell, none))
             \/ Adapter!Boolean(cell, none) = Null /\ (Good(cell) \/ (cell = Null /\ none = Null))
  <2> DEFINE last == Adapter!Unless(cell.value.kind = "boolean", "UnexpectedValueType")
  <2>1. last \in Why \cup {Null}
    BY <1>4
  <2>2. Adapter!Boolean(cell, none) = Adapter!Stop(Adapter!Holds(cell, none, {"Boolean"}, last))
    BY DEF Adapter!Boolean
  <2> HIDE DEF Why, last
  <2>3. \/ Adapter!Holds(cell, none, {"Boolean"}, last) \in Why
        \/ Adapter!Holds(cell, none, {"Boolean"}, last) = Null /\ (Good(cell) \/ (cell = Null /\ none = Null))
    <3>1. none \in Missing \cup {Null}
      OBVIOUS
    <3> QED  BY <1>3, <2>1, <3>1
  <2> QED  BY <1>1, <1>2, <2>2, <2>3
<1>9. \/ Refuses(Adapter!Numeric(cell, missing))
      \/ Adapter!Numeric(cell, missing) = Null /\ Good(cell)
  <2> HIDE DEF Why
  <2>1. \/ Adapter!Holds(cell, missing, {"Numeric"}, Null) \in Why
        \/ Adapter!Holds(cell, missing, {"Numeric"}, Null) = Null /\ Good(cell)
    BY <1>3, <1>5
  <2> QED  BY <1>1, <1>2, <2>1 DEF Adapter!Numeric
<1>10. \/ Refuses(Adapter!Money(cell, missing, layout))
      \/ /\ Adapter!Money(cell, missing, layout) = Null /\ Good(cell)
         /\ cell.value.kind = "token" /\ cell.value.holds # Null
  <2> DEFINE last == Adapter!??(Adapter!??(Adapter!Unless(layout = "raw", "UnexpectedNumericLayout"),
                                           Adapter!Unless(cell.value.kind = "token", "UnexpectedValueType")),
                                Adapter!Unless(cell.value.holds # Null, "InvalidPostingAmount"))
  <2>1. last \in Why \cup {Null} /\ (last = Null => cell.value.kind = "token" /\ cell.value.holds # Null)
    BY <1>1, <1>4
  <2>2. Adapter!Money(cell, missing, layout) = Adapter!Stop(Adapter!Holds(cell, missing, {"Numeric"}, last))
    BY DEF Adapter!Money
  <2> HIDE DEF Why, last
  <2>3. \/ Adapter!Holds(cell, missing, {"Numeric"}, last) \in Why
        \/ Adapter!Holds(cell, missing, {"Numeric"}, last) = Null /\ Good(cell) /\ last = Null
    BY <1>3, <1>5, <2>1
  <2> QED  BY <1>1, <1>2, <2>1, <2>2, <2>3
<1> QED  BY <1>5, <1>6, <1>7, <1>8, <1>9, <1>10

\* What an adapter answers that does not refuse: the reason to leave the row out,
\* or the posting that its cells make.
Says(table, cell, answer) ==
    LET noPost == cell.is_no_post_bool
        memorized == cell.is_memorized_transaction_bool
        linking == Adapter!Flagged(cell.is_source_bool) /\ cell.amount_amt.value.kind = "null"
    IN \/ Refuses(answer)
       \/ Good(noPost) /\ noPost.value.holds /\ answer = Adapter!Excluded("NoPost")
       \/ /\ Good(noPost) /\ ~noPost.value.holds /\ Good(memorized) /\ memorized.value.holds
          /\ answer = Adapter!Excluded("MemorizedTransaction")
       \/ /\ Good(noPost) /\ ~noPost.value.holds /\ Good(memorized) /\ ~memorized.value.holds
          /\ Good(cell.is_source_bool) /\ Good(cell.amount_amt) /\ linking
          /\ answer = Adapter!Excluded("SourceOrLink")
       \/ /\ Good(noPost) /\ ~noPost.value.holds /\ Good(memorized) /\ ~memorized.value.holds
          /\ cell.is_source_bool = Null \/ Good(cell.is_source_bool)
          /\ ~linking
          /\ \A name \in {"target_id", "transaction_id", "account_id", "transaction_date", "amount_amt"} : Good(cell[name])
          /\ cell.amount_amt.value.kind = "token" /\ cell.amount_amt.value.holds # Null
          /\ table \in DOMAIN Adapter!FixedType
          /\ answer = Adapter!ToPosting(table, cell)

\* The gates that both adapters begin with.
Gated(cell, gate) ==
    LET noPost == cell.is_no_post_bool
        memorized == cell.is_memorized_transaction_bool
        linking == Adapter!Flagged(cell.is_source_bool) /\ cell.amount_amt.value.kind = "null"
    IN \/ Refuses(gate)
       \/ Good(noPost) /\ noPost.value.holds /\ gate = Adapter!Excluded("NoPost")
       \/ /\ Good(noPost) /\ ~noPost.value.holds /\ Good(memorized) /\ memorized.value.holds
          /\ gate = Adapter!Excluded("MemorizedTransaction")
       \/ /\ Good(noPost) /\ ~noPost.value.holds /\ Good(memorized) /\ ~memorized.value.holds
          /\ Good(cell.is_source_bool) /\ Good(cell.amount_amt) /\ linking
          /\ gate = Adapter!Excluded("SourceOrLink")
       \/ /\ Good(noPost) /\ ~noPost.value.holds /\ Good(memorized) /\ ~memorized.value.holds
          /\ cell.is_source_bool = Null \/ Good(cell.is_source_bool)
          /\ ~linking /\ Good(cell.target_id) /\ Good(cell.transaction_id)
          /\ gate = Null
LEMMA Gates ==
    ASSUME NEW cell, Cells(cell), NEW missing \in Missing
    PROVE  Gated(cell, Adapter!LogicalGates(cell, missing))
<1> DEFINE target == Adapter!Identifier(cell.target_id, missing)
           transaction == Adapter!Identifier(cell.transaction_id, missing)
           noPost == Adapter!Boolean(cell.is_no_post_bool, missing)
           noPostSet == cell.is_no_post_bool.value.holds
           memorized == Adapter!Boolean(cell.is_memorized_transaction_bool, missing)
           memorizedSet == cell.is_memorized_transaction_bool.value.holds
           source == Adapter!Boolean(cell.is_source_bool, Null)
           flagged == Adapter!Flagged(cell.is_source_bool)
           amount == Adapter!Numeric(cell.amount_amt, missing)
           none == cell.amount_amt.value.kind = "null"
           gate == Adapter!LogicalGates(cell, missing)
<1>1. gate = IF target # Null THEN target ELSE IF transaction # Null THEN transaction
             ELSE IF noPost # Null THEN noPost
             ELSE IF noPostSet THEN Adapter!Excluded("NoPost")
             ELSE IF memorized # Null THEN memorized
             ELSE IF memorizedSet THEN Adapter!Excluded("MemorizedTransaction")
             ELSE IF source # Null THEN source
             ELSE IF ~flagged THEN Null
             ELSE IF amount # Null THEN amount
             ELSE IF none THEN Adapter!Excluded("SourceOrLink")
             ELSE Null
  <2>1. \A why \in {"NoPost", "MemorizedTransaction", "SourceOrLink"} : \A b :
           Adapter!ExcludedIf(b, why) = IF b THEN Adapter!Excluded(why) ELSE Null
    BY DEF Adapter!ExcludedIf
  <2>2. \A a, b : Adapter!??(a, b) = IF a # Null THEN a ELSE b
    BY DEF Adapter!??
  <2>3. \A why \in {"NoPost", "MemorizedTransaction", "SourceOrLink"} : Adapter!Excluded(why) # Null
    BY AnswersAssumption
  <2>4. gate = Adapter!??(Adapter!??(Adapter!??(Adapter!??(Adapter!??(Adapter!??(Adapter!??(
                  target, transaction), noPost), Adapter!ExcludedIf(noPostSet, "NoPost")),
                  memorized), Adapter!ExcludedIf(memorizedSet, "MemorizedTransaction")), source),
                  IF flagged THEN Adapter!??(amount, Adapter!ExcludedIf(none, "SourceOrLink")) ELSE Null)
    BY DEF Adapter!LogicalGates
  <2> HIDE DEF target, transaction, noPost, noPostSet, memorized, memorizedSet, source, flagged, amount, none, gate
  <2> QED  BY <2>1, <2>2, <2>3, <2>4
<1>2. /\ Refuses(target) \/ (target = Null /\ Good(cell.target_id))
      /\ Refuses(transaction) \/ (transaction = Null /\ Good(cell.transaction_id))
      /\ Refuses(noPost) \/ (noPost = Null /\ Good(cell.is_no_post_bool))
      /\ Refuses(memorized) \/ (memorized = Null /\ Good(cell.is_memorized_transaction_bool))
      /\ Refuses(source) \/ (source = Null /\ (cell.is_source_bool = Null \/ Good(cell.is_source_bool)))
      /\ Refuses(amount) \/ (amount = Null /\ Good(cell.amount_amt))
  BY Tested DEF Cells, Adapter!Names
<1>3. flagged => cell.is_source_bool # Null
  BY DEF Adapter!Flagged
<1> SUFFICES Gated(cell, gate)
  OBVIOUS
<1> HIDE DEF target, transaction, noPost, memorized, source, amount, gate, flagged
<1>4. CASE ~(target = Null /\ transaction = Null /\ noPost = Null)
  BY <1>1, <1>2, <1>4 DEF Gated, Refuses
<1>5. CASE target = Null /\ transaction = Null /\ noPost = Null /\ noPostSet
  BY <1>1, <1>2, <1>5 DEF Gated, Refuses
<1>6. CASE target = Null /\ transaction = Null /\ noPost = Null /\ ~noPostSet /\ memorized # Null
  BY <1>1, <1>2, <1>6 DEF Gated, Refuses
<1>7. CASE target = Null /\ transaction = Null /\ noPost = Null /\ ~noPostSet /\ memorized = Null /\ memorizedSet
  BY <1>1, <1>2, <1>7 DEF Gated, Refuses
<1>8. CASE target = Null /\ transaction = Null /\ noPost = Null /\ ~noPostSet /\ memorized = Null /\ ~memorizedSet
  <2>1. gate = IF source # Null THEN source ELSE IF ~flagged THEN Null ELSE IF amount # Null THEN amount
               ELSE IF none THEN Adapter!Excluded("SourceOrLink") ELSE Null
    BY <1>1, <1>8
  <2>2. /\ Good(cell.target_id) /\ Good(cell.transaction_id)
        /\ Good(cell.is_no_post_bool) /\ Good(cell.is_memorized_transaction_bool)
    BY <1>2, <1>8 DEF Refuses
  <2>3. CASE source # Null \/ (flagged /\ amount # Null)
    BY <1>2, <2>1, <2>3 DEF Gated, Refuses
  <2>4. CASE source = Null /\ flagged /\ amount = Null /\ none
    BY <1>2, <1>3, <1>8, <2>1, <2>2, <2>4 DEF Gated, Refuses, flagged
  <2>5. CASE source = Null /\ ~(flagged /\ none) /\ (flagged => amount = Null)
    BY <1>2, <1>8, <2>1, <2>2, <2>5 DEF Gated, Refuses, flagged
  <2> QED  BY <2>3, <2>4, <2>5
<1> QED  BY <1>4, <1>5, <1>6, <1>7, <1>8

\* The cells of a line, read whole and read as far as it was decoded.
WholeCells(schema, row) == [name \in Adapter!Names |-> Adapter!Complete(schema, row, name)]
SeenCells(schema, row) == [name \in Adapter!Names |-> Adapter!Partial(schema, row, name)]
LEMMA CellsHold ==
    ASSUME NEW schema, NEW row
    PROVE  Cells(WholeCells(schema, row)) /\ Cells(SeenCells(schema, row))
<1>1. Cells(WholeCells(schema, row))
  BY DEF Cells, WholeCells, Adapter!Complete, Adapter!Faulty, Adapter!Found, Faults
<1>2. Cells(SeenCells(schema, row))
  BY DEF Cells, SeenCells, Adapter!Partial, Adapter!Faulty, Adapter!Found, Faults
<1> QED  BY <1>1, <1>2

\* The rest of an adapter, once the gates are passed.
LEMMA Ends ==
    ASSUME NEW table, NEW cell, Cells(cell), NEW missing \in Missing, NEW layout,
           NEW gate, Gated(cell, gate),
           NEW answer,
           gate # Null => answer = gate,
           gate = Null =>
              \/ Refuses(answer)
              \/ /\ Adapter!Identifier(cell.account_id, missing) = Null
                 /\ Adapter!Dated(cell.transaction_date, missing) = Null
                 /\ Adapter!Typed(table) = Null
                 /\ Adapter!Money(cell.amount_amt, missing, layout) = Null
                 /\ answer = Adapter!ToPosting(table, cell)
    PROVE  Says(table, cell, answer)
<1>1. CASE gate # Null
  BY <1>1 DEF Gated, Says
<1>2. CASE gate = Null
  <2>1. CASE Refuses(answer)
    BY <2>1 DEF Says
  <2>2. CASE ~Refuses(answer)
    <3>1. ~Refuses(gate) /\ \A why \in {"NoPost", "MemorizedTransaction", "SourceOrLink"} : gate # Adapter!Excluded(why)
      BY <1>2, AnswersAssumption DEF Refuses
    <3>2. table \in DOMAIN Adapter!FixedType
      <4>1. Adapter!Refused("TransactionTypeRequiresDedicatedDecoder") # Null
        BY AnswersAssumption
      <4>2. Null # "TransactionTypeRequiresDedicatedDecoder"
        BY AnswersAssumption
      <4> QED  BY <1>2, <2>2, <4>1, <4>2 DEF Adapter!Typed, Adapter!Stop, Adapter!Unless
    <3>3. /\ Good(cell.account_id) /\ Good(cell.transaction_date) /\ Good(cell.amount_amt)
          /\ cell.amount_amt.value.kind = "token" /\ cell.amount_amt.value.holds # Null
      BY <1>2, <2>2, Tested DEF Cells, Adapter!Names, Refuses
    <3> QED  BY <1>2, <2>2, <3>1, <3>2, <3>3 DEF Gated, Says
  <2> QED  BY <2>1, <2>2
<1> QED  BY <1>1, <1>2

\* A split is read for its type only.
LEMMA CompleteSays ==
    ASSUME NEW table, NEW schema, NEW row
    PROVE  LET answer == Adapter!AdaptComplete(table, schema, row) IN
           \/ Refuses(answer)
           \/ /\ table \in Adapter!PostingTables /\ Len(schema.columns) = Len(row.values)
              /\ Says(table, WholeCells(schema, row), answer)
<1> DEFINE cell == WholeCells(schema, row)
           missing == "MissingColumn"
           answer == Adapter!AdaptComplete(table, schema, row)
           lines == Adapter!Unless(table \in Adapter!PostingTables, "NotPostingTable")
           counts == Adapter!Unless(Len(schema.columns) = Len(row.values), "SchemaValueCountMismatch")
           whole == Adapter!Unless(row.exact, "RowNotExactlyDecoded")
           before == Adapter!Stop(Adapter!??(Adapter!??(lines, counts), whole))
           gate == Adapter!LogicalGates(cell, missing)
           account == Adapter!Identifier(cell.account_id, missing)
           date == Adapter!Dated(cell.transaction_date, missing)
           typed == Adapter!Typed(table)
           split == Adapter!Boolean(cell.is_split_bool, Null)
           amount == Adapter!Money(cell.amount_amt, missing, schema.numeric)
           posting == Adapter!ToPosting(table, cell)
<1>1. answer = Adapter!??(Adapter!??(Adapter!??(Adapter!??(Adapter!??(Adapter!??(Adapter!??(
                  before, gate), account), date), typed), split), amount), posting)
  BY DEF Adapter!AdaptComplete, WholeCells
<1>2. Cells(cell) /\ missing \in Missing
  BY CellsHold DEF Missing
<1>3. \/ Refuses(before)
      \/ before = Null /\ table \in Adapter!PostingTables /\ Len(schema.columns) = Len(row.values)
  BY AnswersAssumption DEF Adapter!Stop, Adapter!Unless, Adapter!??, Adapter!Refused, Refuses
<1>4. Gated(cell, gate)
  BY <1>2, Gates
<1>5. /\ Refuses(account) \/ account = Null
      /\ Refuses(date) \/ date = Null
      /\ Refuses(split) \/ split = Null
      /\ Refuses(amount) \/ amount = Null
  BY <1>2, Tested DEF Cells, Adapter!Names
<1>6. Refuses(typed) \/ typed = Null
  BY AnswersAssumption DEF Adapter!Typed, Adapter!Stop, Adapter!Unless, Adapter!Refused, Refuses
<1>7. \A a, b : Adapter!??(a, b) = IF a # Null THEN a ELSE b
  BY DEF Adapter!??
<1> SUFFICES \/ Refuses(answer)
             \/ /\ table \in Adapter!PostingTables /\ Len(schema.columns) = Len(row.values)
                /\ Says(table, cell, answer)
  OBVIOUS
<1> HIDE DEF cell, missing, answer, before, gate, account, date, typed, split, amount, posting
<1>8. CASE before # Null
  BY <1>1, <1>3, <1>7, <1>8 DEF Refuses
<1>9. CASE before = Null
  <2>1. gate # Null => answer = gate
    BY <1>1, <1>7, <1>9
  <2>2. gate = Null =>
          \/ Refuses(answer)
          \/ account = Null /\ date = Null /\ typed = Null /\ amount = Null /\ answer = posting
    BY <1>1, <1>5, <1>6, <1>7, <1>9
  <2>3. Says(table, cell, answer)
    <3>1. gate = Null =>
            \/ Refuses(answer)
            \/ /\ Adapter!Identifier(cell.account_id, missing) = Null
               /\ Adapter!Dated(cell.transaction_date, missing) = Null
               /\ Adapter!Typed(table) = Null
               /\ Adapter!Money(cell.amount_amt, missing, schema.numeric) = Null
               /\ answer = Adapter!ToPosting(table, cell)
      BY <2>2 DEF account, date, typed, amount, posting
    <3> QED  BY <1>2, <1>4, <2>1, <3>1, Ends
  <2> QED  BY <1>3, <1>9, <2>3 DEF Refuses
<1> QED  BY <1>8, <1>9

LEMMA PartialSays ==
    ASSUME NEW table, NEW schema, NEW row
    PROVE  LET answer == Adapter!AdaptPartial(table, schema, row) IN
           \/ Refuses(answer)
           \/ table \in Adapter!PostingTables /\ Says(table, SeenCells(schema, row), answer)
<1> DEFINE cell == SeenCells(schema, row)
           missing == "PartialValueUnavailable"
           answer == Adapter!AdaptPartial(table, schema, row)
           before == Adapter!Stop(Adapter!Unless(table \in Adapter!PostingTables, "NotPostingTable"))
           gate == Adapter!LogicalGates(cell, missing)
           account == Adapter!Identifier(cell.account_id, missing)
           date == Adapter!Dated(cell.transaction_date, missing)
           typed == Adapter!Typed(table)
           split == Adapter!Boolean(cell.is_split_bool, Null)
           amount == Adapter!Money(cell.amount_amt, missing, schema.numeric)
           posting == Adapter!ToPosting(table, cell)
<1>1. answer = Adapter!??(Adapter!??(Adapter!??(Adapter!??(Adapter!??(Adapter!??(Adapter!??(
                  before, gate), typed), account), date), split), amount), posting)
  BY DEF Adapter!AdaptPartial, SeenCells
<1>2. Cells(cell) /\ missing \in Missing
  BY CellsHold DEF Missing
<1>3. Refuses(before) \/ (before = Null /\ table \in Adapter!PostingTables)
  BY AnswersAssumption DEF Adapter!Stop, Adapter!Unless, Adapter!Refused, Refuses
<1>4. Gated(cell, gate)
  BY <1>2, Gates
<1>5. /\ Refuses(account) \/ account = Null
      /\ Refuses(date) \/ date = Null
      /\ Refuses(split) \/ split = Null
      /\ Refuses(amount) \/ amount = Null
  BY <1>2, Tested DEF Cells, Adapter!Names
<1>6. Refuses(typed) \/ typed = Null
  BY AnswersAssumption DEF Adapter!Typed, Adapter!Stop, Adapter!Unless, Adapter!Refused, Refuses
<1>7. \A a, b : Adapter!??(a, b) = IF a # Null THEN a ELSE b
  BY DEF Adapter!??
<1> SUFFICES Refuses(answer) \/ (table \in Adapter!PostingTables /\ Says(table, cell, answer))
  OBVIOUS
<1> HIDE DEF cell, missing, answer, before, gate, account, date, typed, split, amount, posting
<1>8. CASE before # Null
  BY <1>1, <1>3, <1>7, <1>8 DEF Refuses
<1>9. CASE before = Null
  <2>1. gate # Null => answer = gate
    BY <1>1, <1>7, <1>9
  <2>2. gate = Null =>
          \/ Refuses(answer)
          \/ account = Null /\ date = Null /\ typed = Null /\ amount = Null /\ answer = posting
    BY <1>1, <1>5, <1>6, <1>7, <1>9
  <2>3. Says(table, cell, answer)
    <3>1. gate = Null =>
            \/ Refuses(answer)
            \/ /\ Adapter!Identifier(cell.account_id, missing) = Null
               /\ Adapter!Dated(cell.transaction_date, missing) = Null
               /\ Adapter!Typed(table) = Null
               /\ Adapter!Money(cell.amount_amt, missing, schema.numeric) = Null
               /\ answer = Adapter!ToPosting(table, cell)
      BY <2>2 DEF account, date, typed, amount, posting
    <3> QED  BY <1>2, <1>4, <2>1, <3>1, Ends
  <2> QED  BY <1>3, <1>9, <2>3 DEF Refuses
<1> QED  BY <1>8, <1>9

LEMMA OnlyOne ==
    ASSUME NEW S, IsFiniteSet(S), S # {}, ~(Adapter!Cardinality(S) > 1)
    PROVE  S = {Adapter!TheOne(S)}
<1>1. Adapter!Cardinality(S) = Cardinality(S)
  BY DEF Adapter!Cardinality, Cardinality
<1>2. PICK i \in S : TRUE
  OBVIOUS
<1>3. Cardinality(S) \in Nat /\ Cardinality(S) # 0 /\ ~(Cardinality(S) > 1)
  BY <1>1, FS_CardinalityType, FS_EmptySet
<1>4. Cardinality(S) = 1
  BY <1>3
<1>5. Adapter!TheOne(S) \in S
  BY <1>2 DEF Adapter!TheOne
<1> QED  BY <1>4, <1>5, FS_Singleton

\* A cell that was decoded in part is that of the whole row, and that of the parser.
LEMMA CellsAgree ==
    ASSUME NEW x \in PostingInputs, NEW name \in Adapter!Names
    PROVE  LET whole == WholeCells(x.schema, x.row)[name]
               seen == SeenCells(x.schema, x.bounded)[name]
           IN /\ Good(seen) => SameLine(name, seen.value, x.parsed)
              /\ Len(x.schema.columns) = Len(x.row.values) =>
                    /\ seen = Null \/ seen = whole \/ ~Good(seen)
                    /\ Good(whole) => SameLine(name, whole.value, x.parsed)
<1> DEFINE named == Adapter!Named(x.schema, name)
           i == Adapter!TheOne(named)
           column == x.schema.columns[i]
           t == IF column.type = "Boolean" THEN x.bounded.booleans ELSE x.bounded.prefix
           whole == WholeCells(x.schema, x.row)[name]
           seen == SeenCells(x.schema, x.bounded)[name]
<1>1. whole = Adapter!Complete(x.schema, x.row, name) /\ seen = Adapter!Partial(x.schema, x.bounded, name)
  BY DEF WholeCells, SeenCells
<1>2. /\ Len(x.schema.columns) \in Nat /\ DOMAIN x.schema.columns = 1..Len(x.schema.columns)
      /\ Len(x.row.values) \in Nat /\ DOMAIN x.row.values = 1..Len(x.row.values)
  BY LinesAssumption
<1>3. IsFiniteSet(named) /\ named \subseteq DOMAIN x.schema.columns
  <2>1. named \subseteq DOMAIN x.schema.columns
    BY DEF Adapter!Named
  <2>2. IsFiniteSet(1..Len(x.schema.columns))
    <3> DEFINE n == Len(x.schema.columns)
    <3>1. 1 \in Int /\ n \in Int
      BY <1>2
    <3> HIDE DEF n
    <3> QED  BY <3>1, FS_Interval DEF n
  <2> QED  BY <1>2, <2>1, <2>2, FS_Subset
<1>4. named # {} /\ ~(Adapter!Cardinality(named) > 1) =>
        /\ named = {i} /\ i \in DOMAIN x.schema.columns /\ column.name = name
        /\ Adapter!Named(x.schema, column.name) = {i}
  BY <1>3, OnlyOne DEF Adapter!Named
<1>5. ~Good(Null) /\ ~Good(Adapter!Faulty("AmbiguousColumn")) /\ ~Good(Adapter!Faulty("PartialSchemaProvenance"))
  BY AnswersAssumption DEF Good, Adapter!Faulty
<1>6. Good(seen) =>
        /\ named # {} /\ ~(Adapter!Cardinality(named) > 1)
        /\ column.id \in DOMAIN t /\ t[column.id].index = i
        /\ seen = Adapter!Found(column, t[column.id].value)
  BY <1>1, <1>5, Zenon DEF Adapter!Partial
<1>7. Len(x.schema.columns) = Len(x.row.values) =>
        /\ named = {} => whole = Null
        /\ named # {} /\ Adapter!Cardinality(named) > 1 => whole = Adapter!Faulty("AmbiguousColumn")
        /\ named # {} /\ ~(Adapter!Cardinality(named) > 1) => whole = Adapter!Found(column, x.row.values[i])
  <2> SUFFICES ASSUME Len(x.schema.columns) = Len(x.row.values)
               PROVE  /\ named = {} => whole = Null
                      /\ named # {} /\ Adapter!Cardinality(named) > 1 => whole = Adapter!Faulty("AmbiguousColumn")
                      /\ named # {} /\ ~(Adapter!Cardinality(named) > 1) => whole = Adapter!Found(column, x.row.values[i])
    OBVIOUS
  <2>1. {k \in named : k <= Len(x.row.values)} = named
    BY <1>2, <1>3
  <2>2. whole = CASE named = {} -> Null
                  [] Adapter!Cardinality(named) > 1 -> Adapter!Faulty("AmbiguousColumn")
                  [] OTHER -> Adapter!Found(column, x.row.values[i])
    BY <1>1, <2>1 DEF Adapter!Complete
  <2>3. named = {} => ~(Adapter!Cardinality(named) > 1)
    BY FS_EmptySet DEF Adapter!Cardinality, Cardinality
  <2> QED  BY <2>2, <2>3
<1> HIDE DEF named, whole, seen, i
<1>8. Good(seen) =>
        /\ SameLine(name, seen.value, x.parsed)
        /\ Len(x.schema.columns) = Len(x.row.values) => seen = whole
  <2> SUFFICES ASSUME Good(seen)
               PROVE  /\ SameLine(name, seen.value, x.parsed)
                      /\ Len(x.schema.columns) = Len(x.row.values) => seen = whole
    OBVIOUS
  <2>1. /\ t \in {x.bounded.prefix, x.bounded.booleans}
        /\ i \in DOMAIN x.schema.columns /\ Adapter!Named(x.schema, column.name) = {i} /\ column.name = name
    BY <1>4, <1>6, Zenon
  <2>2. column.id \in DOMAIN t /\ t[column.id].index = i /\ seen = Adapter!Found(column, t[column.id].value)
    BY <1>6, Zenon
  <2> HIDE DEF t
  <2>3. /\ SameLine(name, t[column.id].value, x.parsed)
        /\ i \in DOMAIN x.row.values => t[column.id].value = x.row.values[i]
    BY <2>1, <2>2, LinesAssumption, Zenon
  <2> QED  BY <1>2, <1>4, <1>6, <1>7, <2>1, <2>2, <2>3 DEF Adapter!Found
<1>9. Len(x.schema.columns) = Len(x.row.values) /\ Good(whole) => SameLine(name, whole.value, x.parsed)
  <2> SUFFICES ASSUME Len(x.schema.columns) = Len(x.row.values), Good(whole)
               PROVE  SameLine(name, whole.value, x.parsed)
    OBVIOUS
  <2>1. /\ named # {} /\ ~(Adapter!Cardinality(named) > 1)
        /\ whole = Adapter!Found(column, x.row.values[i])
    BY <1>5, <1>7
  <2>2. /\ i \in DOMAIN x.schema.columns /\ Adapter!Named(x.schema, column.name) = {i} /\ column.name = name
        /\ i \in DOMAIN x.row.values
    BY <1>2, <1>4, <2>1
  <2>3. SameLine(name, x.row.values[i], x.parsed)
    BY <2>2, LinesAssumption
  <2> QED  BY <2>1, <2>3 DEF Adapter!Found
<1> QED  BY <1>8, <1>9 DEF whole, seen

\* However much of a line is read, it says the same.
LEMMA LinesAgree ==
    ASSUME NEW x \in PostingInputs
    PROVE  LET complete == Adapter!AdaptComplete(x.table, x.schema, x.row)
               partial == Adapter!AdaptPartial(x.table, x.schema, x.bounded)
           IN Refuses(complete) \/ Refuses(partial) \/ complete = partial
<1> DEFINE whole == WholeCells(x.schema, x.row)
           seen == SeenCells(x.schema, x.bounded)
           complete == Adapter!AdaptComplete(x.table, x.schema, x.row)
           partial == Adapter!AdaptPartial(x.table, x.schema, x.bounded)
<1> SUFFICES ASSUME ~Refuses(complete), ~Refuses(partial) PROVE complete = partial
  OBVIOUS
<1>1. /\ Len(x.schema.columns) = Len(x.row.values)
      /\ Says(x.table, whole, complete) /\ Says(x.table, seen, partial)
  BY CompleteSays, PartialSays
<1>2. \A name \in Adapter!Names : seen[name] = Null \/ seen[name] = whole[name] \/ ~Good(seen[name])
  BY <1>1, CellsAgree
<1> HIDE DEF whole, seen, complete, partial
<1>3. /\ Good(seen.is_no_post_bool) => seen.is_no_post_bool = whole.is_no_post_bool
      /\ Good(seen.is_memorized_transaction_bool) =>
           seen.is_memorized_transaction_bool = whole.is_memorized_transaction_bool
      /\ Good(seen.is_source_bool) => seen.is_source_bool = whole.is_source_bool
      /\ \A name \in {"target_id", "transaction_id", "account_id", "transaction_date", "amount_amt"} :
           Good(seen[name]) => seen[name] = whole[name]
  BY <1>2 DEF Good, Adapter!Names
<1>4. CASE Good(seen.is_no_post_bool) /\ seen.is_no_post_bool.value.holds
  BY <1>1, <1>3, <1>4 DEF Says
<1>5. CASE /\ Good(seen.is_no_post_bool) /\ ~seen.is_no_post_bool.value.holds
           /\ Good(seen.is_memorized_transaction_bool) /\ seen.is_memorized_transaction_bool.value.holds
  BY <1>1, <1>3, <1>5 DEF Says
<1>6. CASE /\ Good(seen.is_no_post_bool) /\ ~seen.is_no_post_bool.value.holds
           /\ Good(seen.is_memorized_transaction_bool) /\ ~seen.is_memorized_transaction_bool.value.holds
  <2>1. CASE partial = Adapter!Excluded("SourceOrLink") /\ Good(seen.is_source_bool) /\ Good(seen.amount_amt)
             /\ Adapter!Flagged(seen.is_source_bool) /\ seen.amount_amt.value.kind = "null"
    BY <1>1, <1>3, <1>6, <2>1 DEF Says
  <2>2. CASE /\ \A name \in {"target_id", "transaction_id", "account_id", "transaction_date", "amount_amt"} :
                   Good(seen[name])
             /\ seen.amount_amt.value.kind = "token"
             /\ partial = Adapter!ToPosting(x.table, seen)
    <3>1. \A name \in {"target_id", "transaction_id", "account_id", "transaction_date", "amount_amt"} :
             seen[name] = whole[name]
      BY <1>3, <2>2
    <3>2. complete = Adapter!ToPosting(x.table, whole)
      BY <1>1, <1>3, <1>6, <2>2, <3>1 DEF Says
    <3>3. Adapter!ToPosting(x.table, whole) = Adapter!ToPosting(x.table, seen)
      BY <3>1 DEF Adapter!ToPosting
    <3> QED  BY <2>2, <3>2, <3>3
  <2> QED  BY <1>1, <1>6, <2>1, <2>2 DEF Says
<1> QED  BY <1>1, <1>4, <1>5, <1>6 DEF Says

\* What a posting is of, whoever makes it.
Books(answer, type, parsed) ==
    answer = Adapter!Posting(type, parsed.target, parsed.master, parsed.account, parsed.date, parsed.amount.cents)
LEMMA CellsBook ==
    ASSUME NEW x \in PostingInputs, NEW cell, NEW answer, Says(x.table, cell, answer), answer.is = "posting",
           x.table \in Adapter!PostingTables,
           \A name \in Adapter!Names : Good(cell[name]) => SameLine(name, cell[name].value, x.parsed)
    PROVE  x.table # "BillLine" /\ Books(answer, Adapter!FixedType[x.table], x.parsed)
<1>1. \A why : Adapter!Excluded(why).is # "posting" /\ Adapter!Refused(why).is # "posting"
  BY DEF Adapter!Excluded, Adapter!Refused
<1>2. /\ x.table \in DOMAIN Adapter!FixedType
      /\ \A name \in {"target_id", "transaction_id", "account_id", "transaction_date", "amount_amt"} : Good(cell[name])
      /\ cell.amount_amt.value.kind = "token" /\ cell.amount_amt.value.holds # Null
      /\ answer = Adapter!ToPosting(x.table, cell)
  BY <1>1 DEF Says, Refuses
<1>3. /\ cell.target_id.value.holds = x.parsed.target
      /\ cell.transaction_id.value.holds = x.parsed.master
      /\ cell.account_id.value.holds = x.parsed.account
      /\ cell.transaction_date.value.holds = x.parsed.date
      /\ cell.amount_amt.value.holds = x.parsed.amount
  BY <1>2 DEF SameLine, Adapter!Names
<1>4. x.table # "BillLine"
  BY <1>2 DEF Adapter!FixedType
<1>5. ~x.parsed.amount.zero
  BY <1>1, <1>2, <1>3 DEF Adapter!ToPosting
<1> QED  BY <1>2, <1>3, <1>4, <1>5 DEF Adapter!ToPosting, Books

\* A parsed row makes that posting too.
LEMMA ParsersBook ==
    ASSUME NEW row
    PROVE  /\ Adapter!AdaptCheck(row).is = "posting" => Books(Adapter!AdaptCheck(row), "Check", row)
           /\ Adapter!AdaptJournal(row).is = "posting" => Books(Adapter!AdaptJournal(row), "GeneralJournal", row)
<1>1. \A why : Adapter!Excluded(why).is # "posting" /\ Adapter!Refused(why).is # "posting"
  BY DEF Adapter!Excluded, Adapter!Refused
<1>2. \A type, zero : Adapter!Materialized(row, type, zero).is = "posting" => Books(Adapter!Materialized(row, type, zero), type, row)
  BY <1>1 DEF Adapter!Materialized, Books
<1>3. \A a, b : Adapter!??(a, b) = IF a # Null THEN a ELSE b
  BY DEF Adapter!??
<1>4. \A b, why : /\ Adapter!ExcludedIf(b, why) \in {Null, Adapter!Excluded(why)}
                  /\ Adapter!Stop(Adapter!Unless(b, why)) \in {Null, Adapter!Refused(why)}
  BY DEF Adapter!ExcludedIf, Adapter!Stop, Adapter!Unless
<1>5. Adapter!PostingDate(row) \in {Null, Adapter!Refused("InvalidPostingDate")}
  BY <1>4 DEF Adapter!PostingDate
<1>6. ASSUME Adapter!AdaptCheck(row).is = "posting" PROVE Books(Adapter!AdaptCheck(row), "Check", row)
  BY <1>1, <1>2, <1>3, <1>5, <1>6 DEF Adapter!AdaptCheck
<1>7. ASSUME Adapter!AdaptJournal(row).is = "posting" PROVE Books(Adapter!AdaptJournal(row), "GeneralJournal", row)
  <2> DEFINE noPost == Adapter!ExcludedIf(row.noPost, "NoPost")
             memorized == Adapter!ExcludedIf(row.memorized, "MemorizedTransaction")
             date == Adapter!PostingDate(row)
             amount == Adapter!Stop(Adapter!Unless(row.amount.cents # 0, "InvalidPostingAmount"))
             posting == Adapter!Materialized(row, "GeneralJournal", FALSE)
  <2>1. Adapter!AdaptJournal(row) = Adapter!??(Adapter!??(Adapter!??(Adapter!??(noPost, memorized), date), amount), posting)
    BY DEF Adapter!AdaptJournal
  <2>2. /\ noPost \in {Null, Adapter!Excluded("NoPost")} /\ memorized \in {Null, Adapter!Excluded("MemorizedTransaction")}
        /\ date \in {Null, Adapter!Refused("InvalidPostingDate")}
        /\ amount \in {Null, Adapter!Refused("InvalidPostingAmount")}
    BY <1>4, <1>5
  <2>3. posting.is = "posting" => Books(posting, "GeneralJournal", row)
    BY <1>2
  <2> HIDE DEF noPost, memorized, date, amount, posting
  <2>4. Adapter!AdaptJournal(row) = posting
    BY <1>1, <1>3, <1>7, <2>1, <2>2
  <2> QED  BY <1>7, <2>3, <2>4
<1> QED  BY <1>6, <1>7

\* All the postings of a line are the same one.
LEMMA PostingsAgree ==
    ASSUME NEW x \in PostingInputs,
           NEW p \in {ThreeWays(x).complete, ThreeWays(x).partial, ThreeWays(x).dedicated}, p.is = "posting",
           NEW q \in {ThreeWays(x).complete, ThreeWays(x).partial, ThreeWays(x).dedicated}, q.is = "posting"
    PROVE  p = q
<1> DEFINE complete == Adapter!AdaptComplete(x.table, x.schema, x.row)
           partial == Adapter!AdaptPartial(x.table, x.schema, x.bounded)
           dedicated == ThreeWays(x).dedicated
           whole == WholeCells(x.schema, x.row)
           seen == SeenCells(x.schema, x.bounded)
           posting(type) == Adapter!Posting(type, x.parsed.target, x.parsed.master, x.parsed.account,
                                            x.parsed.date, x.parsed.amount.cents)
<1>1. /\ Refuses(complete) \/ (/\ x.table \in Adapter!PostingTables /\ Len(x.schema.columns) = Len(x.row.values)
                               /\ Says(x.table, whole, complete))
      /\ Refuses(partial) \/ (x.table \in Adapter!PostingTables /\ Says(x.table, seen, partial))
  BY CompleteSays, PartialSays
<1>2. ASSUME complete.is = "posting"
      PROVE  x.table # "BillLine" /\ complete = posting(Adapter!FixedType[x.table])
  <2>1. /\ x.table \in Adapter!PostingTables /\ Len(x.schema.columns) = Len(x.row.values)
        /\ Says(x.table, whole, complete)
    BY <1>1, <1>2 DEF Refuses
  <2>2. \A name \in Adapter!Names : Good(whole[name]) => SameLine(name, whole[name].value, x.parsed)
    BY <2>1, CellsAgree
  <2>3. x.table # "BillLine" /\ Books(complete, Adapter!FixedType[x.table], x.parsed)
    <3> HIDE DEF whole, complete
    <3> QED  BY <1>2, <2>1, <2>2, CellsBook
  <2> QED  BY <2>3 DEF Books
<1>3. ASSUME partial.is = "posting"
      PROVE  x.table # "BillLine" /\ partial = posting(Adapter!FixedType[x.table])
  <2>1. x.table \in Adapter!PostingTables /\ Says(x.table, seen, partial)
    BY <1>1, <1>3 DEF Refuses
  <2>2. \A name \in Adapter!Names : Good(seen[name]) => SameLine(name, seen[name].value, x.parsed)
    BY CellsAgree
  <2>3. x.table # "BillLine" /\ Books(partial, Adapter!FixedType[x.table], x.parsed)
    <3> HIDE DEF seen, partial
    <3> QED  BY <1>3, <2>1, <2>2, CellsBook
  <2> QED  BY <2>3 DEF Books
<1>4. ASSUME dedicated.is = "posting", x.table # "BillLine"
      PROVE  dedicated = posting(Adapter!FixedType[x.table])
  <2>1. CASE x.table = "CheckLine"
    <3>1. dedicated = Adapter!AdaptCheck(x.parsed)
      BY <2>1 DEF ThreeWays
    <3> QED  BY <1>4, <2>1, <3>1, ParsersBook DEF Books, Adapter!FixedType
  <2>2. CASE x.table = "GeneralJournalLine"
    <3>1. dedicated = Adapter!AdaptJournal(x.parsed)
      BY <2>2 DEF ThreeWays
    <3> QED  BY <1>4, <2>2, <3>1, ParsersBook DEF Books, Adapter!FixedType
  <2>3. CASE x.table \notin {"CheckLine", "BillLine", "GeneralJournalLine"}
    BY <1>4, <2>3 DEF ThreeWays
  <2> QED  BY <1>4, <2>1, <2>2, <2>3
<1>5. p \in {complete, partial, dedicated} /\ q \in {complete, partial, dedicated}
  BY DEF ThreeWays
<1> HIDE DEF complete, partial, dedicated, posting
<1> QED  BY <1>2, <1>3, <1>4, <1>5
--------------------------------------------------------------------------------
(* The accounts.  Both decoders make the same tests of a record, in an order *)
(* in which only the seventh sets it aside.                                  *)

\* A test of an account record passes when every one before it does.
LEMMA First == \A x, y : Chart!??(x, y) = IF x # Null THEN x ELSE y
  BY Zenon DEF Chart!??
LEMMA NoneAside == Null # "set aside"
  BY RefusalsAssumption
LEMMA Chain ==
    \A x, y : /\ (Chart!??(x, y) = Null <=> x = Null /\ y = Null)
              /\ (Chart!??(x, y) = "set aside" <=> x = "set aside" \/ (x = Null /\ y = "set aside"))
  BY First, NoneAside
LEMMA After ==
    ASSUME NEW x, NEW y, NEW r, r = Chart!??(x, y), x # "set aside", y # "set aside"
    PROVE  (r = Null => x = Null) /\ r # "set aside"
  BY Chain

\* A value that passes a test is there.
LEMMA OfNeeds ==
    ASSUME NEW v, NEW kind
    PROVE  /\ Chart!Of(v, kind) = Null => v # Null
           /\ Chart!Of(v, kind) # "set aside"
<1>1. Null # "MissingValue" /\ Null # "WrongValueKind"
  BY RefusalsAssumption
<1>2. Chart!Of(v, kind) = IF v = Null THEN "MissingValue"
                          ELSE IF v.kind \in {kind, "null"} THEN Null ELSE "WrongValueKind"
  BY <1>1, First DEF Chart!Of, Chart!Unless
<1> QED  BY <1>1, <1>2, NoneAside
LEMMA RequiredNeeds ==
    ASSUME NEW v, NEW kind
    PROVE  /\ Chart!Required(v, kind) = Null => v # Null
           /\ Chart!Required(v, kind) # "set aside"
<1> DEFINE test == Chart!Unless(v.kind # "null", "RequiredValueIsNull")
<1>1. Chart!Required(v, kind) = Chart!??(Chart!Of(v, kind), test)
  BY DEF Chart!Required
<1>2. test # "set aside"
  BY NoneAside DEF Chart!Unless
<1> HIDE DEF test
<1>3. Chart!Of(v, kind) # "set aside"
  BY OfNeeds
<1>4. (Chart!Required(v, kind) = Null => Chart!Of(v, kind) = Null) /\ Chart!Required(v, kind) # "set aside"
  BY <1>1, <1>2, <1>3, After
<1> QED  BY <1>4, OfNeeds
LEMMA OptionalTextNeeds ==
    ASSUME NEW v
    PROVE  /\ Chart!OptionalText(v) = Null => v # Null
           /\ Chart!OptionalText(v) # "set aside"
<1> DEFINE test == Chart!Unless(v.kind = "null" \/ v.holds # Null, "TextNotUtf8")
<1>1. Chart!OptionalText(v) = Chart!??(Chart!Of(v, "text"), test)
  BY DEF Chart!OptionalText
<1>2. test # "set aside"
  BY NoneAside DEF Chart!Unless
<1> HIDE DEF test
<1>3. Chart!Of(v, "text") # "set aside"
  BY OfNeeds
<1>4. (Chart!OptionalText(v) = Null => Chart!Of(v, "text") = Null) /\ Chart!OptionalText(v) # "set aside"
  BY <1>1, <1>2, <1>3, After
<1> QED  BY <1>4, OfNeeds
LEMMA RequiredTextNeeds ==
    ASSUME NEW v
    PROVE  /\ Chart!RequiredText(v) = Null => v # Null
           /\ Chart!RequiredText(v) # "set aside"
<1> DEFINE test == Chart!Unless(v.kind # "null" /\ v.holds # "blank", "RequiredValueIsNull")
<1>1. Chart!RequiredText(v) = Chart!??(Chart!OptionalText(v), test)
  BY DEF Chart!RequiredText
<1>2. test # "set aside"
  BY NoneAside DEF Chart!Unless
<1> HIDE DEF test
<1>3. Chart!OptionalText(v) # "set aside"
  BY OptionalTextNeeds
<1>4. (Chart!RequiredText(v) = Null => Chart!OptionalText(v) = Null) /\ Chart!RequiredText(v) # "set aside"
  BY <1>1, <1>2, <1>3, After
<1> QED  BY <1>4, OptionalTextNeeds
\* The columns that set a record aside, and those that make an account of it.
Aside == {1, 7, 8, 9}
Used == {1, 6, 7, 8, 9, 12, 18, 22, 24}

\* The tests of a record in two parts, with whether the name has to agree.
Front(value, identity, internal) ==
    Chart!??(Chart!??(Chart!??(Chart!??(Chart!??(Chart!??(
        Chart!Required(value[1], "integer"),
        Chart!Unless(Chart!U32(value[1].holds), "IdOutOfRange")),
        Chart!Unless(identity.record = value[1].holds, "IdentityDoesNotMatchId")),
        Chart!Required(value[7], "boolean")),
        Chart!Required(value[8], "boolean")),
        Chart!Required(value[9], "boolean")),
        Chart!Unless(Chart!Disposition(value, internal) = "Included", "set aside"))
Named(value, identity, named) ==
    Chart!Unless(named => identity.name = value[6].holds, "IdentityNameDoesNotMatch")
Passed(front, value, identity, identities, named) ==
    Chart!??(Chart!??(Chart!??(Chart!??(Chart!??(Chart!??(Chart!??(Chart!??(Chart!??(Chart!??(
        front,
        Chart!RequiredText(value[6])),
        Named(value, identity, named)),
        Chart!OptionalText(value[22])),
        Chart!OptionalText(value[24])),
        Chart!Of(value[12], "integer")),
        Chart!ParentRefusal(value[12], identities)),
        Chart!Of(value[18], "integer")),
        Chart!Unless(Chart!Held(value[18]) # Null /\ Chart!BusinessType(value[18].holds) # Null,
                     "BusinessTypeUnresolved")),
        Chart!Unless(value[18].holds = identity.type, "IdentityTypeDoesNotMatch")),
        Chart!Hierarchy(value[22]))
LEMMA RowTested ==
    ASSUME NEW value, NEW identity, NEW internal, NEW identities, NEW named
    PROVE  Chart!RowRefusal(value, identity, internal, identities, named)
             = Passed(Front(value, identity, internal), value, identity, identities, named)
  BY DEF Chart!RowRefusal, Passed, Front, Named

LEMMA FrontNeeds ==
    ASSUME NEW value, NEW identity, NEW internal,
           Front(value, identity, internal) = Null \/ Front(value, identity, internal) = "set aside"
    PROVE  \A o \in Aside : value[o] # Null
<1> DEFINE first == Chart!Required(value[1], "integer")
           range == Chart!Unless(Chart!U32(value[1].holds), "IdOutOfRange")
           same == Chart!Unless(identity.record = value[1].holds, "IdentityDoesNotMatchId")
           seventh == Chart!Required(value[7], "boolean")
           eighth == Chart!Required(value[8], "boolean")
           ninth == Chart!Required(value[9], "boolean")
           included == Chart!Unless(Chart!Disposition(value, internal) = "Included", "set aside")
           upto2 == Chart!??(first, range)
           upto3 == Chart!??(upto2, same)
           upto4 == Chart!??(upto3, seventh)
           upto5 == Chart!??(upto4, eighth)
           upto6 == Chart!??(upto5, ninth)
<1>1. /\ upto2 = Chart!??(first, range) /\ upto3 = Chart!??(upto2, same) /\ upto4 = Chart!??(upto3, seventh)
      /\ upto5 = Chart!??(upto4, eighth) /\ upto6 = Chart!??(upto5, ninth)
      /\ Front(value, identity, internal) = Chart!??(upto6, included)
  BY DEF Front
<1>2. range # "set aside" /\ same # "set aside"
  BY NoneAside DEF Chart!Unless
<1>3. /\ first # "set aside" /\ seventh # "set aside" /\ eighth # "set aside" /\ ninth # "set aside"
      /\ first = Null => value[1] # Null
      /\ seventh = Null => value[7] # Null
      /\ eighth = Null => value[8] # Null
      /\ ninth = Null => value[9] # Null
  BY RequiredNeeds
<1> HIDE DEF first, range, same, seventh, eighth, ninth, included, upto2, upto3, upto4, upto5, upto6
<1>4. first = Null /\ seventh = Null /\ eighth = Null /\ ninth = Null
  BY <1>1, <1>2, <1>3, First
<1> QED  BY <1>3, <1>4 DEF Aside

\* The tests that follow, but for the name, are all passed.
Others(value, identity, identities) ==
    /\ Chart!RequiredText(value[6]) = Null
    /\ Chart!OptionalText(value[22]) = Null /\ Chart!OptionalText(value[24]) = Null
    /\ Chart!Of(value[12], "integer") = Null /\ Chart!ParentRefusal(value[12], identities) = Null
    /\ Chart!Of(value[18], "integer") = Null
    /\ Chart!Unless(Chart!Held(value[18]) # Null /\ Chart!BusinessType(value[18].holds) # Null,
                    "BusinessTypeUnresolved") = Null
    /\ Chart!Unless(value[18].holds = identity.type, "IdentityTypeDoesNotMatch") = Null
    /\ Chart!Hierarchy(value[22]) = Null
LEMMA OthersNeed ==
    ASSUME NEW value, NEW identity, NEW identities, Others(value, identity, identities)
    PROVE  \A o \in Used \ Aside : value[o] # Null
<1>1. value[12] # Null /\ value[18] # Null
  BY OfNeeds DEF Others
<1>2. value[22] # Null /\ value[24] # Null
  BY OptionalTextNeeds DEF Others
<1>3. value[6] # Null
  BY RequiredTextNeeds DEF Others
<1> QED  BY <1>1, <1>2, <1>3 DEF Used, Aside
LEMMA PassedNeeds ==
    ASSUME NEW front, NEW value, NEW identity, NEW identities, NEW named
    PROVE  LET refusal == Passed(front, value, identity, identities, named) IN
           /\ refusal = "set aside" <=> front = "set aside"
           /\ refusal = Null <=> /\ front = Null /\ Named(value, identity, named) = Null
                                 /\ Others(value, identity, identities)
<1> DEFINE text == Chart!RequiredText(value[6])
           name == Named(value, identity, named)
           number == Chart!OptionalText(value[22])
           description == Chart!OptionalText(value[24])
           parent == Chart!Of(value[12], "integer")
           known == Chart!ParentRefusal(value[12], identities)
           kind == Chart!Of(value[18], "integer")
           business == Chart!Unless(Chart!Held(value[18]) # Null /\ Chart!BusinessType(value[18].holds) # Null,
                                    "BusinessTypeUnresolved")
           same == Chart!Unless(value[18].holds = identity.type, "IdentityTypeDoesNotMatch")
           last == Chart!Hierarchy(value[22])
           upto1 == Chart!??(front, text)
           upto2 == Chart!??(upto1, name)
           upto3 == Chart!??(upto2, number)
           upto4 == Chart!??(upto3, description)
           upto5 == Chart!??(upto4, parent)
           upto6 == Chart!??(upto5, known)
           upto7 == Chart!??(upto6, kind)
           upto8 == Chart!??(upto7, business)
           upto9 == Chart!??(upto8, same)
           passed == Passed(front, value, identity, identities, named)
<1>1. /\ upto1 = Chart!??(front, text) /\ upto2 = Chart!??(upto1, name) /\ upto3 = Chart!??(upto2, number)
      /\ upto4 = Chart!??(upto3, description) /\ upto5 = Chart!??(upto4, parent)
      /\ upto6 = Chart!??(upto5, known) /\ upto7 = Chart!??(upto6, kind)
      /\ upto8 = Chart!??(upto7, business) /\ upto9 = Chart!??(upto8, same)
      /\ passed = Chart!??(upto9, last)
  BY DEF Passed
<1>2. /\ name # "set aside" /\ business # "set aside" /\ same # "set aside"
  BY NoneAside DEF Chart!Unless, Named
<1>3. known # "set aside" /\ last # "set aside"
  BY First, NoneAside DEF Chart!ParentRefusal, Chart!Hierarchy, Chart!Unless
<1>4. parent # "set aside" /\ kind # "set aside"
  BY OfNeeds
<1>5. number # "set aside" /\ description # "set aside"
  BY OptionalTextNeeds
<1>6. text # "set aside"
  BY RequiredTextNeeds
<1>7. Others(value, identity, identities)
        <=> /\ text = Null /\ number = Null /\ description = Null /\ parent = Null /\ known = Null
            /\ kind = Null /\ business = Null /\ same = Null /\ last = Null
  BY DEF Others
<1> HIDE DEF text, name, number, description, parent, known, kind, business, same, last,
             upto1, upto2, upto3, upto4, upto5, upto6, upto7, upto8, upto9, passed
<1>8. passed = "set aside" <=> front = "set aside"
  BY <1>1, <1>2, <1>3, <1>4, <1>5, <1>6, First, NoneAside
<1>9. passed = Null <=> front = Null /\ name = Null /\ Others(value, identity, identities)
  BY <1>1, <1>7, First, NoneAside
<1> QED  BY <1>8, <1>9 DEF passed, name

\* What a refusal needs, and what it leaves to the name.
LEMMA RowNeeds ==
    ASSUME NEW value, NEW identity, NEW internal, NEW identities, NEW named
    PROVE  LET refusal == Chart!RowRefusal(value, identity, internal, identities, named)
               unnamed == Chart!RowRefusal(value, identity, internal, identities, FALSE)
           IN /\ refusal \in {Null, "set aside"} => unnamed = refusal
              /\ refusal \in {Null, "set aside"} => \A o \in Aside : value[o] # Null
              /\ refusal = Null => \A o \in Used : value[o] # Null
<1> DEFINE front == Front(value, identity, internal)
           refusal == Chart!RowRefusal(value, identity, internal, identities, named)
           unnamed == Chart!RowRefusal(value, identity, internal, identities, FALSE)
<1>1. /\ refusal = Passed(front, value, identity, identities, named)
      /\ unnamed = Passed(front, value, identity, identities, FALSE)
  BY RowTested
<1>2. /\ Passed(front, value, identity, identities, named) = "set aside" <=> front = "set aside"
      /\ Passed(front, value, identity, identities, named) = Null
           <=> /\ front = Null /\ Named(value, identity, named) = Null /\ Others(value, identity, identities)
      /\ Passed(front, value, identity, identities, FALSE) = "set aside" <=> front = "set aside"
      /\ Passed(front, value, identity, identities, FALSE) = Null
           <=> /\ front = Null /\ Named(value, identity, FALSE) = Null /\ Others(value, identity, identities)
  <2> HIDE DEF front
  <2> QED  BY PassedNeeds
<1>3. Named(value, identity, FALSE) = Null
  BY DEF Named, Chart!Unless
<1>4. ASSUME front = Null \/ front = "set aside" PROVE \A o \in Aside : value[o] # Null
  BY <1>4, FrontNeeds
<1>5. ASSUME Others(value, identity, identities) PROVE \A o \in Used \ Aside : value[o] # Null
  BY <1>5, OthersNeed
<1> HIDE DEF front, refusal, unnamed
<1>6. refusal \in {Null, "set aside"} => unnamed = refusal
  <2>1. ASSUME refusal = Null PROVE unnamed = Null
    BY <2>1, <1>1, <1>2, <1>3
  <2>2. ASSUME refusal = "set aside" PROVE unnamed = "set aside"
    BY <2>2, <1>1, <1>2
  <2> QED  BY <2>1, <2>2
<1>7. refusal \in {Null, "set aside"} => \A o \in Aside : value[o] # Null
  BY <1>1, <1>2, <1>4
<1>8. refusal = Null => \A o \in Used : value[o] # Null
  BY <1>1, <1>2, <1>4, <1>5
<1> QED  BY <1>6, <1>7, <1>8 DEF refusal, unnamed

\* Records that agree in the columns that are looked at are read alike.
LEMMA FrontAlike ==
    ASSUME NEW value, NEW other, NEW identity, NEW internal, \A o \in Aside : value[o] = other[o]
    PROVE  Front(value, identity, internal) = Front(other, identity, internal)
<1>1. value[1] = other[1] /\ value[7] = other[7] /\ value[8] = other[8] /\ value[9] = other[9]
  BY DEF Aside
<1>2. Chart!Disposition(value, internal) = Chart!Disposition(other, internal)
  BY <1>1 DEF Chart!Disposition
<1> QED  BY <1>1, <1>2 DEF Front
LEMMA PassedAlike ==
    ASSUME NEW value, NEW other, NEW identity, NEW front, NEW identities, NEW named,
           \A o \in Used : value[o] = other[o]
    PROVE  Passed(front, value, identity, identities, named) = Passed(front, other, identity, identities, named)
<1>1. /\ value[6] = other[6] /\ value[12] = other[12] /\ value[18] = other[18]
      /\ value[22] = other[22] /\ value[24] = other[24]
  BY DEF Used
<1>2. Named(value, identity, named) = Named(other, identity, named)
  BY <1>1 DEF Named
<1> QED  BY <1>1, <1>2 DEF Passed
LEMMA DecodedAlike ==
    ASSUME NEW value, NEW other, NEW identity, NEW internal, NEW identities, \A o \in Used : value[o] = other[o]
    PROVE  Chart!Decoded(value, identity, internal, identities) = Chart!Decoded(other, identity, internal, identities)
<1>1. /\ value[6] = other[6] /\ value[7] = other[7] /\ value[12] = other[12] /\ value[18] = other[18]
      /\ value[22] = other[22] /\ value[24] = other[24]
  BY DEF Used
<1> QED  BY <1>1 DEF Chart!Decoded
Seen(value, identity, internal, identities) ==
    Chart!RowRefusal(value, identity, internal, identities, TRUE)
Whole(value, identity, internal, identities) ==
    Chart!RowRefusal(value, identity, internal, identities, FALSE)
LEMMA RowsAlike ==
    ASSUME NEW value, NEW other, NEW identity, NEW internal, NEW identities,
           \A o \in Used : value[o] # Null => value[o] = other[o]
    PROVE  LET seen == Seen(value, identity, internal, identities) IN
           /\ seen = Null => Whole(other, identity, internal, identities) = Null
           /\ seen = "set aside" => Whole(other, identity, internal, identities) = "set aside"
<1> DEFINE seen == Seen(value, identity, internal, identities)
           unnamed == Whole(value, identity, internal, identities)
           whole == Whole(other, identity, internal, identities)
           front == Front(value, identity, internal)
           wholeFront == Front(other, identity, internal)
<1>1. /\ seen \in {Null, "set aside"} => unnamed = seen
      /\ seen \in {Null, "set aside"} => \A o \in Aside : value[o] # Null
      /\ seen = Null => \A o \in Used : value[o] # Null
  BY RowNeeds DEF Seen, Whole
<1>2. /\ unnamed = Passed(front, value, identity, identities, FALSE)
      /\ whole = Passed(wholeFront, other, identity, identities, FALSE)
  BY RowTested DEF Whole
<1>3. ASSUME seen = Null PROVE \A o \in Used : value[o] = other[o]
  BY <1>1, <1>3
<1>4. ASSUME seen = Null \/ seen = "set aside" PROVE front = wholeFront
  <2>1. Aside \subseteq Used
    BY DEF Aside, Used
  <2>2. \A o \in Aside : value[o] = other[o]
    BY <1>1, <1>4, <2>1
  <2> QED  BY <2>2, FrontAlike
<1>5. ASSUME seen = Null PROVE whole = Null
  <2>1. Passed(front, value, identity, identities, FALSE) = Passed(front, other, identity, identities, FALSE)
    <3>1. \A o \in Used : value[o] = other[o]
      BY <1>3, <1>5
    <3> DEFINE no == FALSE
    <3> HIDE DEF front, no
    <3>2. Passed(front, value, identity, identities, no) = Passed(front, other, identity, identities, no)
      BY <3>1, PassedAlike
    <3> QED  BY <3>2 DEF no
  <2> QED  BY <1>1, <1>2, <1>4, <1>5, <2>1
<1>6. ASSUME seen = "set aside" PROVE whole = "set aside"
  <2>1. Passed(front, value, identity, identities, FALSE) = "set aside" <=> front = "set aside"
    BY PassedNeeds
  <2>2. Passed(wholeFront, other, identity, identities, FALSE) = "set aside" <=> wholeFront = "set aside"
    BY PassedNeeds
  <2> HIDE DEF front, wholeFront, seen, unnamed, whole
  <2>3. unnamed = "set aside"
    BY <1>1, <1>6
  <2> QED  BY <1>2, <1>4, <1>6, <2>1, <2>2, <2>3
<1> QED  BY <1>5, <1>6

\* A bounded decoder that takes an account, or sets it aside, says what the
\* decoder of the complete record says, unless one of two columns that are
\* read last has no integer.
LEMMA AccountsAgree ==
    ASSUME NEW x \in AccountInputs
    PROVE  LET whole == Chart!DecodeComplete(x.schema, x.values, x.identity, x.internal, x.identities)
               part == Chart!DecodePartial(x.schema, x.through, x.prefix, x.booleans,
                                           x.identity, x.internal, x.identities)
           IN part.refused \in {Null, "set aside"}
                => \/ whole = [refused |-> part.refused, account |-> part.account]
                   \/ whole.refused = "WrongValueKind"
<1> DEFINE value == [o \in 1..36 |-> IF o \in DOMAIN x.prefix THEN x.prefix[o]
                                     ELSE IF o \in DOMAIN x.booleans THEN x.booleans[o] ELSE Null]
           seen == Seen(value, x.identity, x.internal, x.identities)
           complete == Whole(x.values, x.identity, x.internal, x.identities)
           schema == Chart!SchemaRefusal(x.schema)
           enough == Chart!Unless(x.through >= 24, "PartialPrefixTooShort")
           late == Chart!Of(x.values[35], "integer")
           last == Chart!Of(x.values[36], "integer")
           taken == Chart!??(Chart!??(schema, enough), seen)
           answered == Chart!??(Chart!??(Chart!??(schema, complete), late), last)
           account == Chart!Decoded(value, x.identity, x.internal, x.identities)
           same == Chart!Decoded(x.values, x.identity, x.internal, x.identities)
           whole == Chart!DecodeComplete(x.schema, x.values, x.identity, x.internal, x.identities)
           part == Chart!DecodePartial(x.schema, x.through, x.prefix, x.booleans,
                                       x.identity, x.internal, x.identities)
<1>1. whole = [refused |-> answered, account |-> IF answered = Null THEN same ELSE Null]
  BY DEF Chart!DecodeComplete, Whole
<1>2. part.refused = taken /\ part.account = IF taken = Null THEN account ELSE Null
  BY DEF Chart!DecodePartial, Seen
<1>3. \A o \in Used : value[o] # Null => value[o] = x.values[o]
  <2>1. Used \subseteq 1..36
    BY DEF Used
  <2>2. \A o \in 1..36 : /\ o \in DOMAIN x.prefix => x.prefix[o] = x.values[o]
                         /\ o \in DOMAIN x.booleans => x.booleans[o] = x.values[o]
    BY AccountsAssumption
  <2> QED  BY <2>1, <2>2
<1>4. schema # "set aside" /\ enough # "set aside"
  BY First, NoneAside DEF Chart!SchemaRefusal, Chart!Unless
<1>5. late \in {Null, "WrongValueKind"} /\ last \in {Null, "WrongValueKind"}
  <2>1. x.values[35] # Null /\ x.values[36] # Null
    BY AccountsAssumption
  <2> QED  BY <2>1, First DEF Chart!Of, Chart!Unless
<1> HIDE DEF value
<1>6. seen \in {Null, "set aside"} => complete = seen
  <2> DEFINE other == x.values
             identity == x.identity
             internal == x.internal
             identities == x.identities
  <2>1. \A o \in Used : value[o] # Null => value[o] = other[o]
    BY <1>3
  <2> HIDE DEF other, identity, internal, identities
  <2>2. LET first == Seen(value, identity, internal, identities) IN
        /\ first = Null => Whole(other, identity, internal, identities) = Null
        /\ first = "set aside" => Whole(other, identity, internal, identities) = "set aside"
    BY <2>1, RowsAlike
  <2> QED  BY <2>2 DEF other, identity, internal, identities
<1>7. ASSUME seen = Null PROVE account = same
  <2>1. \A o \in Used : value[o] # Null
    BY <1>7, RowNeeds DEF Seen
  <2> QED  BY <1>3, <2>1, DecodedAlike
<1> HIDE DEF seen, complete, schema, enough, late, last, account, same, whole, part
<1>8. ASSUME taken = Null \/ taken = "set aside"
      PROVE  schema = Null /\ seen = taken /\ complete = taken
  BY <1>4, <1>6, <1>8, First, NoneAside
<1>9. ASSUME taken = "set aside" PROVE answered = "set aside"
  BY <1>8, <1>9, First, NoneAside
<1>10. ASSUME taken = Null PROVE answered \in {Null, "WrongValueKind"}
  BY <1>5, <1>8, <1>10, First
<1> HIDE DEF taken, answered
<1>11. ASSUME taken = Null
       PROVE  \/ whole = [refused |-> taken, account |-> IF taken = Null THEN account ELSE Null]
              \/ whole.refused = "WrongValueKind"
  <2>1. account = same
    BY <1>7, <1>8, <1>11
  <2>2. CASE answered = Null
    BY <1>1, <1>11, <2>1, <2>2
  <2>3. CASE answered = "WrongValueKind"
    BY <1>1, <2>3
  <2> QED  BY <1>10, <1>11, <2>2, <2>3
<1>12. ASSUME taken = "set aside"
       PROVE  whole = [refused |-> taken, account |-> IF taken = Null THEN account ELSE Null]
  <2>1. answered # Null /\ taken # Null
    BY <1>9, <1>12, NoneAside
  <2> QED  BY <1>1, <1>9, <1>12, <2>1
<1> QED  BY <1>2, <1>11, <1>12 DEF whole, part

\* A selection without the last active row of an account is not that of the
\* reference any more.
LEMMA SelectedAll ==
    ASSUME NEW rows, NEW expected, NEW reference, NEW i \in DOMAIN rows,
           Chart!SelectionRefusal(rows, expected, reference) = Null,
           rows[i] # Null /\ rows[i].active,
           \A j \in DOMAIN rows \ {i} : ~IsActive(rows[j], rows[i].id)
    PROVE  Chart!SelectionRefusal(Without(rows, i), expected, reference) # Null
<1> DEFINE active(seq) == {seq[j].id : j \in {k \in DOMAIN seq : seq[k] # Null /\ seq[k].active}}
<1>1. ASSUME NEW seq, Chart!SelectionRefusal(seq, expected, reference) = Null
      PROVE  active(seq) = reference
  <2>1. Chart!Unless(active(seq) = reference, "ReferenceIdentityMismatch") = Null
    <3> DEFINE size == Chart!Unless(Len(seq) = expected, "PhysicalSelectionCount")
               count == Chart!Unless(Chart!Cardinality(active(seq)) = Chart!Cardinality(reference),
                                     "SelectedIdentityCount")
               same == Chart!Unless(active(seq) = reference, "ReferenceIdentityMismatch")
    <3>1. Chart!SelectionRefusal(seq, expected, reference) = Chart!??(Chart!??(size, count), same)
      BY DEF Chart!SelectionRefusal
    <3> HIDE DEF size, count, same
    <3>2. same = Null
      BY <1>1, <3>1, ChartTests
    <3> QED  BY <3>2 DEF same
  <2> HIDE DEF active
  <2> QED  BY <2>1, RefusalsAssumption DEF Chart!Unless
<1>2. rows[i].id \in reference
  BY <1>1
<1>3. rows[i].id \notin active(Without(rows, i))
  BY DEF Without, IsActive
<1> QED  BY <1>1, <1>2, <1>3

\* Decoding less of a row never changes the answer (BoundedRowsAgree): what a
\* bounded decoder says without refusing is what the decoder of the complete row
\* says, and every posting of a line is the same posting, whichever of the
\* catalog, whole or bounded, and the parser of the table has read it.
THEOREM OneAnswer == Spec => []BoundedRowsAgree
<1>1. ASSUME Asked, task = "posting row" PROVE BoundedRowsAgree
  <2>1. input \in PostingInputs /\ output = ThreeWays(input)
    BY <1>1 DEF Asked
  <2>2. "refused" \in {output.complete.is, output.partial.is} \/ output.complete = output.partial
    BY <2>1, LinesAgree DEF ThreeWays, Refuses
  <2>3. \A p, q \in {a \in {output.complete, output.partial, output.dedicated} : a.is = "posting"} : p = q
    BY <2>1, PostingsAgree
  <2> QED  BY <1>1, <2>2, <2>3 DEF BoundedRowsAgree
<1>2. ASSUME Asked, task = "account row" PROVE BoundedRowsAgree
  <2>1. input \in AccountInputs /\ output = TwoWays(input)
    BY <1>2 DEF Asked
  <2>2. output.partial.refused \in {Null, "set aside"}
          => \/ output.complete = [refused |-> output.partial.refused, account |-> output.partial.account]
             \/ output.complete.refused = "WrongValueKind"
    BY <2>1, AccountsAgree DEF TwoWays
  <2> QED  BY <1>2, <2>2 DEF BoundedRowsAgree
<1>3. ASSUME Asked, task = "selection" PROVE BoundedRowsAgree
  BY <1>3, SelectedAll DEF Asked, BoundedRowsAgree
<1>4. ASSUME task \notin {"posting row", "account row", "selection"} PROVE BoundedRowsAgree
  BY <1>4 DEF BoundedRowsAgree
<1>5. Asked => BoundedRowsAgree
  BY <1>1, <1>2, <1>3, <1>4
<1> QED  BY <1>5, AskedAlways, PTL

--------------------------------------------------------------------------------
(* Catalogs *)

\* The catalogs count as the library does.
LEMMA CountsAre == \A S : Catalog!Cardinality(S) = Cardinality(S)
  BY DEF Cardinality, Catalog!Cardinality

\* What is asked of a page of a catalog by itself.
Sound(page, carrier) ==
    /\ Catalog!Agree(page, carrier)
    /\ carrier = Catalog!TableCarrier =>
         \A c \in Catalog!ToSet(page.candidates) : ~Catalog!Conflict(Catalog!Semantic(c))
    /\ ~Catalog!Divergent(page)

\* A page is in error by itself or because of what was kept before.
LEMMA PageStands ==
    ASSUME NEW page, NEW carrier, NEW before
    PROVE  Catalog!PageError(page, carrier, before) = Null
           <=> /\ Sound(page, carrier)
               /\ ~Catalog!Conflict(before \cup Catalog!Semantic(Catalog!First(page)))
  BY CollectionsAssumption DEF Catalog!PageError, Catalog!First, Sound

\* A contradiction is not resolved by more entries.
LEMMA ConflictGrows ==
    ASSUME NEW S, NEW T, S \subseteq T, Catalog!Conflict(S) PROVE Catalog!Conflict(T)
  BY DEF Catalog!Conflict

\* Numbers have a least one.
LEMMA LeastOf ==
    ASSUME NEW S, S \subseteq Nat, S # {} PROVE \E i \in S : \A j \in S : i <= j
<1>1. \E x \in S : \A y \in S : ~(<<y, x>> \in OpToRel(<, Nat))
  BY NatLessThanWellFounded, WFMin
<1>2. PICK x \in S : \A y \in S : ~(<<y, x>> \in OpToRel(<, Nat))
  BY <1>1
<1>3. \A y \in S : ~(y < x)
  BY <1>2 DEF OpToRel
<1> QED  BY <1>3

\* Nothing is refused when every page stands by itself and no two of the entries
\* that are kept, of whatever pages, contradict each other.
LEMMA CollectedWhole ==
    ASSUME NEW pages, DOMAIN pages \subseteq Nat, NEW carrier
    PROVE  LET carriers == Catalog!Carriers(pages, carrier)
               fine == /\ \A i \in carriers : Sound(pages[i], carrier)
                       /\ ~Catalog!Conflict(Catalog!Kept(pages, carriers))
           IN /\ fine => Catalog!Collected(pages, carrier) = Catalog!Collection(pages, carriers)
              /\ ~fine => Catalog!Collected(pages, carrier).refused # Null
<1> DEFINE carriers == Catalog!Carriers(pages, carrier)
           before(i) == Catalog!Kept(pages, {j \in carriers : j < i})
           error(i) == Catalog!PageError(pages[i], carrier, before(i))
           failing == {i \in carriers : error(i) # Null}
           first == CHOOSE i \in failing : \A j \in failing : i <= j
           entries(i) == Catalog!Semantic(Catalog!First(pages[i]))
<1>1. carriers \subseteq Nat
  BY DEF Catalog!Carriers
<1>2. \A i \in carriers : error(i) = Null <=> Sound(pages[i], carrier) /\ ~Catalog!Conflict(before(i) \cup entries(i))
  BY PageStands
<1>3. Catalog!Collected(pages, carrier) =
        IF failing # {} THEN [refused |-> error(first)] ELSE Catalog!Collection(pages, carriers)
  BY DEF Catalog!Collected
<1>4. failing # {} => first \in failing
  BY <1>1, LeastOf
<1>5. failing # {} => Catalog!Collected(pages, carrier).refused # Null
  <2>1. failing # {} => error(first) # Null
    BY <1>4
  <2>2. failing # {} => Catalog!Collected(pages, carrier) = [refused |-> error(first)]
    BY <1>3
  <2> HIDE DEF failing, first, error
  <2> QED  BY <2>1, <2>2
<1>6. ASSUME ~Catalog!Conflict(Catalog!Kept(pages, carriers)), NEW i \in carriers
      PROVE  ~Catalog!Conflict(before(i) \cup entries(i))
  <2>1. before(i) \cup entries(i) \subseteq Catalog!Kept(pages, carriers)
    BY DEF Catalog!Kept
  <2> QED  BY <1>6, <2>1, ConflictGrows
<1>7. ASSUME Catalog!Conflict(Catalog!Kept(pages, carriers))
      PROVE  \E m \in carriers : Catalog!Conflict(before(m) \cup entries(m))
  <2>1. PICK e, f \in Catalog!Kept(pages, carriers) : e.key = f.key /\ e.body # f.body
    BY <1>7 DEF Catalog!Conflict
  <2>2. PICK i \in carriers : e \in entries(i)
    BY <2>1 DEF Catalog!Kept
  <2>3. PICK j \in carriers : f \in entries(j)
    BY <2>1 DEF Catalog!Kept
  <2>4. PICK m \in {i, j} : i <= m /\ j <= m
    BY <1>1
  <2>5. {e, f} \subseteq before(m) \cup entries(m)
    BY <1>1, <2>2, <2>3, <2>4 DEF Catalog!Kept
  <2>6. Catalog!Conflict(before(m) \cup entries(m))
    BY <2>1, <2>5 DEF Catalog!Conflict
  <2> QED  BY <2>4, <2>6
<1>8. /\ \A i \in carriers : Sound(pages[i], carrier)
      /\ ~Catalog!Conflict(Catalog!Kept(pages, carriers))
      <=> failing = {}
  BY <1>2, <1>6, <1>7
<1> QED  BY <1>3, <1>5, <1>8

--------------------------------------------------------------------------------
\* The same numbers and places, counted from the end of n.
Turned(n, S) == {n + 1 - i : i \in S}
TurnedPlaces(n, S) == {<<n + 1 - p[1], p[2]>> : p \in S}

\* What is one to one has the same size.
LEMMA SameSize ==
    ASSUME NEW S, NEW T, IsFiniteSet(S), NEW f \in [S -> T],
           \A a, b \in S : f[a] = f[b] => a = b,
           \A t \in T : \E s \in S : f[s] = t
    PROVE  Cardinality(T) = Cardinality(S)
<1>1. f \in Bijection(S, T)
  BY Fun_IsBij
<1> QED  BY <1>1, FS_Bijection DEF ExistsBijection

\* Counted from the end, numbers are as many.
LEMMA TurnedSize ==
    ASSUME NEW n \in Nat, NEW S \in SUBSET (1..n)
    PROVE  Cardinality(Turned(n, S)) = Cardinality(S)
<1> DEFINE f == [i \in S |-> n + 1 - i]
<1>1. f \in [S -> Turned(n, S)]
  BY DEF Turned
<1>2. \A a, b \in S : f[a] = f[b] => a = b
  OBVIOUS
<1>3. \A t \in Turned(n, S) : \E s \in S : f[s] = t
  BY DEF Turned
<1>4. IsFiniteSet(1..n)
  BY FS_Interval
<1>5. IsFiniteSet(S)
  BY <1>4, FS_Subset
<1> HIDE DEF f
<1> QED  BY <1>1, <1>2, <1>3, <1>5, SameSize

\* So are places.
LEMMA TurnedPlacesSize ==
    ASSUME NEW n \in Nat, NEW S \in SUBSET ((1..n) \X Nat), IsFiniteSet(S)
    PROVE  Cardinality(TurnedPlaces(n, S)) = Cardinality(S)
<1> DEFINE f == [p \in S |-> <<n + 1 - p[1], p[2]>>]
<1>1. f \in [S -> TurnedPlaces(n, S)]
  BY DEF TurnedPlaces
<1>2. \A a, b \in S : f[a] = f[b] => a = b
  OBVIOUS
<1>3. \A t \in TurnedPlaces(n, S) : \E s \in S : f[s] = t
  BY DEF TurnedPlaces
<1> HIDE DEF f
<1> QED  BY <1>1, <1>2, <1>3, SameSize

--------------------------------------------------------------------------------
\* A page and where it lies among the pages in reverse.
LEMMA BackPages ==
    ASSUME NEW pages, NEW n \in Nat, Len(pages) = n, DOMAIN pages = 1..n
    PROVE  /\ DOMAIN Backwards(pages) = 1..n
           /\ \A i \in 1..n : n + 1 - i \in 1..n /\ Backwards(pages)[i] = pages[n + 1 - i]
  BY DEF Backwards

\* The pages of a catalog are the same ones, counted from the end.
LEMMA CarriersTurned ==
    ASSUME NEW pages, NEW n \in Nat, Len(pages) = n, DOMAIN pages = 1..n, NEW carrier
    PROVE  Catalog!Carriers(Backwards(pages), carrier) = Turned(n, Catalog!Carriers(pages, carrier))
<1> DEFINE back == Backwards(pages)
<1>1. DOMAIN back = 1..n /\ \A i \in 1..n : n + 1 - i \in 1..n /\ back[i] = pages[n + 1 - i]
  BY BackPages
<1> HIDE DEF back
<1>2. ASSUME NEW i \in 1..n
      PROVE  i \in Catalog!Carriers(back, carrier) <=> n + 1 - i \in Catalog!Carriers(pages, carrier)
  BY <1>1 DEF Catalog!Carriers
<1>3. ASSUME NEW i \in 1..n
      PROVE  i \in Turned(n, Catalog!Carriers(pages, carrier)) <=> n + 1 - i \in Catalog!Carriers(pages, carrier)
  <2>1. i = n + 1 - (n + 1 - i) /\ \A j \in 1..n : i = n + 1 - j => j = n + 1 - i
    OBVIOUS
  <2>2. Catalog!Carriers(pages, carrier) \subseteq 1..n
    BY DEF Catalog!Carriers
  <2> QED  BY <2>1, <2>2 DEF Turned
<1>4. Catalog!Carriers(back, carrier) \subseteq 1..n /\ Turned(n, Catalog!Carriers(pages, carrier)) \subseteq 1..n
  BY <1>1 DEF Turned, Catalog!Carriers
<1> QED  BY <1>2, <1>3, <1>4 DEF back

\* So are the entries that are kept of them.
LEMMA KeptTurned ==
    ASSUME NEW pages, NEW n \in Nat, Len(pages) = n, DOMAIN pages = 1..n, NEW read \in SUBSET (1..n)
    PROVE  Catalog!Kept(Backwards(pages), Turned(n, read)) = Catalog!Kept(pages, read)
<1> DEFINE back == Backwards(pages)
<1>1. \A i \in read : /\ n + 1 - i \in Turned(n, read)
                      /\ back[n + 1 - i] = pages[i]
  <2>1. \A i \in 1..n : n + 1 - i \in 1..n /\ n + 1 - (n + 1 - i) = i
    OBVIOUS
  <2> QED  BY <2>1, BackPages DEF Turned
<1>2. \A j \in Turned(n, read) : \E i \in read : j = n + 1 - i
  BY DEF Turned
<1> HIDE DEF back
<1> QED  BY <1>1, <1>2 DEF Catalog!Kept, back

\* So are the places of their records, and what lies there.
LEMMA PlacesTurned ==
    ASSUME NEW pages, NEW n \in Nat, Len(pages) = n, DOMAIN pages = 1..n, NEW read \in SUBSET (1..n), NEW kinds
    PROVE  /\ Catalog!Places(Backwards(pages), Turned(n, read), kinds) = TurnedPlaces(n, Catalog!Places(pages, read, kinds))
           /\ \A p \in Catalog!Places(pages, read, kinds) :
                 Catalog!At(Backwards(pages), <<n + 1 - p[1], p[2]>>) = Catalog!At(pages, p)
<1> DEFINE back == Backwards(pages)
           of(i) == Catalog!OfKinds(Catalog!First(pages[i]), kinds)
           row(i) == {<<i, k>> : k \in of(i)}
           places == Catalog!Places(pages, read, kinds)
<1>1. \A i \in read : /\ n + 1 - i \in Turned(n, read)
                      /\ back[n + 1 - i] = pages[i]
  <2>1. \A i \in 1..n : n + 1 - i \in 1..n /\ n + 1 - (n + 1 - i) = i
    OBVIOUS
  <2> QED  BY <2>1, BackPages DEF Turned
<1>2. \A j \in Turned(n, read) : \E i \in read : j = n + 1 - i
  BY DEF Turned
<1>3. \A i : \A p : p \in row(i) <=> \E k \in of(i) : p = <<i, k>>
  OBVIOUS
<1>4. \A p : p \in places <=> \E i \in read : \E k \in of(i) : p = <<i, k>>
  <2>1. places = UNION {row(i) : i \in read}
    BY DEF Catalog!Places
  <2> HIDE DEF places, row, of
  <2>2. \A p : p \in places <=> \E i \in read : p \in row(i)
    BY <2>1
  <2> QED  BY <1>3, <2>2
<1> HIDE DEF back, of
<1>5. Catalog!Places(back, Turned(n, read), kinds)
        = UNION {{<<j, k>> : k \in Catalog!OfKinds(Catalog!First(back[j]), kinds)} : j \in Turned(n, read)}
  BY DEF Catalog!Places
<1>6. \A p : p \in Catalog!Places(back, Turned(n, read), kinds)
             <=> \E i \in read : \E k \in of(i) : p = <<n + 1 - i, k>>
  BY <1>1, <1>2, <1>5 DEF of
<1> HIDE DEF places
<1>7. \A p : p \in TurnedPlaces(n, places) <=> \E i \in read : \E k \in of(i) : p = <<n + 1 - i, k>>
  <2> DEFINE turn(q) == <<n + 1 - q[1], q[2]>>
  <2>1. \A p : p \in TurnedPlaces(n, places) <=> \E q \in places : p = turn(q)
    BY DEF TurnedPlaces
  <2>2. \A i, k : turn(<<i, k>>) = <<n + 1 - i, k>>
    OBVIOUS
  <2> HIDE DEF turn
  <2>3. ASSUME NEW q \in places PROVE \E i \in read : \E k \in of(i) : turn(q) = <<n + 1 - i, k>>
    BY <1>4, <2>2
  <2>4. ASSUME NEW i \in read, NEW k \in of(i)
        PROVE  <<i, k>> \in places /\ turn(<<i, k>>) = <<n + 1 - i, k>>
    BY <1>4, <2>2
  <2>5. ASSUME NEW p, p \in TurnedPlaces(n, places)
        PROVE  \E i \in read : \E k \in of(i) : p = <<n + 1 - i, k>>
    BY <2>1, <2>3, <2>5
  <2>6. ASSUME NEW p, NEW i \in read, NEW k \in of(i), p = <<n + 1 - i, k>>
        PROVE  p \in TurnedPlaces(n, places)
    BY <2>1, <2>4, <2>6
  <2> QED  BY <2>5, <2>6
<1>8. \A p \in places : Catalog!At(back, <<n + 1 - p[1], p[2]>>) = Catalog!At(pages, p)
  BY <1>1, <1>4 DEF Catalog!At
<1>9. Catalog!Places(back, Turned(n, read), kinds) = TurnedPlaces(n, places)
  <2> DEFINE there == Catalog!Places(back, Turned(n, read), kinds)
             turned == TurnedPlaces(n, places)
  <2>1. \A p : p \in there <=> p \in turned
    BY <1>6, <1>7
  <2> HIDE DEF there, turned
  <2>2. there = turned
    BY <2>1
  <2> QED  BY <2>2 DEF there, turned
<1> QED  BY <1>8, <1>9 DEF back, places

\* What comes from a finite set is finite.
LEMMA FiniteFrom ==
    ASSUME NEW S, NEW T, IsFiniteSet(S), NEW f \in [S -> T], \A t \in T : \E s \in S : f[s] = t
    PROVE  IsFiniteSet(T)
<1>1. f \in Surjection(S, T)
  BY Fun_IsSurj
<1> QED  BY <1>1, FS_Surjection

\* There are finitely many places of records.
LEMMA PlacesAre ==
    ASSUME NEW pages, NEW n \in Nat, NEW read \in SUBSET (1..n), NEW kinds,
           \A i \in read : \E m \in Nat : DOMAIN Catalog!First(pages[i]).records = 1..m
    PROVE  /\ IsFiniteSet(Catalog!Places(pages, read, kinds))
           /\ Catalog!Places(pages, read, kinds) \subseteq (1..n) \X Nat
<1> DEFINE of(i) == Catalog!OfKinds(Catalog!First(pages[i]), kinds)
           row(i) == {<<i, k>> : k \in of(i)}
           rows == {row(i) : i \in read}
<1>1. ASSUME NEW i \in read PROVE IsFiniteSet(of(i)) /\ of(i) \subseteq Nat
  <2>1. PICK m \in Nat : DOMAIN Catalog!First(pages[i]).records = 1..m
    OBVIOUS
  <2>2. of(i) \in SUBSET (1..m)
    BY <2>1 DEF Catalog!OfKinds
  <2>3. IsFiniteSet(1..m)
    BY FS_Interval
  <2> HIDE DEF of
  <2> QED  BY <2>2, <2>3, FS_Subset
<1>2. Catalog!Places(pages, read, kinds) = UNION rows
  BY DEF Catalog!Places
<1> HIDE DEF of
<1>3. ASSUME NEW i \in read PROVE IsFiniteSet(row(i))
  <2> DEFINE f == [k \in of(i) |-> <<i, k>>]
  <2>1. f \in [of(i) -> row(i)] /\ \A t \in row(i) : \E k \in of(i) : f[k] = t
    OBVIOUS
  <2> HIDE DEF f, row
  <2> QED  BY <1>1, <2>1, FiniteFrom
<1>4. UNION rows \subseteq (1..n) \X Nat
  BY <1>1
<1> HIDE DEF row
<1>5. IsFiniteSet(read)
  <2>1. IsFiniteSet(1..n)
    BY FS_Interval
  <2> QED  BY <2>1, FS_Subset
<1>6. IsFiniteSet(rows)
  <2> DEFINE g == [i \in read |-> row(i)]
  <2>1. g \in [read -> rows] /\ \A t \in rows : \E i \in read : g[i] = t
    OBVIOUS
  <2> HIDE DEF g, rows
  <2> QED  BY <1>5, <2>1, FiniteFrom
<1>7. \A T \in rows : IsFiniteSet(T)
  BY <1>3
<1> QED  BY <1>2, <1>4, <1>6, <1>7, FS_UNION

\* What is collected from the pages is collected from them in reverse.
LEMMA CollectionTurned ==
    ASSUME NEW pages, NEW n \in Nat, Len(pages) = n, DOMAIN pages = 1..n, NEW read \in SUBSET (1..n),
           \A i \in read : \E m \in Nat : DOMAIN Catalog!First(pages[i]).records = 1..m
    PROVE  Catalog!Collection(Backwards(pages), Turned(n, read)) = Catalog!Collection(pages, read)
<1> DEFINE back == Backwards(pages)
           turned == Turned(n, read)
           total(p, r, kinds) == Catalog!Cardinality(Catalog!Places(p, r, kinds))
           claims(p, r) ==
               LET of == Catalog!Places(p, r, {"prefix"}) IN
               [id \in {Catalog!At(p, q).key : q \in of} |-> Catalog!Cardinality({q \in of : Catalog!At(p, q).key = id})]
           skips(p, why) == Catalog!Cardinality({i \in DOMAIN p : p[i].skipped = why})
           skipped(p) == [why \in {"no_header", "ambiguous_header", "not_type4", "other"} |-> skips(p, why)]
           size(r) == Catalog!Cardinality(r)
<1>1. \A kinds : total(back, turned, kinds) = total(pages, read, kinds)
  <2> SUFFICES ASSUME NEW kinds
               PROVE  Cardinality(Catalog!Places(back, turned, kinds)) = Cardinality(Catalog!Places(pages, read, kinds))
    BY CountsAre
  <2>1. Catalog!Places(back, turned, kinds) = TurnedPlaces(n, Catalog!Places(pages, read, kinds))
    BY PlacesTurned
  <2>2. IsFiniteSet(Catalog!Places(pages, read, kinds)) /\ Catalog!Places(pages, read, kinds) \in SUBSET ((1..n) \X Nat)
    BY PlacesAre
  <2> QED  BY <2>1, <2>2, TurnedPlacesSize
<1>2. claims(back, turned) = claims(pages, read)
  <2> DEFINE here == Catalog!Places(pages, read, {"prefix"})
             there == Catalog!Places(back, turned, {"prefix"})
             turn(q) == <<n + 1 - q[1], q[2]>>
             key(q) == Catalog!At(pages, q).key
             Key(q) == Catalog!At(back, q).key
  <2>1. there = {turn(q) : q \in here} /\ \A q \in here : Key(turn(q)) = key(q)
    <3>1. /\ there = TurnedPlaces(n, here)
          /\ \A q \in here : Catalog!At(back, turn(q)) = Catalog!At(pages, q)
      BY PlacesTurned
    <3> HIDE DEF here, there
    <3> QED  BY <3>1 DEF TurnedPlaces
  <2>2. IsFiniteSet(here) /\ here \subseteq (1..n) \X Nat
    BY PlacesAre
  <2>3. ASSUME NEW id
        PROVE  Catalog!Cardinality({q \in there : Key(q) = id}) = Catalog!Cardinality({q \in here : key(q) = id})
    <3>1. {q \in there : Key(q) = id} = {turn(q) : q \in {p \in here : key(p) = id}}
      <4> HIDE DEF turn, Key, key, here, there
      <4> QED  BY <2>1
    <3>2. {turn(q) : q \in {p \in here : key(p) = id}} = TurnedPlaces(n, {p \in here : key(p) = id})
      BY DEF TurnedPlaces
    <3>3. {p \in here : key(p) = id} \in SUBSET here
      OBVIOUS
    <3> HIDE DEF turn, Key, key, here, there
    <3>4. IsFiniteSet({p \in here : key(p) = id}) /\ {p \in here : key(p) = id} \in SUBSET ((1..n) \X Nat)
      BY <2>2, <3>3, FS_Subset
    <3> QED  BY <3>1, <3>2, <3>4, TurnedPlacesSize, CountsAre
  <2>4. claims(pages, read) = [id \in {key(q) : q \in here} |-> Catalog!Cardinality({q \in here : key(q) = id})]
    OBVIOUS
  <2>5. claims(back, turned) = [id \in {Key(q) : q \in there} |-> Catalog!Cardinality({q \in there : Key(q) = id})]
    OBVIOUS
  <2> HIDE DEF turn, Key, key, here, there, claims
  <2> DEFINE count(id) == Catalog!Cardinality({q \in here : key(q) = id})
             Count(id) == Catalog!Cardinality({q \in there : Key(q) = id})
             ids == {key(q) : q \in here}
             Ids == {Key(q) : q \in there}
  <2>6. Ids = ids
    BY <2>1
  <2>7. \A id : Count(id) = count(id)
    BY <2>3
  <2>8. claims(pages, read) = [id \in ids |-> count(id)] /\ claims(back, turned) = [id \in Ids |-> Count(id)]
    BY <2>4, <2>5
  <2> HIDE DEF ids, Ids, count, Count
  <2> QED  BY <2>6, <2>7, <2>8
<1>3. ASSUME NEW why PROVE skips(back, why) = skips(pages, why)
  <2> DEFINE with == {i \in DOMAIN pages : pages[i].skipped = why}
             With == {i \in DOMAIN back : back[i].skipped = why}
  <2>1. DOMAIN back = 1..n /\ \A i \in 1..n : n + 1 - i \in 1..n /\ back[i] = pages[n + 1 - i]
    BY BackPages
  <2>2. \A i \in 1..n : n + 1 - (n + 1 - i) = i
    OBVIOUS
  <2>3. with \in SUBSET (1..n) /\ With \subseteq 1..n /\ Turned(n, with) \subseteq 1..n
    BY <2>1 DEF Turned
  <2>4. \A i \in 1..n : i \in With <=> n + 1 - i \in with
    BY <2>1
  <2> HIDE DEF with, With
  <2>5. \A i \in 1..n : i \in Turned(n, with) <=> n + 1 - i \in with
    BY <2>2, <2>3 DEF Turned
  <2>6. With = Turned(n, with)
    BY <2>3, <2>4, <2>5
  <2>7. Cardinality(With) = Cardinality(with)
    BY <2>3, <2>6, TurnedSize
  <2> QED  BY <2>7, CountsAre DEF with, With
<1>4. size(turned) = size(read)
  BY TurnedSize, CountsAre
<1>5. Catalog!Kept(back, turned) = Catalog!Kept(pages, read)
  BY KeptTurned
<1> DEFINE collection(p, r) ==
               [refused |-> Null, entries |-> Catalog!Kept(p, r), pages |-> size(r),
                slots |-> total(p, r, Catalog!Kinds), missing |-> total(p, r, {"missing"}),
                parsed |-> total(p, r, {"parsed"}), unparsed |-> total(p, r, Catalog!Unparsed),
                none |-> total(p, r, {"none"}), short |-> total(p, r, {"short"}),
                claims |-> claims(p, r), skipped |-> skipped(p)]
<1>6. \A p, r : Catalog!Collection(p, r) = collection(p, r)
  BY DEF Catalog!Collection
<1>7. skipped(back) = skipped(pages)
  <2> HIDE DEF skips
  <2> QED  BY <1>3
<1> HIDE DEF back, turned, total, claims, skips, skipped, size
<1>8. collection(back, turned) = collection(pages, read)
  BY <1>1, <1>2, <1>4, <1>5, <1>7
<1> QED  BY <1>6, <1>8 DEF back, turned

--------------------------------------------------------------------------------
\* A sequence has its places numbered from one.
LEMMA SequencesAre == \A s : IsSequence(s) => Len(s) \in Nat /\ DOMAIN s = 1..Len(s)
  BY LenProperties DEF IsSequence

\* A page of the catalog has a first materialization, as one of them.
LEMMA CarrierPage ==
    ASSUME NEW x \in CatalogPages, NEW carrier, NEW i \in Catalog!Carriers(x.pages, carrier)
    PROVE  LET candidates == x.pages[i].candidates IN
           /\ i \in DOMAIN x.pages
           /\ 1 \in DOMAIN candidates /\ Catalog!First(x.pages[i]) = candidates[1]
           /\ \A j \in DOMAIN candidates : \E m \in Nat : DOMAIN candidates[j].records = 1..m
<1> DEFINE candidates == x.pages[i].candidates
<1>1. i \in DOMAIN x.pages /\ Catalog!IsCarrier(x.pages[i], carrier)
  BY DEF Catalog!Carriers
<1>2. IsSequence(candidates) /\ \A j \in DOMAIN candidates : IsSequence(candidates[j].records)
  BY <1>1, CatalogsAssumption
<1>3. candidates # <<>> /\ DOMAIN candidates # {}
  BY <1>1 DEF Catalog!IsCarrier, Catalog!ToSet
<1>4. Len(candidates) \in Nat /\ DOMAIN candidates = 1..Len(candidates)
  BY <1>2, SequencesAre
<1>5. 1 \in DOMAIN candidates
  BY <1>3, <1>4
<1>6. \A j \in DOMAIN candidates : \E m \in Nat : DOMAIN candidates[j].records = 1..m
  BY <1>2, SequencesAre
<1> QED  BY <1>1, <1>5, <1>6 DEF Catalog!First

\* The order of the pages decides nothing, but which error is found first.
LEMMA EitherWay ==
    ASSUME NEW x \in CatalogPages, NEW carrier
    PROVE  LET once == Catalog!Collected(x.pages, carrier)
               again == Catalog!Collected(Backwards(x.pages), carrier)
           IN /\ once.refused = Null => again = once
              /\ once.refused # Null => again.refused # Null
<1> DEFINE pages == x.pages
           n == Len(pages)
           back == Backwards(pages)
           carriers == Catalog!Carriers(pages, carrier)
           turned == Turned(n, carriers)
           once == Catalog!Collected(pages, carrier)
           again == Catalog!Collected(back, carrier)
           fine == (\A i \in carriers : Sound(pages[i], carrier)) /\ ~Catalog!Conflict(Catalog!Kept(pages, carriers))
           Fine == (\A i \in turned : Sound(back[i], carrier)) /\ ~Catalog!Conflict(Catalog!Kept(back, turned))
<1>1. n \in Nat /\ DOMAIN pages = 1..n
  BY CatalogsAssumption, SequencesAre
<1>2. ASSUME NEW i \in carriers PROVE \E m \in Nat : DOMAIN Catalog!First(pages[i]).records = 1..m
  <2>1. /\ 1 \in DOMAIN pages[i].candidates /\ Catalog!First(pages[i]) = pages[i].candidates[1]
        /\ \A j \in DOMAIN pages[i].candidates : \E m \in Nat : DOMAIN pages[i].candidates[j].records = 1..m
    BY CarrierPage
  <2> QED  BY <2>1
<1>3. carriers \in SUBSET (1..n)
  BY <1>1 DEF Catalog!Carriers
<1> HIDE DEF n
<1>4. DOMAIN back = 1..n /\ \A i \in 1..n : n + 1 - i \in 1..n /\ back[i] = pages[n + 1 - i]
  BY <1>1, BackPages DEF n
<1>5. Catalog!Carriers(back, carrier) = turned
  BY <1>1, CarriersTurned DEF n
<1>6. Catalog!Kept(back, turned) = Catalog!Kept(pages, carriers)
  BY <1>1, <1>3, KeptTurned DEF n
<1>7. Catalog!Collection(back, turned) = Catalog!Collection(pages, carriers)
  BY <1>1, <1>2, <1>3, CollectionTurned DEF n
<1>8. (\A i \in turned : Sound(back[i], carrier)) <=> (\A i \in carriers : Sound(pages[i], carrier))
  <2>1. \A i \in carriers : n + 1 - i \in turned /\ back[n + 1 - i] = pages[i]
    <3>1. \A i \in 1..n : n + 1 - i \in 1..n /\ n + 1 - (n + 1 - i) = i
      BY <1>1
    <3> QED  BY <1>3, <1>4, <3>1 DEF Turned
  <2>2. \A j \in turned : \E i \in carriers : j = n + 1 - i
    BY DEF Turned
  <2> HIDE DEF back, turned, carriers, pages
  <2> QED  BY <2>1, <2>2
<1>9. (fine => once = Catalog!Collection(pages, carriers)) /\ (~fine => once.refused # Null)
  BY <1>1, CollectedWhole
<1>10. (Fine => again = Catalog!Collection(back, turned)) /\ (~Fine => again.refused # Null)
  <2> DEFINE all == Catalog!Carriers(back, carrier)
             clean == (\A i \in all : Sound(back[i], carrier)) /\ ~Catalog!Conflict(Catalog!Kept(back, all))
  <2>1. DOMAIN back \subseteq Nat
    BY <1>1, <1>4
  <2>2. (clean => again = Catalog!Collection(back, all)) /\ (~clean => again.refused # Null)
    BY <2>1, CollectedWhole
  <2> HIDE DEF back, again, all, turned
  <2> QED  BY <1>5, <2>2 DEF all
<1>11. Catalog!Collection(pages, carriers).refused = Null
  BY DEF Catalog!Collection
<1> QED  BY <1>6, <1>7, <1>8, <1>9, <1>10, <1>11

\* Behind the gate, a slot of a catalog page that could be a row of a required
\* table is one, and kept.
LEMMA RequiredRows ==
    ASSUME NEW x \in CatalogPages,
           Catalog!Collected(x.pages, Catalog!TableCarrier).refused = Null,
           Catalog!UnambiguousTables(Catalog!Collected(x.pages, Catalog!TableCarrier), x.ids) = Null,
           NEW i \in DOMAIN x.pages, Catalog!IsCarrier(x.pages[i], Catalog!TableCarrier),
           NEW j \in DOMAIN x.pages[i].candidates,
           NEW k \in DOMAIN x.pages[i].candidates[j].records
    PROVE  LET record == x.pages[i].candidates[j].records[k] IN
           /\ record.is # "none"
           /\ record.key \in x.ids =>
                /\ record.is = "parsed"
                /\ Catalog!Body(record) \in Catalog!Collected(x.pages, Catalog!TableCarrier).entries
<1> DEFINE pages == x.pages
           carriers == Catalog!Carriers(pages, Catalog!TableCarrier)
           tables == Catalog!Collected(pages, Catalog!TableCarrier)
           one == pages[i].candidates[j]
           first == Catalog!First(pages[i])
           record == one.records[k]
           none == Catalog!Places(pages, carriers, {"none"})
           claimed == Catalog!Places(pages, carriers, {"prefix"})
<1>1. /\ i \in carriers
      /\ first \in Catalog!ToSet(pages[i].candidates) /\ one \in Catalog!ToSet(pages[i].candidates)
      /\ \E m \in Nat : DOMAIN one.records = 1..m
  <2>1. i \in carriers
    BY DEF Catalog!Carriers
  <2>2. /\ 1 \in DOMAIN pages[i].candidates /\ first = pages[i].candidates[1]
        /\ \A l \in DOMAIN pages[i].candidates : \E m \in Nat : DOMAIN pages[i].candidates[l].records = 1..m
    BY <2>1, CarrierPage
  <2> QED  BY <2>1, <2>2 DEF Catalog!ToSet
<1>2. Len(pages) \in Nat /\ DOMAIN pages = 1..Len(pages)
  BY CatalogsAssumption, SequencesAre
<1>3. /\ \A l \in carriers : Sound(pages[l], Catalog!TableCarrier)
      /\ tables = Catalog!Collection(pages, carriers)
  <2>1. DOMAIN pages \subseteq Nat
    BY <1>2
  <2> QED  BY <2>1, CollectedWhole
<1>4. Catalog!Semantic(one) = Catalog!Semantic(first) /\ Catalog!Tally(one) = Catalog!Tally(first)
  BY <1>1, <1>3 DEF Sound, Catalog!Divergent
<1>5. tables.none = 0 /\ \A id \in x.ids : id \notin DOMAIN tables.claims
  BY CollectionsAssumption DEF Catalog!UnambiguousTables
<1>6. /\ tables.entries = Catalog!Kept(pages, carriers)
      /\ tables.none = Catalog!Cardinality(none)
      /\ DOMAIN tables.claims = {Catalog!At(pages, p).key : p \in claimed}
  BY <1>3 DEF Catalog!Collection
<1>7. none = {}
  <2>1. ASSUME NEW l \in carriers PROVE \E m \in Nat : DOMAIN Catalog!First(pages[l]).records = 1..m
    <3>1. /\ 1 \in DOMAIN pages[l].candidates /\ Catalog!First(pages[l]) = pages[l].candidates[1]
          /\ \A c \in DOMAIN pages[l].candidates : \E m \in Nat : DOMAIN pages[l].candidates[c].records = 1..m
      BY CarrierPage
    <3> QED  BY <3>1
  <2>2. carriers \in SUBSET (1..Len(pages))
    BY <1>2 DEF Catalog!Carriers
  <2>3. IsFiniteSet(none)
    BY <1>2, <2>1, <2>2, PlacesAre
  <2>4. Cardinality(none) = 0
    BY <1>5, <1>6, CountsAre
  <2> QED  BY <2>3, <2>4, FS_EmptySet
<1>8. Catalog!OfKinds(first, {"none"}) = {}
  <2>1. \A l \in Catalog!OfKinds(first, {"none"}) : <<i, l>> \in none
    BY <1>1 DEF Catalog!Places
  <2> HIDE DEF none, first
  <2> QED  BY <1>7, <2>1
<1>9. Catalog!CountOf(one, {"none"}) = Catalog!CountOf(first, {"none"}) /\ Catalog!ClaimedIds(one) = Catalog!ClaimedIds(first)
  <2>1. \A c : Catalog!Tally(c).none = Catalog!CountOf(c, {"none"}) /\ DOMAIN Catalog!Tally(c).claims = Catalog!ClaimedIds(c)
    BY DEF Catalog!Tally
  <2> QED  BY <1>4, <2>1
<1>10. Catalog!OfKinds(one, {"none"}) = {}
  <2>1. Cardinality(Catalog!OfKinds(one, {"none"})) = 0
    BY <1>8, <1>9, CountsAre, FS_EmptySet DEF Catalog!CountOf
  <2>2. PICK m \in Nat : DOMAIN one.records = 1..m
    BY <1>1
  <2>3. IsFiniteSet(1..m) /\ Catalog!OfKinds(one, {"none"}) \in SUBSET (1..m)
    BY <2>2, FS_Interval DEF Catalog!OfKinds
  <2>4. IsFiniteSet(Catalog!OfKinds(one, {"none"}))
    BY <2>3, FS_Subset
  <2> QED  BY <2>1, <2>4, FS_EmptySet
<1>11. record.is # "none"
  BY <1>10 DEF Catalog!OfKinds
<1>12. Catalog!ClaimedIds(first) \subseteq DOMAIN tables.claims
  <2>1. \A l \in Catalog!OfKinds(first, {"prefix"}) :
           <<i, l>> \in claimed /\ Catalog!At(pages, <<i, l>>).key = first.records[l].key
    BY <1>1 DEF Catalog!Places, Catalog!At
  <2> HIDE DEF claimed, first, tables
  <2> QED  BY <1>6, <2>1 DEF Catalog!ClaimedIds
<1>13. record.key \in x.ids => record.is # "prefix"
  <2>1. record.is = "prefix" => record.key \in Catalog!ClaimedIds(one)
    BY DEF Catalog!ClaimedIds, Catalog!OfKinds
  <2> QED  BY <1>5, <1>9, <1>12, <2>1
<1>14. record.is \in Catalog!Kinds /\ (record.is \in {"missing", "short"} => record.key \notin x.ids)
  BY CatalogsAssumption
<1>15. record.is = "parsed" => Catalog!Body(record) \in tables.entries
  <2>1. record.is = "parsed" => Catalog!Body(record) \in Catalog!Semantic(one)
    BY DEF Catalog!Semantic, Catalog!OfKinds
  <2>2. Catalog!Semantic(first) \subseteq Catalog!Kept(pages, carriers)
    BY <1>1 DEF Catalog!Kept
  <2> QED  BY <1>4, <1>6, <2>1, <2>2
<1>16. record.key \in x.ids => record.is = "parsed"
  BY <1>11, <1>13, <1>14 DEF Catalog!Kinds, Catalog!Unparsed
<1> QED  BY <1>11, <1>15, <1>16

\* Complete columns are one for each ordinal.
LEMMA OrdinalsComplete ==
    ASSUME NEW columns, NEW expected, Catalog!CompleteColumns(columns, 5, expected) = Null
    PROVE  \A o \in 1..expected : \E e \in columns.entries : e.key[1] = 5 /\ e.key[2] = o
<1> DEFINE found == {e \in columns.entries : e.key[1] = 5}
<1>1. {e.key[2] : e \in found} = 1..expected
  BY CollectionsAssumption DEF Catalog!CompleteColumns
<1> QED  BY <1>1

--------------------------------------------------------------------------------
\* The first page apart, a store in reverse has its pages in reverse.
LEMMA StoreTurned ==
    ASSUME NEW x \in RecoveredPages
    PROVE  LET turned == <<x[1]>> \o Backwards(Tail(x)) IN
           /\ Len(x) \in Nat /\ DOMAIN x = 1..Len(x) /\ Len(turned) = Len(x)
           /\ \A i \in 2..Len(x) : turned[i] = x[Len(x) + 2 - i]
<1> DEFINE S == {x[i] : i \in DOMAIN x}
           n == Len(x)
           rest == Tail(x)
           back == Backwards(rest)
           head == <<x[1]>>
<1>1. x \in Seq(S) /\ x # <<>>
  BY StoresAssumption DEF IsSequence
<1>2. n \in Nat /\ n >= 1 /\ DOMAIN x = 1..n /\ x[1] \in S
  BY <1>1, LenProperties, EmptySeq
<1>3. rest \in Seq(S) /\ Len(rest) = n - 1 /\ \A i \in 1..(n-1) : rest[i] = x[i+1]
  BY <1>1, HeadTailProperties
<1>4. DOMAIN rest = 1..(n-1)
  BY <1>3, LenProperties
<1> HIDE DEF n, rest, S
<1>5. back = [i \in 1..(n-1) |-> rest[n - i]]
  BY <1>2, <1>3, <1>4 DEF Backwards
<1>6. back \in Seq(S) /\ Len(back) = n - 1
  <2>1. \A i \in 1..(n-1) : n - i \in 1..(n-1)
    BY <1>2
  <2>2. \A i \in 1..(n-1) : rest[i] \in S
    BY <1>3, <1>4, ElementOfSeq
  <2>3. back \in [1..(n-1) -> S]
    BY <1>5, <2>1, <2>2
  <2> HIDE DEF back
  <2> QED  BY <1>2, <2>3, IsASeq, LenProperties
<1>7. \A i \in 1..(n-1) : back[i] = x[n + 1 - i]
  BY <1>2, <1>3, <1>5
<1> HIDE DEF back
<1>8. head \in Seq(S) /\ Len(head) = 1
  BY <1>2
<1> HIDE DEF head
<1>9. /\ Len(head \o back) = 1 + (n - 1)
      /\ \A i \in 1..(1 + (n - 1)) : (head \o back)[i] = IF i <= 1 THEN head[i] ELSE back[i - 1]
  <2>1. /\ Len(head \o back) = Len(head) + Len(back)
        /\ \A i \in 1..(Len(head) + Len(back)) :
              (head \o back)[i] = IF i <= Len(head) THEN head[i] ELSE back[i - Len(head)]
    BY <1>6, <1>8, ConcatProperties
  <2> QED  BY <1>6, <1>8, <2>1
<1>10. \A i \in 2..n : (head \o back)[i] = x[n + 2 - i]
  <2> SUFFICES ASSUME NEW i \in 2..n PROVE (head \o back)[i] = x[n + 2 - i]
    OBVIOUS
  <2>1. i \in 1..(1 + (n - 1)) /\ ~(i <= 1) /\ i - 1 \in 1..(n - 1) /\ n + 1 - (i - 1) = n + 2 - i
    BY <1>2
  <2> QED  BY <1>7, <1>9, <2>1
<1>11. Len(head \o back) = n
  BY <1>2, <1>9
<1> QED  BY <1>2, <1>10, <1>11 DEF n, head, back, rest

\* Where every page can be read, the rows of its tables are found in any order.
LEMMA RowsEitherWay ==
    ASSUME NEW x \in RecoveredPages, \A i \in DOMAIN x : x[i].type # "unreadable"
    PROVE  Catalog!TableRows(<<x[1]>> \o Backwards(Tail(x))) = Catalog!TableRows(x)
<1> DEFINE turned == <<x[1]>> \o Backwards(Tail(x))
           n == Len(x)
           extents == {i \in 2..n : x[i].type = "extent"}
           Extents == {i \in 2..n : turned[i].type = "extent"}
<1>1. /\ n \in Nat /\ DOMAIN x = 1..n /\ Len(turned) = n
      /\ \A i \in 2..n : turned[i] = x[n + 2 - i]
  BY StoreTurned
<1> HIDE DEF turned, n
<1>2. \A i \in 2..n : n + 2 - i \in 2..n /\ n + 2 - (n + 2 - i) = i
  BY <1>1
<1>3. \A i \in 2..n : x[i].type # "unreadable" /\ turned[i].type # "unreadable"
  BY <1>1, <1>2
<1>4. Catalog!Visited(x, {"extent"}) = extents
  BY <1>3 DEF Catalog!Visited, n
<1>5. Catalog!Visited(turned, {"extent"}) = Extents
  BY <1>1, <1>3 DEF Catalog!Visited
<1>6. \A i \in extents : n + 2 - i \in Extents /\ turned[n + 2 - i] = x[i]
  BY <1>1, <1>2
<1>7. \A i \in Extents : n + 2 - i \in extents /\ turned[i] = x[n + 2 - i]
  BY <1>1, <1>2
<1> HIDE DEF extents, Extents
<1>8. \A e : e \in Catalog!TableRows(turned) <=> e \in Catalog!TableRows(x)
  BY <1>4, <1>5, <1>6, <1>7 DEF Catalog!TableRows
<1> QED  BY <1>8 DEF turned

\* Of what is kept, each is the only one of its id and of its name.
LEMMA OnlyOneKept ==
    ASSUME NEW rows, NEW s \in Catalog!ConflictFree(rows), NEW t \in Catalog!ConflictFree(rows),
           s.key = t.key \/ s.body.name = t.body.name
    PROVE  s = t
  BY DEF Catalog!ConflictFree

\* The order of the pages decides nothing about a catalog, no record of its pages
\* can hold another row of a table that is required once the gate is passed, and
\* a recovered catalog has each id and each name once (CatalogsAgree).
THEOREM OneCatalog == Spec => []CatalogsAgree
<1>1. ASSUME Asked, task = "catalog" PROVE CatalogsAgree
  <2>1. input \in CatalogPages /\ output = CatalogAnswer(input)
    BY <1>1 DEF Asked
  <2>2. /\ output.tables = Catalog!Collected(input.pages, Catalog!TableCarrier)
        /\ output.columns = Catalog!Collected(input.pages, Catalog!ColumnCarrier)
    BY <2>1 DEF CatalogAnswer
  <2>3. output.tables.refused = Null => output.gate = Catalog!UnambiguousTables(output.tables, input.ids)
    BY <2>1 DEF CatalogAnswer
  <2>4. output.columns.refused = Null => output.complete = Catalog!CompleteColumns(output.columns, 5, input.expected)
    BY <2>1 DEF CatalogAnswer
  <2>5. ASSUME NEW c \in {"tables", "columns"}
        PROVE  LET carrier == IF c = "tables" THEN Catalog!TableCarrier ELSE Catalog!ColumnCarrier
                   again == Catalog!Collected(Backwards(input.pages), carrier)
               IN IF output[c].refused = Null THEN again = output[c] ELSE again.refused # Null
    <3>1. CASE c = "tables"
      BY <2>1, <2>2, <3>1, EitherWay
    <3>2. CASE c = "columns"
      BY <2>1, <2>2, <3>2, EitherWay
    <3> QED  BY <3>1, <3>2
  <2>6. ASSUME output.tables.refused = Null, output.gate = Null,
               NEW i \in DOMAIN input.pages, Catalog!IsCarrier(input.pages[i], Catalog!TableCarrier),
               NEW j \in DOMAIN input.pages[i].candidates,
               NEW k \in DOMAIN input.pages[i].candidates[j].records
        PROVE  LET records == input.pages[i].candidates[j].records IN
               /\ records[k].is # "none"
               /\ records[k].key \in input.ids =>
                    /\ records[k].is = "parsed"
                    /\ Catalog!Body(records[k]) \in output.tables.entries
    BY <2>1, <2>2, <2>3, <2>6, RequiredRows
  <2>7. ASSUME output.columns.refused = Null, output.complete = Null
        PROVE  \A o \in 1..input.expected :
                  \E e \in output.columns.entries : e.key[1] = 5 /\ e.key[2] = o
    BY <2>4, <2>7, OrdinalsComplete
  <2> QED  BY <1>1, <2>5, <2>6, <2>7 DEF CatalogsAgree
<1>2. ASSUME Asked, task = "recovered" PROVE CatalogsAgree
  <2>1. input \in RecoveredPages /\ output = RecoveredAnswer(input)
    BY <1>2 DEF Asked
  <2>2. output.tables = Catalog!ConflictFree(Catalog!TableRows(input))
    BY <2>1 DEF RecoveredAnswer
  <2>3. \A s, t \in output.tables : s.key = t.key \/ s.body.name = t.body.name => s = t
    BY <2>2, OnlyOneKept
  <2>4. (\A i \in DOMAIN input : input[i].type # "unreadable") =>
          output.tables = Catalog!ConflictFree(Catalog!TableRows(<<input[1]>> \o Backwards(Tail(input))))
    BY <2>1, <2>2, RowsEitherWay
  <2> QED  BY <1>2, <2>3, <2>4 DEF CatalogsAgree
<1>3. ASSUME task \notin {"catalog", "recovered"} PROVE CatalogsAgree
  BY <1>3 DEF CatalogsAgree
<1>4. Asked => CatalogsAgree
  BY <1>1, <1>2, <1>3
<1> QED  BY <1>4, AskedAlways, PTL
=============================================================================
