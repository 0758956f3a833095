-------------------------------- MODULE Decoders --------------------------------
(****************************************************************************)
(* The decoders of rows and catalogs, each as an action.                     *)
(****************************************************************************)
EXTENDS Calls, Integers, Sequences

CONSTANTS
    DepositTails, BillTails, CheckAmounts, PaymentAmounts, JournalAmounts,
    FixedRows, JournalInputs, JournalTables, PostingInputs, AccountInputs, Selections,
    HighBit, CatalogPages, RecoveredPages, Relations, CatalogBodies

Row == INSTANCE JournalRows
Journal == INSTANCE JournalClassification WITH Nothing <- Null
Adapter == INSTANCE PostingAdapters
Chart == INSTANCE AccountAdapters
Catalog == INSTANCE Catalogs
Parsers ==
    {"check", "companion", "deposit", "counterpart", "payment", "bill", "bill header", "master",
     "source link", "target", "account"}

\* Null is none of the reasons for which rows are refused or set aside.
ASSUME NullAssumption ==
    Null \notin {"panic", "declines", "residual", "Amount", "AmountOutsideSegment", "CanonicalZeroPosting",
                 "DeclaredLengthMismatch", "DocumentReferenceNotUtf8", "InvalidLifecycle", "InvalidPostingDate",
                 "LengthMismatch", "LengthPrefixedFieldOutOfBounds", "MissingAmountCopy",
                 "MissingLinkedTargetRecordNumber", "MissingMasterRecordReference",
                 "MissingRequiredRecordReference", "MissingRequiredReference", "MissingSourceAccount",
                 "NameNotAscii", "NameOutsideSegment", "NoAmount", "SegmentTooShort", "TrailingFieldOutsideSegment",
                 "TypeOutsideSegment", "UnrecognizedCarrier", "UnexpectedFlags", "UnexpectedKind", "UnexpectedLinkMarker",
                 "UnexpectedPrefixByte", "UnexpectedRowClass", "UnexpectedRowKind",
                 "UnexpectedSourceLayoutPrefix", "UnexpectedTargetLayoutMarker", "UnexpectedTerminalLinkFields",
                 "UnexpectedTrailingData", "UnexpectedTrailingSuffix", "UnsupportedFamily",
                 "UnsupportedLinkShape", "ZeroRequiredRecordId", "ZeroRequiredReference"}

\* The answers of the adapters are none of them Null either.
ASSUME AnswersAssumption ==
    /\ \A why \in {"AmbiguousColumn", "InvalidPostingAmount", "InvalidPostingDate", "MissingColumn",
                   "NegativeIdentifier", "NotPostingTable", "PartialSchemaProvenance", "PartialValueUnavailable",
                   "RowNotExactlyDecoded", "SchemaValueCountMismatch", "TransactionTypeRequiresDedicatedDecoder",
                   "UnexpectedColumnType", "UnexpectedNumericLayout", "UnexpectedValueType",
                   "UnknownBillTransactionView", "ZeroIdentifier"} :
          Null \notin {why, Adapter!Refused(why)}
    /\ \A why \in {"NoPost", "MemorizedTransaction", "SourceOrLink"} : Null # Adapter!Excluded(why)

\* Nor is it a reason to refuse an account record or to set it aside.
ASSUME RefusalsAssumption ==
    Null \notin {"BusinessTypeUnresolved", "EmptyAccountNumber", "IdOutOfRange", "IdentityDoesNotMatchId",
                 "IdentityNameDoesNotMatch", "IdentityTypeDoesNotMatch", "MissingValue",
                 "ParentIdentityUnavailable", "ParentOutOfRange", "PartialPrefixTooShort",
                 "RequiredValueIsNull", "TextNotUtf8", "UnexpectedColumn", "WrongColumnCount",
                 "WrongValueKind", "set aside",
                 "PhysicalSelectionCount", "SelectedIdentityCount", "ReferenceIdentityMismatch"}

\* A row has a length, and so has what its prefixes and its envelope announce.
ASSUME RowsAssumption ==
    \A x \in FixedRows :
        /\ x.parser \in Parsers
        /\ x.row.len \in Nat
        /\ x.parser = "master" => \A o \in {22, 55, 131} : x.row.prefix[o] \in Nat
        /\ x.parser = "account" => {x.row.name, x.row.number, x.row.description} \subseteq Nat
ASSUME JournalRowsAssumption == \A x \in JournalInputs : x.len \in Nat

\* What is read of one line in several ways is one line: of a column whose name is
\* its own, a value that was decoded for its place is that of the complete row and
\* that of the parser.
SameLine(name, value, parsed) ==
    /\ name = "target_id" => value.holds = parsed.target
    /\ name = "transaction_id" => value.holds = parsed.master
    /\ name = "account_id" => value.holds = parsed.account
    /\ name = "transaction_date" => value.holds = parsed.date
    /\ name = "amount_amt" /\ value.kind = "token" /\ value.holds # Null => value.holds = parsed.amount
ASSUME LinesAssumption ==
    \A x \in PostingInputs :
        /\ \A seq \in {x.schema.columns, x.row.values} : Len(seq) \in Nat /\ DOMAIN seq = 1..Len(seq)
        /\ \A i \in DOMAIN x.schema.columns :
              LET column == x.schema.columns[i] IN
              Adapter!Named(x.schema, column.name) = {i} =>
                 /\ i \in DOMAIN x.row.values => SameLine(column.name, x.row.values[i], x.parsed)
                 /\ \A seen \in {x.bounded.prefix, x.bounded.booleans} :
                       column.id \in DOMAIN seen /\ seen[column.id].index = i =>
                          /\ SameLine(column.name, seen[column.id].value, x.parsed)
                          /\ i \in DOMAIN x.row.values => seen[column.id].value = x.row.values[i]

\* The same of an account record, all of whose columns have a value.
ASSUME AccountsAssumption ==
    \A x \in AccountInputs :
        /\ DOMAIN x.values = 1..36 /\ \A o \in 1..36 : x.values[o] # Null
        /\ \A seen \in {x.prefix, x.booleans} : \A o \in DOMAIN seen \cap 1..36 : seen[o] = x.values[o]

\* Nor a reason to refuse a catalog, or what was collected for it.
ASSUME CollectionsAssumption ==
    Null \notin {"AmbiguousCarrierIdentity", "Conflicting", "DivergentCandidates", "UnknownTableId",
                 "UnidentifiedUnparsedCarrierRecords", "RequiredTableMayConflict",
                 "ZeroExpectedTargetColumnCount", "TargetCountMismatch", "TargetOrdinalMismatch"}

IsSequence(seq) == seq \in Seq({seq[i] : i \in DOMAIN seq})

\* A slot of a directory that has no record, or one too short for the prefix of
\* a row, holds no row of a table.
ASSUME CatalogsAssumption ==
    \A x \in CatalogPages :
        /\ IsSequence(x.pages)
        /\ \A i \in DOMAIN x.pages :
              LET candidates == x.pages[i].candidates IN
              /\ IsSequence(candidates)
              /\ \A j \in DOMAIN candidates :
                    /\ IsSequence(candidates[j].records)
                    /\ \A k \in DOMAIN candidates[j].records :
                          LET record == candidates[j].records[k] IN
                          /\ record.is \in Catalog!Kinds
                          /\ record.is \in {"missing", "short"} => record.key \notin x.ids
\* A store has a first page.
ASSUME StoresAssumption == \A x \in RecoveredPages : x # <<>> /\ IsSequence(x)

Backwards(seq) == [i \in DOMAIN seq |-> seq[Len(seq) + 1 - i]]

--------------------------------------------------------------------------------
DecodeDepositTail == Call("amount", DepositTails, LAMBDA x : Row!DepositTailAmount(x.bytes))
DecodeBillTail == Call("amount", BillTails, LAMBDA x : Row!BillTailAmount(x.bytes))
DecodeCheckAmount == Call("amount", CheckAmounts, LAMBDA x : Row!CheckAmount(x.row))
DecodePaymentAmount == Call("amount", PaymentAmounts, LAMBDA x : Row!PaymentAmount(x.row, x.shape))
DecodeJournalAmount == Call("amount", JournalAmounts, LAMBDA x : Row!JournalAmount(x.row))

\* An amount found in a row that was written with one is that amount: stray
\* bytes that spell another can only make the decoder refuse the row.
AmountsAsWritten == task = "amount" => output \in {Null, input.written}

--------------------------------------------------------------------------------
Parsed(parser, row) ==
    CASE parser = "check" -> Row!Result(Row!CheckRefusal(row), Row!CheckFields(row))
      [] parser = "companion" -> Row!Result(Row!CompanionRefusal(row), Row!CompanionFields(row))
      [] parser = "deposit" -> Row!Result(Row!DepositRefusal(row), Row!DepositFields(row))
      [] parser = "counterpart" -> Row!Result(Row!CounterpartRefusal(row), Row!CounterpartFields(row))
      [] parser = "payment" -> Row!Result(Row!PaymentRefusal(row), Row!PaymentFields(row))
      [] parser = "bill" -> Row!Result(Row!BillRefusal(row), Row!BillFields(row))
      [] parser = "bill header" -> Row!Result(Row!BillHeaderRefusal(row), Row!BillHeaderFields(row))
      [] parser = "master" -> Row!Result(Row!MasterRefusal(row), Row!MasterFields(row))
      [] parser = "source link" -> Row!Result(Row!SourceLinkRefusal(row), Row!SourceLinkFields(row))
      [] parser = "target" -> Row!Result(Row!TargetRefusal(row), Row!TargetFields(row))
      [] parser = "account" -> Row!Result(Chart!AccountRefusal(row), Chart!AccountFields(row))

ParseRow == Call("row", FixedRows, LAMBDA x : Parsed(x.parser, x.row))

Apart(f, g) == f.at + f.size <= g.at \/ g.at + g.size <= f.at
\* The opaque token of a transaction master has a length of its own and may
\* cover the fixed place of the next field.
FieldsOf(fields) == {n \in DOMAIN fields \ {"token"} : fields[n] # Null}

Fit(fields, len) ==
    \A m, n \in FieldsOf(fields) :
        /\ fields[m].at + fields[m].size <= len
        /\ m # n => Apart(fields[m], fields[n])

\* No parser reads past the end of a row, whatever its length, and no two of
\* the fields of a row that it accepts share a byte.
FieldsFit ==
    task = "row" =>
        /\ output.refused # "panic"
        /\ output.refused = Null => Fit(output.fields, input.row.len)

--------------------------------------------------------------------------------
ClassifyJournalRow == Call("journal row", JournalInputs, Row!RowDisposition)

\* The grammars are disjoint: the order in which they are tried decides nothing
\* but the error, and a row set aside before them is no source; a header, which
\* can witness for other rows, is none of these rows.  Each has its fields apart.
OneGrammar ==
    task = "journal row" =>
        /\ \A p, q \in Row!Takers(input) : p = q
        /\ output = "residual" => "source" \notin Row!Takers(input)
        /\ Row!WitnessRefusal(input) = Null => Row!Takers(input) = {}
        /\ "posting" \in Row!Takers(input) => Fit(Row!JournalFields(input), input.len)
        /\ "source" \in Row!Takers(input) => Fit(Row!SourceFields(input), input.len)

\* A row can be read in one way only: its fields do not overlap, and no other
\* grammar takes it.
RowsReadOneWay == FieldsFit /\ OneGrammar

--------------------------------------------------------------------------------
ClassifyJournal ==
    Call("journal", JournalTables, LAMBDA x : Journal!Classified(x.rows, x.witnesses))

\* The links of an accepted table, without those of rows a witness explains.
Followed == {i \in DOMAIN output.rows : output.rows[i] \in {"SourceOrLink", "AuxiliaryLinkChain"}}
LeadsTo(i, j) ==
    /\ i \in Followed /\ input.rows[i].next # 0
    /\ input.rows[i].kind = "auxiliary" => input.rows[i].linked
    /\ input.rows[j].target = input.rows[i].next
Reachable(S) ==
    LET after[n \in 0..Len(output.rows)] ==
            IF n = 0 THEN S
            ELSE after[n-1] \cup {j \in DOMAIN output.rows : \E i \in after[n-1] : LeadsTo(i, j)}
    IN after[Len(output.rows)]

\* Rows that are set aside because they only link others never form a loop,
\* and a source leads to rows of its own master and business date only, to one
\* of which its table has an amount or a chain.
SetAsideIsGrounded ==
    task = "journal" =>
        \A i \in Followed :
            LET onward == {j \in DOMAIN output.rows : LeadsTo(i, j)} IN
            /\ i \notin Reachable(onward)
            /\ input.rows[i].kind = "source" =>
                 \A j \in Reachable(onward) :
                    input.rows[j].kind # "auxiliary" => Journal!SameEntry(input.rows[j], input.rows[i])
            /\ output.rows[i] = "SourceOrLink" /\ input.rows[i].next # 0 => onward # {}

--------------------------------------------------------------------------------
\* The same line by its columns, complete and bounded, and by its own parser.
\* Three of the posting tables have a parser of their own.
AdaptRow ==
    Call("posting row", PostingInputs,
         LAMBDA x : [complete |-> Adapter!AdaptComplete(x.table, x.schema, x.row),
                     partial |-> Adapter!AdaptPartial(x.table, x.schema, x.bounded),
                     dedicated |-> CASE x.table = "CheckLine" -> Adapter!AdaptCheck(x.parsed)
                                     [] x.table = "BillLine" -> Adapter!AdaptBill(x.parsed)
                                     [] x.table = "GeneralJournalLine" -> Adapter!AdaptJournal(x.parsed)
                                     [] OTHER -> [is |-> "unread"]])
AdaptAccount ==
    Call("account row", AccountInputs,
         LAMBDA x : [complete |-> Chart!DecodeComplete(x.schema, x.values, x.identity, x.internal, x.identities),
                     partial |-> Chart!DecodePartial(x.schema, x.through, x.prefix, x.booleans,
                                                     x.identity, x.internal, x.identities)])

AuditSelection ==
    Call("selection", Selections, LAMBDA x : Chart!SelectionRefusal(x.rows, x.expected, x.reference))

\* The selected rows without one of them, as if it had been set aside.
Without(rows, i) == [rows EXCEPT ![i] = Null]
IsActive(row, id) == row # Null /\ row.active /\ row.id = id

\* Decoding less of a row never changes the answer: a bounded decoder that does
\* not refuse says what the decoder of the complete row says, if it can say
\* anything, and a posting is the same one whoever reads it.  Selecting fewer of
\* the rows does: where a selection of accounts is accepted, the same without
\* the last active row of one of them is not.
BoundedRowsAgree ==
    /\ task = "posting row" =>
         LET answers == {output.complete, output.partial, output.dedicated} IN
         /\ "refused" \in {output.complete.is, output.partial.is} \/ output.complete = output.partial
         /\ \A p, q \in {a \in answers : a.is = "posting"} : p = q
    /\ task = "account row" /\ output.partial.refused \in {Null, "set aside"} =>
         \/ output.complete = [refused |-> output.partial.refused, account |-> output.partial.account]
         \/ output.complete.refused = "WrongValueKind"
    /\ task = "selection" /\ output = Null =>
         \A i \in DOMAIN input.rows :
            /\ input.rows[i] # Null /\ input.rows[i].active
            /\ \A j \in DOMAIN input.rows \ {i} : ~IsActive(input.rows[j], input.rows[i].id)
            => Chart!SelectionRefusal(Without(input.rows, i), input.expected, input.reference) # Null

--------------------------------------------------------------------------------
CollectCatalogs ==
    Call("catalog", CatalogPages,
         LAMBDA x : LET tables == Catalog!Collected(x.pages, Catalog!TableCarrier)
                        columns == Catalog!Collected(x.pages, Catalog!ColumnCarrier)
                    IN [tables |-> tables, columns |-> columns,
                        gate |-> IF tables.refused = Null
                                 THEN Catalog!UnambiguousTables(tables, x.ids) ELSE Null,
                        complete |-> IF columns.refused = Null
                                     THEN Catalog!CompleteColumns(columns, 5, x.expected) ELSE Null,
                        attested |-> IF columns.refused = Null
                                     THEN Catalog!ColumnsAttested(columns, x.declared, 2, 4) ELSE Null])
RecoverCatalogs ==
    Call("recovered", RecoveredPages,
         LAMBDA x : LET tables == Catalog!ConflictFree(Catalog!TableRows(x)) IN
                    [tables |-> tables, columns |-> Catalog!FirstOfKey(Catalog!ColumnRows(x)),
                     indexes |-> Catalog!FirstOfKey(Catalog!IndexRows(x)),
                     schema |-> Catalog!SchemaFor(tables, Catalog!FirstOfKey(Catalog!ColumnRows(x)), "a")])
RelateCatalogs ==
    Call("relation", Relations,
         LAMBDA x : [roots |-> Catalog!Roots(x.tables, x.indexes, x.extents),
                     invalid |-> Catalog!InvalidRoots(x.tables, x.indexes, x.extents),
                     orphans |-> Catalog!Orphans(x.tables, x.indexes),
                     gap |-> Catalog!Gap(x.tables), validation |-> Catalog!Validation(x.tables, x.indexes),
                     bridge |-> Catalog!Bridge(x.votes),
                     edges |-> Catalog!EdgeStats(Catalog!Edges(x.tables, x.columns, x.stems, x.score))])
ScanCatalogPage ==
    Call("catalog page", CatalogBodies,
         LAMBDA x : [tables |-> Catalog!TablesIn(x.tags, x.end), indexes |-> Catalog!IndexesIn(x.tags, x.end),
                     record |-> Catalog!TableRecord(x.tags, x.end),
                     columns |-> SelectSeq(x.columns, LAMBDA r : Catalog!ColumnRow(r, x.end)),
                     list |-> Catalog!Validated(x.list, 9, {3, 5})])

\* The order in which pages come decides nothing about the catalog, and once the
\* gate is passed no record of a catalog page, parsed or not, can hold another
\* row of a table that is required.  A catalog recovered page by page has each
\* id and each name once.
CatalogsAgree ==
    /\ task = "catalog" =>
         /\ \A c \in {"tables", "columns"} :
               LET carrier == IF c = "tables" THEN Catalog!TableCarrier ELSE Catalog!ColumnCarrier
                   again == Catalog!Collected(Backwards(input.pages), carrier)
               IN IF output[c].refused = Null THEN again = output[c] ELSE again.refused # Null
         /\ output.tables.refused = Null /\ output.gate = Null =>
              \A i \in DOMAIN input.pages :
                 Catalog!IsCarrier(input.pages[i], Catalog!TableCarrier) =>
                    \A j \in DOMAIN input.pages[i].candidates :
                       LET records == input.pages[i].candidates[j].records IN
                       \A k \in DOMAIN records :
                          /\ records[k].is # "none"
                          /\ records[k].key \in input.ids =>
                               /\ records[k].is = "parsed"
                               /\ Catalog!Body(records[k]) \in output.tables.entries
         /\ output.columns.refused = Null /\ output.complete = Null =>
              \A o \in 1..input.expected :
                 \E e \in output.columns.entries : e.key[1] = 5 /\ e.key[2] = o
    /\ task = "recovered" =>
         /\ \A s, t \in output.tables : s.key = t.key \/ s.body.name = t.body.name => s = t
         /\ (\A i \in DOMAIN input : input[i].type # "unreadable") =>
              output.tables = Catalog!ConflictFree(Catalog!TableRows(<<input[1]>> \o Backwards(Tail(input))))

\* Where a row of the catalog begins and ends in a page body.
RowsApart(rows, prefix, end) ==
    \A i, j \in DOMAIN rows :
        /\ rows[i].pos >= prefix /\ rows[i].pos - prefix + rows[i].length <= end
        /\ i < j => rows[i].pos + rows[i].length <= rows[j].pos

\* Rows found in one body share no byte and end in it.  Each index is placed at
\* one root, or set aside as it has no single owner or its page is no extent;
\* no verdict about them is lost or counted twice; a tie of votes names nobody,
\* and a column that some table fits leads to a table.
CatalogsRelate ==
    /\ task = "catalog page" =>
         /\ RowsApart(output.tables, 34, input.end) /\ RowsApart(output.indexes, 5, input.end)
         /\ output.record # Null => output.record = output.tables[1]
         /\ \A i \in DOMAIN output.columns : output.columns[i].length <= input.end
         /\ output.list \in {Null, input.list.target}
    /\ task = "relation" =>
         LET v == output.validation
             votes == input.votes
         IN /\ \A x \in input.indexes :
                 Catalog!Cardinality({r \in output.roots : r.page = x.key[2] /\ x.key[3] \in r.names
                                        /\ \E t \in input.tables : t.key = r.table /\ t.body.object = x.key[1]})
                     = IF x \in output.orphans \cup output.invalid THEN 0 ELSE 1
            /\ v.agree + v.disagree + v.missing
                 = Catalog!Cardinality({<<x.key[1], x.key[2]>> : x \in input.indexes \ output.orphans})
            /\ v.orphan + v.ambiguous = Catalog!Cardinality(output.orphans)
            /\ output.gap # Null => v.agree = 0 /\ v.disagree = 0
            /\ \A o \in DOMAIN output.bridge, w \in DOMAIN votes :
                 w[1] = o /\ w[2] # output.bridge[o] => votes[w] < votes[<<o, output.bridge[o]>>]
            /\ (\A c \in input.columns : \E t \in input.tables : input.score[<<input.stems[c.key[3]], t.body.name>>] > 0)
                 => output.edges.resolved = output.edges.edges

--------------------------------------------------------------------------------
DecodersNext ==
    \/ DecodeDepositTail \/ DecodeBillTail \/ DecodeCheckAmount
    \/ DecodePaymentAmount \/ DecodeJournalAmount
    \/ ParseRow \/ ClassifyJournalRow \/ ClassifyJournal
    \/ AdaptRow \/ AdaptAccount \/ AuditSelection
    \/ CollectCatalogs \/ RecoverCatalogs \/ RelateCatalogs \/ ScanCatalogPage
================================================================================
