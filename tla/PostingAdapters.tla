----------------------------- MODULE PostingAdapters -----------------------------
(****************************************************************************)
(* From a row to a posting: the rows that the catalog describes column by   *)
(* column, complete or only as far as their prefix and their Booleans were  *)
(* decoded, and the rows that a parser of their own has read.               *)
(*                                                                          *)
(* A value is its kind and what it holds; what a date or an amount holds is *)
(* Null when its codec refuses it.  A complete row is a sequence of values, *)
(* exact when they take all its bytes.  A partial one has two tables, of    *)
(* its prefix and of its Booleans, from a column id to [index, value].       *)
(****************************************************************************)
EXTENDS PostingAmounts, FiniteSets

\* The line tables that hold postings; those of a bill are of two types.
FixedType ==
    [BillPaymentCheckLine |-> "BillPaymentCheck", CheckLine |-> "Check",
     DepositLine |-> "Deposit", GeneralJournalLine |-> "GeneralJournal"]
PostingTables == DOMAIN FixedType \cup {"BillLine"}
IntegerTypes == {"Integer", "Integer2", "UInt32", "UInt64", "Int64"}

Refused(why) == [is |-> "refused", why |-> why]
Excluded(why) == [is |-> "excluded", why |-> why]
Posting(type, target, master, account, date, cents) ==
    [is |-> "posting", type |-> type, target |-> target, master |-> master,
     account |-> account, date |-> date, cents |-> cents]

--------------------------------------------------------------------------------
(* Finding a column by its name.  A cell is Null when there is none.         *)

Named(schema, name) == {i \in DOMAIN schema.columns : schema.columns[i].name = name}
TheOne(S) == CHOOSE i \in S : TRUE
Found(column, value) == [fault |-> Null, type |-> column.type, value |-> value]
Faulty(why) == [fault |-> why, type |-> Null, value |-> Null]

\* named_column: the columns beside the values of a complete row.
Complete(schema, row, name) ==
    LET found == {i \in Named(schema, name) : i <= Len(row.values)} IN
    CASE found = {} -> Null
      [] Cardinality(found) > 1 -> Faulty("AmbiguousColumn")
      [] OTHER -> Found(schema.columns[TheOne(found)], row.values[TheOne(found)])

\* partial_named_column: a Boolean is looked for in the tail, anything else in
\* the prefix; a value that was decoded for another place of the schema is a
\* fault, one that was not decoded is absent.
Partial(schema, row, name) ==
    LET found == Named(schema, name)
        column == schema.columns[TheOne(found)]
        values == IF column.type = "Boolean" THEN row.booleans ELSE row.prefix
    IN IF found = {} THEN Null
       ELSE IF Cardinality(found) > 1 THEN Faulty("PartialSchemaProvenance")
       ELSE IF column.id \notin DOMAIN values THEN Null
       ELSE IF values[column.id].index # TheOne(found) THEN Faulty("PartialSchemaProvenance")
       ELSE Found(column, values[column.id].value)

--------------------------------------------------------------------------------
(* What a cell must hold, else the refusal that stops the adaptation.        *)

Holds(cell, missing, types, unexpected) ==
    IF cell = Null THEN missing
    ELSE Unless(cell.fault = Null, cell.fault)
         ?? Unless(cell.type \in types, "UnexpectedColumnType")
         ?? unexpected
Stop(why) == IF why = Null THEN Null ELSE Refused(why)

Identifier(cell, missing) ==
    Stop(Holds(cell, missing, IntegerTypes,
               Unless(cell.value.kind \in {"integer", "unsigned"}, "UnexpectedValueType")
               ?? Unless(cell.value.holds >= 0, "NegativeIdentifier")
               ?? Unless(cell.value.holds # 0, "ZeroIdentifier")))
Dated(cell, missing) ==
    Stop(Holds(cell, missing, {"Date"},
               Unless(cell.value.kind = "date", "UnexpectedValueType")
               ?? Unless(cell.value.holds # Null, "InvalidPostingDate")))
Boolean(cell, missing) ==
    Stop(Holds(cell, missing, {"Boolean"}, Unless(cell.value.kind = "boolean", "UnexpectedValueType")))
Money(cell, missing, layout) ==
    Stop(Holds(cell, missing, {"Numeric"},
               Unless(layout = "raw", "UnexpectedNumericLayout")
               ?? Unless(cell.value.kind = "token", "UnexpectedValueType")
               ?? Unless(cell.value.holds # Null, "InvalidPostingAmount")))
Numeric(cell, missing) == Stop(Holds(cell, missing, {"Numeric"}, Null))

Flagged(cell) == cell # Null /\ cell.value.holds
ExcludedIf(flag, why) == IF flag THEN Excluded(why) ELSE Null

\* The columns that are read, by their names.
Names == {"target_id", "transaction_id", "account_id", "transaction_date", "amount_amt", "is_no_post_bool",
          "is_memorized_transaction_bool", "is_source_bool", "is_split_bool"}

\* Both rows end at a no-post or memorized row, then at one that only links.
LogicalGates(cell, missing) ==
    Identifier(cell.target_id, missing)
    ?? Identifier(cell.transaction_id, missing)
    ?? Boolean(cell.is_no_post_bool, missing)
    ?? ExcludedIf(cell.is_no_post_bool.value.holds, "NoPost")
    ?? Boolean(cell.is_memorized_transaction_bool, missing)
    ?? ExcludedIf(cell.is_memorized_transaction_bool.value.holds, "MemorizedTransaction")
    ?? Boolean(cell.is_source_bool, Null)
    ?? (IF Flagged(cell.is_source_bool)
        THEN Numeric(cell.amount_amt, missing)
             ?? ExcludedIf(cell.amount_amt.value.kind = "null", "SourceOrLink")
        ELSE Null)

ToPosting(table, cell) ==
    LET amount == cell.amount_amt.value.holds IN
    IF amount.zero THEN Excluded("CanonicalZeroAmount")
    ELSE Posting(FixedType[table], cell.target_id.value.holds, cell.transaction_id.value.holds,
                 cell.account_id.value.holds, cell.transaction_date.value.holds, amount.cents)

Typed(table) == Stop(Unless(table \in DOMAIN FixedType, "TransactionTypeRequiresDedicatedDecoder"))

\* adapt_enterprise_posting_row
AdaptComplete(table, schema, row) ==
    LET cell == [name \in Names |-> Complete(schema, row, name)] IN
    Stop(Unless(table \in PostingTables, "NotPostingTable")
         ?? Unless(Len(schema.columns) = Len(row.values), "SchemaValueCountMismatch")
         ?? Unless(row.exact, "RowNotExactlyDecoded"))
    ?? LogicalGates(cell, "MissingColumn")
    ?? Identifier(cell.account_id, "MissingColumn")
    ?? Dated(cell.transaction_date, "MissingColumn")
    ?? Typed(table)
    ?? Boolean(cell.is_split_bool, Null)
    ?? Money(cell.amount_amt, "MissingColumn", schema.numeric)
    ?? ToPosting(table, cell)

\* adapt_enterprise_posting_row_partial
\* Mutant: a Boolean that was not decoded counts as false.
AdaptPartialByDefault(table, schema, row) ==
    LET cell == [name \in Names |->
            LET c == Partial(schema, row, name)
            IN IF c = Null /\ name \in {"is_no_post_bool", "is_memorized_transaction_bool"}
               THEN Found([type |-> "Boolean"], [kind |-> "boolean", holds |-> FALSE]) ELSE c]
    IN Stop(Unless(table \in PostingTables, "NotPostingTable"))
       ?? LogicalGates(cell, "PartialValueUnavailable")
       ?? Typed(table)
       ?? Identifier(cell.account_id, "PartialValueUnavailable")
       ?? Dated(cell.transaction_date, "PartialValueUnavailable")
       ?? Boolean(cell.is_split_bool, Null)
       ?? Money(cell.amount_amt, "PartialValueUnavailable", schema.numeric)
       ?? ToPosting(table, cell)
AdaptPartial(table, schema, row) ==
    LET cell == [name \in Names |-> Partial(schema, row, name)] IN
    Stop(Unless(table \in PostingTables, "NotPostingTable"))
    ?? LogicalGates(cell, "PartialValueUnavailable")
    ?? Typed(table)
    ?? Identifier(cell.account_id, "PartialValueUnavailable")
    ?? Dated(cell.transaction_date, "PartialValueUnavailable")
    ?? Boolean(cell.is_split_bool, Null)
    ?? Money(cell.amount_amt, "PartialValueUnavailable", schema.numeric)
    ?? ToPosting(table, cell)

--------------------------------------------------------------------------------
(* Rows that a parser has read: their references are not zero already.       *)

Materialized(row, type, zero) ==
    IF zero THEN Excluded("CanonicalZeroAmount")
    ELSE Posting(type, row.target, row.master, row.account, row.date, row.amount.cents)
PostingDate(row) == Stop(Unless(row.date # Null, "InvalidPostingDate"))

\* adapt_materialized_bill_posting_row
AdaptBill(row) ==
    PostingDate(row)
    ?? Stop(Unless(TransactionKind(row.view) # Null, "UnknownBillTransactionView"))
    ?? Materialized(row, TransactionKind(row.view), row.amount.zero)

\* adapt_materialized_check_posting_row
AdaptCheck(row) == PostingDate(row) ?? Materialized(row, "Check", row.amount.zero)

\* adapt_materialized_general_journal_posting_row: a zero here is an error, the
\* canonical zeros of the table are rows of their own.
AdaptJournal(row) ==
    ExcludedIf(row.noPost, "NoPost")
    ?? ExcludedIf(row.memorized, "MemorizedTransaction")
    ?? PostingDate(row)
    ?? Stop(Unless(row.amount.cents # 0, "InvalidPostingAmount"))
    ?? Materialized(row, "GeneralJournal", FALSE)
================================================================================
