----------------------------- MODULE AccountAdapters -----------------------------
(****************************************************************************)
(* From a row of the Account table to an account: the envelope that the     *)
(* row's own parser reads, the values that the catalog gives, whole or up   *)
(* to column 24, and the audit of the rows that were selected.               *)
(*                                                                          *)
(* A value is its kind and what it holds (Null for text that is not UTF-8). *)
(* A schema is the number of its columns and the ordinals whose column is   *)
(* not the expected one.                                                     *)
(****************************************************************************)
EXTENDS PostingRows, Sequences, FiniteSets

CONSTANT HighBit   \* 2^31 in the code

TypeCodes == 0..14
TrialBalanceType(code) ==
    CASE code \in 0..4 -> "Asset" [] code \in 5..8 -> "Liability" [] code = 9 -> "Equity"
      [] code \in {10, 13} -> "Income" [] code = 11 -> "CostOfGoodsSold" [] code \in {12, 14} -> "Expense"
BusinessType(raw) == IF raw \in TypeCodes THEN TrialBalanceType(raw) ELSE Null

--------------------------------------------------------------------------------
(* The envelope: the name moves the type, the type the optional suffix.      *)

AccountType(row) == 64 + row.name
NumberLength(row) == AccountType(row) + 5
Suffix(row) ==
    LET first == NumberLength(row) + 1 + row.number
        second == first + 1 + row.description
    IN CASE NumberLength(row) >= row.len -> "Omitted"
         [] NumberLength(row) < row.len /\ (first > row.len \/ ~row.numberAscii) -> "OpaqueOrMalformed"
         [] first = row.len /\ row.numberAscii -> "NumberOnly"
         [] first < row.len /\ row.numberAscii /\ (second > row.len \/ ~row.descriptionAscii) -> "OpaqueOrMalformed"
         [] OTHER -> "Both"
AccountFields(row) ==
    [record |-> Field(8, 4), created |-> Field(28, 4), modified |-> Field(32, 4),
     name |-> Field(37, row.name), type |-> Field(AccountType(row), 1),
     metadata |-> Field(AccountType(row) + 1, 4),
     number |-> IF Suffix(row) \in {"NumberOnly", "Both"} /\ row.number > 0
                THEN Field(NumberLength(row) + 1, row.number) ELSE Null,
     description |-> IF Suffix(row) = "Both" /\ row.description > 0
                     THEN Field(NumberLength(row) + row.number + 2, row.description) ELSE Null]
AccountRefusal(row) ==
    Framed(row, 37, 64)
    ?? Unless(37 + row.name <= row.len, "NameOutsideSegment")
    ?? Unless(row.nameAscii, "NameNotAscii")
    ?? Unless(AccountType(row) < row.len, "TypeOutsideSegment")
    ?? Unless(AccountType(row) + 5 <= row.len, "TrailingFieldOutsideSegment")
    ?? Read(row, 8, 4) ?? Read(row, 28, 4) ?? Read(row, 32, 4)

\* format_ordinary_account_list_id: the record number with its high bit set.
ListId(record, created) ==
    <<IF record % (2 * HighBit) < HighBit THEN record + HighBit ELSE record, created>>

--------------------------------------------------------------------------------
(* The schema that the account decoder is pinned to.                         *)

PinnedOrdinals == {1, 6, 7, 8, 9, 12, 18, 22, 24, 35, 36}
SchemaRefusal(schema) ==
    Unless(schema.columns = 36, "WrongColumnCount")
    ?? Unless(schema.odd \cap PinnedOrdinals = {}, "UnexpectedColumn")

--------------------------------------------------------------------------------
(* Values by ordinal; Null is one that was not decoded.                      *)

Of(value, kind) ==
    Unless(value # Null, "MissingValue")
    ?? Unless(value.kind \in {kind, "null"}, "WrongValueKind")
Required(value, kind) == Of(value, kind) ?? Unless(value.kind # "null", "RequiredValueIsNull")
OptionalText(value) == Of(value, "text") ?? Unless(value.kind = "null" \/ value.holds # Null, "TextNotUtf8")
RequiredText(value) ==
    OptionalText(value) ?? Unless(value.kind # "null" /\ value.holds # "blank", "RequiredValueIsNull")
Held(value) == IF value.kind = "null" THEN Null ELSE value.holds

\* AccountLifecycle::from_flags
Disposition(value, internal) ==
    CASE value[8].holds -> "Deleted"
      [] ~value[8].holds /\ value[9].holds -> "DeletePending"
      [] ~value[8].holds /\ ~value[9].holds /\ internal -> "Internal"
      [] OTHER -> "Included"

U32(n) == n \in 0..(2 * HighBit - 1)
\* A parent of 0 is none.
ParentRefusal(value, identities) ==
    IF Held(value) \in {Null, 0} THEN Null
    ELSE Unless(U32(value.holds), "ParentOutOfRange")
         ?? Unless(value.holds \in DOMAIN identities, "ParentIdentityUnavailable")

\* An account number that is there but blank is refused last.
Hierarchy(value) == Unless(Held(value) # "blank", "EmptyAccountNumber")

Decoded(value, identity, internal, identities) ==
    [id |-> ListId(identity.record, identity.created), name |-> value[6].holds,
     type |-> BusinessType(value[18].holds), classification |-> identity.type,
     active |-> ~value[7].holds, number |-> Held(value[22]), description |-> Held(value[24]),
     parent |-> IF Held(value[12]) \in {Null, 0} THEN Null ELSE identities[value[12].holds]]

\* What both decoders do, row by row; named is whether the name that the
\* envelope holds must be that of the catalog.
RowRefusal(value, identity, internal, identities, named) ==
    Required(value[1], "integer")
    ?? Unless(U32(value[1].holds), "IdOutOfRange")
    ?? Unless(identity.record = value[1].holds, "IdentityDoesNotMatchId")
    ?? Required(value[7], "boolean") ?? Required(value[8], "boolean") ?? Required(value[9], "boolean")
    ?? Unless(Disposition(value, internal) = "Included", "set aside")
    ?? RequiredText(value[6])
    ?? Unless(named => identity.name = value[6].holds, "IdentityNameDoesNotMatch")
    ?? OptionalText(value[22]) ?? OptionalText(value[24])
    ?? Of(value[12], "integer") ?? ParentRefusal(value[12], identities)
    ?? Of(value[18], "integer")
    ?? Unless(Held(value[18]) # Null /\ BusinessType(value[18].holds) # Null, "BusinessTypeUnresolved")
    ?? Unless(value[18].holds = identity.type, "IdentityTypeDoesNotMatch")
    ?? Hierarchy(value[22])

\* decode_account_values: two more columns are read once the account is made.
DecodeComplete(schema, values, identity, internal, identities) ==
    LET value == values
        refusal == SchemaRefusal(schema)
                   ?? RowRefusal(value, identity, internal, identities, FALSE)
                   ?? Of(value[35], "integer") ?? Of(value[36], "integer")
    IN [refused |-> refusal,
        account |-> IF refusal = Null THEN Decoded(value, identity, internal, identities) ELSE Null]

\* The suffix of the envelope is compared, never decided upon.
SuffixMatches(identity, account) ==
    IF identity.suffix = Null THEN Null
    ELSE identity.suffix = <<account.number, account.description>>

\* decode_schema_account_row_partial
DecodePartial(schema, through, prefix, booleans, identity, internal, identities) ==
    LET value == [o \in 1..36 |-> IF o \in DOMAIN prefix THEN prefix[o]
                                  ELSE IF o \in DOMAIN booleans THEN booleans[o] ELSE Null]
        refusal == SchemaRefusal(schema)
                   ?? Unless(through >= 24, "PartialPrefixTooShort")
                   ?? RowRefusal(value, identity, internal, identities, TRUE)
        account == IF refusal = Null THEN Decoded(value, identity, internal, identities) ELSE Null
    IN [refused |-> refusal, account |-> account,
        suffix |-> IF refusal = Null THEN SuffixMatches(identity, account) ELSE Null]

--------------------------------------------------------------------------------
\* audit_account_selection: rows that were selected (Null for those set aside)
\* against the accounts a reference report names.
SelectionRefusal(rows, expected, reference) ==
    LET active == {rows[i].id : i \in {j \in DOMAIN rows : rows[j] # Null /\ rows[j].active}}
    IN Unless(Len(rows) = expected, "PhysicalSelectionCount")
       ?? Unless(Cardinality(active) = Cardinality(reference), "SelectedIdentityCount")
       ?? Unless(active = reference, "ReferenceIdentityMismatch")
================================================================================
