------------------------------- MODULE JournalRows -------------------------------
(****************************************************************************)
(* The grammars of a General Journal row (table 3078): posting, canonical   *)
(* zero, special posting and source link, tried in that order, and the rows *)
(* that are set aside before any of them is tried.                          *)
(*                                                                          *)
(* Of the seven bytes after the kind a row keeps its family (the first), its *)
(* link class and link flag (the second), the third and the rest.  date is  *)
(* whether its date is a business day, lifecycle the two flags at the place *)
(* its layout gives, Null when they are no Booleans, special the token at   *)
(* the special place and token whether any place past the header spells one.*)
(****************************************************************************)
EXTENDS PostingAmounts

Families == {"e0", "e4", "e8"}
Layout(row) == <<row.family, row.class, row.linked, row.third, row.rest>>

Header(row) == Framed(row, 33, 64) ?? Kind(row, {1}, "UnexpectedKind")
Identity(row, target, master, account) ==
    Reference(row, target, "MissingRequiredReference")
    ?? Reference(row, master, "MissingRequiredReference")
    ?? Reference(row, account, "MissingRequiredReference")
Dated(row) == Read(row, 23, 4) ?? Unless(row.date, "InvalidPostingDate")

\* An amount that no place spells, that several do, or that is not repeated.
Selected(amount) == Unless(amount # Null, "NoAmount")

\* parse_posting_lifecycle: the layout bits before the flags give their place.
Lifecycle(row) ==
    Unless(row.len >= 33 /\ row.family \in Families, "InvalidLifecycle")
    ?? Unless(row.lifecycle # Null, "InvalidLifecycle")

--------------------------------------------------------------------------------
ShortTerminal(row) ==
    /\ row.family = "e4" /\ ~row.linked /\ row.class = 19
    /\ row.len = 129 /\ row.third = "9f"
PrebaseVariant(row) == row.family = "e4" /\ row.class = 3
LinkClass(row) ==
    row.class = 19 \/ (row.family = "e8" /\ row.class = 23) \/ PrebaseVariant(row)

JournalAmount(row) ==
    IF ShortTerminal(row) THEN ShortTerminalAmount(row)
    ELSE IF PrebaseVariant(row) THEN FixedPrebaseAmount(row)
    ELSE MainAmount(row)

PostingRefusal(row) ==
    Header(row)
    ?? Unless(row.family \in Families, "UnsupportedFamily")
    ?? Unless(row.third = "ff" \/ ShortTerminal(row), "UnexpectedPrefixByte")
    ?? Unless(LinkClass(row), "UnexpectedLinkMarker")
    ?? Identity(row, 11, 15, 19)
    ?? Dated(row)
    ?? Read(row, 29, 4)
    ?? Selected(JournalAmount(row))
    ?? Unless(~JournalAmount(row).zero, "CanonicalZeroPosting")
    ?? Lifecycle(row)
JournalFields(row) ==
    [target |-> Field(11, 4), master |-> Field(15, 4), account |-> Field(19, 4),
     date |-> Field(23, 4), view |-> Field(27, 2),
     next |-> IF row.linked /\ 29 \notin row.zeros THEN Field(29, 4) ELSE Null]

\* A parser that says no to a row leaves it to the next one; a row of its own
\* layout that is broken fails the table.
Declines == "declines"

ZeroRefusal(row) ==
    Header(row)
    ?? Unless(row.family \in Families /\ row.third = "ff" /\ row.class = 19, Declines)
    ?? Identity(row, 11, 15, 19)
    ?? Dated(row)
    ?? Selected(MainAmount(row))
    ?? Unless(MainAmount(row).zero, Declines)

\* Mutant: a special layout is told by its family and its third byte alone.
SpecialLayoutLoose(row) == row.family = "e0" /\ row.third \in {"9f", "ff"}

SpecialLayout(row) ==
    row.family = "e0" /\
    \/ row.class = 19 /\ row.third = "9f"
    \/ row.class = 3 /\ row.linked /\ row.third = "ff"
SpecialRefusal(row) ==
    Header(row)
    ?? Unless(SpecialLayout(row) /\ row.special # Null, Declines)
    ?? Unless(row.special.copied, "MissingAmountCopy")
    ?? Unless(~row.special.amount.zero, "CanonicalZeroPosting")
    ?? Identity(row, 11, 15, 19)
    ?? Dated(row)
    ?? Lifecycle(row)

HeaderFamily(row) ==
    \/ row.len = 151 /\ Layout(row) = <<"64", 19, TRUE, "ff", "c040">>
    \/ row.len = 201 /\ Layout(row) = <<"64", 19, FALSE, "ff", "8060">>
SourceLayout(row) ==
    \/ row.len \in {142, 143} /\ Layout(row) = <<"60", 19, TRUE, "ff", "8040">>
    \/ row.len = 147 /\ Layout(row) = <<"60", 19, TRUE, "ff", "c040">>
    \/ HeaderFamily(row)
SourceRefusal(row) ==
    Header(row)
    ?? Unless(SourceLayout(row), Declines)
    ?? Identity(row, 11, 15, 29)
    ?? Read(row, 25, 4) ?? Read(row, 19, 4)
    ?? Unless(row.date, "InvalidPostingDate")
SourceFields(row) ==
    [target |-> Field(11, 4), master |-> Field(15, 4), account |-> Field(29, 4),
     date |-> Field(19, 4), view |-> Field(23, 2),
     next |-> IF 25 \in row.zeros THEN Null ELSE Field(25, 4)]

\* GeneralJournalHeaderMetadataWitness::parse.
WitnessRefusal(row) ==
    Unless(row.len >= 23, "UnrecognizedCarrier")
    ?? Unless(row.declared /\ row.flags = 64 /\ row.kind = 1 /\ row.family = "a7",
              "UnrecognizedCarrier")
    ?? References(row, {11, 19}, "MissingRequiredReference")
    ?? Read(row, 15, 4) ?? Unless(row.date, "InvalidPostingDate")

--------------------------------------------------------------------------------
(* What becomes of a row on its own: set aside by the seven bytes alone, or  *)
(* what the first parser that does not decline says of it.                   *)

Residual(row) ==
    /\ row.len >= 11
    /\ Layout(row) \in {<<"e0", 19, linked, "ff", "8060">> : linked \in BOOLEAN}

Found(refusal, as) == IF refusal = Null THEN as ELSE refusal

RowDisposition(row) ==
    IF Residual(row) THEN "residual"
    ELSE IF PostingRefusal(row) = Null THEN "posting"
    ELSE IF ZeroRefusal(row) # Declines THEN Found(ZeroRefusal(row), "zero")
    ELSE IF SpecialRefusal(row) # Declines THEN Found(SpecialRefusal(row), "special")
    ELSE IF SourceRefusal(row) # Declines THEN Found(SourceRefusal(row), "source")
    ELSE "UnrecognizedCarrier"

\* The parsers that would take the row.
Takers(row) ==
    {p \in {"posting", "zero", "special", "source"} :
        Null = CASE p = "posting" -> PostingRefusal(row) [] p = "zero" -> ZeroRefusal(row)
                 [] p = "special" -> SpecialRefusal(row) [] p = "source" -> SourceRefusal(row)}
================================================================================
