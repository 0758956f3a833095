------------------------------- MODULE PostingRows -------------------------------
(****************************************************************************)
(* The fixed grammar of the rows of the posting tables: which rows each     *)
(* parser refuses, for which reason, and which bytes it takes as which      *)
(* field of the row it accepts.  The parsers test in order and read fields  *)
(* at fixed places: a read past the end of the row panics, it is not an     *)
(* error.                                                                    *)
(*                                                                          *)
(* A row is its length, whether the length it declares is that one, its     *)
(* flags, kind and the byte after it (class), the places that hold a zero   *)
(* reference, how it ends, and the amount that its envelope spells          *)
(* (PostingAmounts), Null when there is none.                               *)
(****************************************************************************)
EXTENDS Integers

CONSTANT Null

Unless(ok, reason) == IF ok THEN Null ELSE reason
first ?? second == IF first # Null THEN first ELSE second

\* u32_at, u16_at: the slice of n bytes at place o must be there.
Read(row, o, n) == Unless(o + n <= row.len, "panic")
\* A required reference: read, then refused when it is zero.
Reference(row, o, reason) == Read(row, o, 4) ?? Unless(o \notin row.zeros, reason)
References(row, places, reason) ==
    Unless(\A o \in places : o + 4 <= row.len, "panic")
    ?? Unless(places \cap row.zeros = {}, reason)

Field(o, n) == [at |-> o, size |-> n]
Result(refusal, fields) == [refused |-> refusal, fields |-> IF refusal = Null THEN fields ELSE Null]

\* Every parser begins with the least length, the declared one and the flags.
Framed(row, least, flags) ==
    Unless(row.len >= least, "SegmentTooShort")
    ?? Read(row, 0, 2)
    ?? Unless(row.declared, "DeclaredLengthMismatch")
    ?? Read(row, 2, 1)
    ?? Unless(row.flags = flags, "UnexpectedFlags")

Kind(row, kinds, reason) == Read(row, 3, 1) ?? Unless(row.kind \in kinds, reason)
Class(row, o, classes, reason) == Read(row, o, 1) ?? Unless(row.class \in classes, reason)
HasAmount(row) == Unless(row.amount, "Amount")

--------------------------------------------------------------------------------
(* Check, table 3047.  The link shape follows from the later of two places.  *)

CheckLinked(row) == 34 \notin row.zeros
CheckSource(row) == IF CheckLinked(row) THEN 34 ELSE 30
CheckEditSequence(row) == IF CheckLinked(row) THEN 50 ELSE 46

CheckFields(row) ==
    [target |-> Field(12, 4), master |-> Field(16, 4), account |-> Field(20, 4),
     date |-> Field(24, 4), view |-> Field(28, 2),
     next |-> IF CheckLinked(row) THEN Field(30, 4) ELSE Null,
     source |-> Field(CheckSource(row), 4), edit |-> Field(CheckEditSequence(row), 4)]

CheckRefusal(row) ==
    Framed(row, 85, 0)
    ?? Kind(row, {228}, "UnexpectedKind")
    ?? Read(row, 34, 4)
    ?? Reference(row, CheckSource(row), "MissingSourceAccount")
    ?? References(row, {12, 16, 20}, "MissingRequiredRecordReference")
    ?? HasAmount(row)
    ?? Read(row, 24, 4) ?? Read(row, 28, 2) ?? Read(row, CheckEditSequence(row), 4)

CompanionLengths == {185, 212, 219, 220, 222, 223}
CompanionFields(row) == [target |-> Field(12, 4), master |-> Field(16, 4)]
CompanionRefusal(row) ==
    Unless(row.len \in CompanionLengths, "LengthMismatch")
    ?? Framed(row, 0, 0)
    ?? Kind(row, {100}, "UnexpectedKind")
    ?? References(row, {12, 16}, "ZeroRequiredRecordId")

--------------------------------------------------------------------------------
(* Deposit: linked (e1) and terminal (e0) rows, and the two kinds *)
(* of counterpart rows whose amount ends five bytes before the row does.      *)

DepositLinked(row) == row.kind = 225
DepositSource(row) == IF DepositLinked(row) THEN 30 ELSE 26
DepositAmount(row) == IF DepositLinked(row) THEN 50 ELSE 46

DepositFields(row) ==
    [target |-> Field(8, 4), master |-> Field(12, 4), account |-> Field(16, 4),
     date |-> Field(20, 4), view |-> Field(24, 2),
     next |-> IF DepositLinked(row) /\ 26 \notin row.zeros THEN Field(26, 4) ELSE Null,
     source |-> Field(DepositSource(row), 4),
     amount |-> Field(DepositAmount(row), row.len - DepositAmount(row))]

DepositRefusal(row) ==
    Framed(row, 4, 0)
    ?? Unless(row.len >= 26, "SegmentTooShort")
    ?? Reference(row, 8, "MissingRequiredReference")
    ?? Reference(row, 12, "MissingRequiredReference")
    ?? Reference(row, 16, "MissingRequiredReference")
    ?? Kind(row, {224, 225}, "UnexpectedKind")
    ?? Unless(row.len >= DepositAmount(row) + 2, "SegmentTooShort")
    ?? Read(row, 26, 4)
    ?? Reference(row, DepositSource(row), "MissingRequiredReference")
    ?? HasAmount(row)
    ?? Read(row, 20, 4) ?? Read(row, 24, 2)

CounterpartAccount(row) == IF row.kind = 240 THEN 30 ELSE 34
CounterpartFields(row) ==
    [master |-> Field(12, 4), account |-> Field(CounterpartAccount(row), 4), date |-> Field(20, 4)]
CounterpartRefusal(row) ==
    Framed(row, 4, 0)
    ?? Kind(row, {240, 241}, "UnexpectedKind")
    ?? Unless(row.len >= CounterpartAccount(row) + 4 + 5 + 2, "SegmentTooShort")
    ?? Reference(row, 12, "MissingRequiredReference")
    ?? Reference(row, CounterpartAccount(row), "MissingRequiredReference")
    ?? HasAmount(row)
    ?? Read(row, 20, 4)

--------------------------------------------------------------------------------
(* BillPayment, table 3039: three link shapes, told apart by two places and  *)
(* by a sixteen-character name at the second (compact).                      *)

CompactTerminal(row) == row.compact /\ row.len >= 58
PaymentShape(row) ==
    CASE 37 \notin row.zeros /\ CompactTerminal(row) -> "CompactTerminal"
      [] {37, 41} \cap row.zeros = {} /\ ~CompactTerminal(row) -> "Linked"
      [] 37 \in row.zeros /\ 41 \notin row.zeros -> "Terminal"
      [] OTHER -> Null
PaymentPlace(shape) ==
    CASE shape = "Linked" -> 90 [] shape = "Terminal" -> 94 [] OTHER -> 86
PaymentEnd(shape) == IF shape = "Linked" THEN "zeros" ELSE "one"
PaymentSource(shape) == IF shape = "CompactTerminal" THEN 37 ELSE 41

PaymentFields(row) ==
    LET shape == PaymentShape(row) IN
    [target |-> Field(9, 4), master |-> Field(13, 4), account |-> Field(17, 4),
     date |-> Field(21, 4), view |-> Field(25, 2), type |-> Field(27, 4),
     status |-> Field(31, 2), kind |-> Field(33, 4),
     next |-> IF shape = "Linked" THEN Field(37, 4) ELSE Null,
     source |-> Field(PaymentSource(shape), 4), amount |-> Field(PaymentPlace(shape), 2)]

PaymentRefusal(row) ==
    Framed(row, 45, 64)
    ?? Kind(row, {1}, "UnexpectedRowClass")
    ?? References(row, {9, 13, 17}, "ZeroRequiredReference")
    ?? Read(row, 37, 4) ?? Read(row, 41, 4)
    ?? Unless(PaymentShape(row) # Null, "UnsupportedLinkShape")
    ?? Reference(row, PaymentSource(PaymentShape(row)), "ZeroRequiredReference")
    ?? Unless(row.len >= PaymentPlace(PaymentShape(row)) + 2, "AmountOutsideSegment")
    ?? HasAmount(row)
    ?? Unless(row.ending = PaymentEnd(PaymentShape(row)), "UnexpectedTrailingSuffix")
    ?? Read(row, 3, 6) ?? Read(row, 33, 4)

--------------------------------------------------------------------------------
(* Bill, table 3042, and its headers.                                        *)

BillFields(row) ==
    [target |-> Field(12, 4), master |-> Field(16, 4), account |-> Field(20, 4),
     date |-> Field(24, 4), view |-> Field(28, 2)]
BillRefusal(row) ==
    Framed(row, 41, 64)
    ?? Kind(row, {2}, "UnexpectedRowClass")
    ?? Class(row, 4, {228}, "UnexpectedRowKind")
    ?? Unless(row.ending = "canonicalZero", "UnexpectedTrailingSuffix")
    ?? HasAmount(row)
    ?? References(row, {12, 16, 20}, "MissingRequiredRecordReference")
    ?? Read(row, 24, 4) ?? Read(row, 28, 2)
TransactionKind(view) ==
    CASE view = 9 -> "Bill" [] view = 12 -> "VendorCredit" [] OTHER -> Null

BillHeaderFields(row) == [master |-> Field(7, 4)]
BillHeaderRefusal(row) ==
    Framed(row, 11, 64)
    ?? Kind(row, {2}, "UnexpectedRowClass")
    ?? Class(row, 4, {255, 247}, "UnexpectedRowKind")
    ?? Reference(row, 7, "MissingMasterRecordReference")

--------------------------------------------------------------------------------
(* Transaction master: two length-prefixed fields that must end in the row   *)
(* when it reaches them, and a memo that is shown only when it does.         *)

PrefixFits(row, o) == o < row.len => o + 1 + row.prefix[o] <= row.len
Present(row, o) == o < row.len /\ row.prefix[o] > 0 /\ PrefixFits(row, o)
MasterFields(row) ==
    [master |-> Field(8, 4), adjacent |-> Field(12, 4), type |-> Field(20, 2),
     token |-> IF Present(row, 22) THEN Field(23, row.prefix[22]) ELSE Null,
     document |-> IF Present(row, 55) THEN Field(56, row.prefix[55]) ELSE Null]
MasterRefusal(row) ==
    Framed(row, 22, 64)
    ?? Kind(row, {2}, "UnexpectedKind")
    ?? Unless(PrefixFits(row, 22), "LengthPrefixedFieldOutOfBounds")
    ?? Unless(PrefixFits(row, 55), "LengthPrefixedFieldOutOfBounds")
    ?? Unless(Present(row, 55) => row.utf8, "DocumentReferenceNotUtf8")
    ?? Read(row, 8, 4) ?? Read(row, 12, 4) ?? Read(row, 20, 2)

--------------------------------------------------------------------------------
(* The controlled rows of a General Journal: a source link of a fixed length *)
(* and a posting target whose amount ends the row.                           *)

SourceLinkFields(row) ==
    [record |-> Field(11, 4), master |-> Field(15, 4), date |-> Field(19, 4),
     view |-> Field(23, 2), next |-> IF 25 \in row.zeros THEN Null ELSE Field(25, 4),
     account |-> Field(29, 4)]
SourceLinkRefusal(row) ==
    Framed(row, 33, 64)
    ?? Kind(row, {1}, "UnexpectedKind")
    ?? Unless(row.len = 33, "UnexpectedTrailingData")
    ?? Read(row, 4, 7)
    ?? Unless(row.ending = "sourcePrefix", "UnexpectedSourceLayoutPrefix")
    ?? Reference(row, 11, "MissingRequiredReference")
    ?? Reference(row, 15, "MissingRequiredReference")
    ?? Reference(row, 29, "MissingRequiredReference")
    ?? Read(row, 19, 4) ?? Read(row, 23, 2) ?? Read(row, 25, 4)

TargetLinked(row) == row.class = 131
TargetAmount(row) == IF TargetLinked(row) THEN 103 ELSE 99
TargetFields(row) ==
    [target |-> Field(11, 4), master |-> Field(15, 4), account |-> Field(19, 4),
     date |-> Field(23, 4), view |-> Field(27, 2),
     next |-> IF 29 \in row.zeros THEN Null ELSE Field(29, 4),
     amount |-> Field(TargetAmount(row), row.len - TargetAmount(row))]
TargetRefusal(row) ==
    Framed(row, 101, 64)
    ?? Kind(row, {1}, "UnexpectedKind")
    ?? Class(row, 5, {131, 3}, "UnexpectedTargetLayoutMarker")
    ?? Unless(row.len >= TargetAmount(row) + 2, "SegmentTooShort")
    ?? HasAmount(row)
    ?? Reference(row, 11, "MissingRequiredReference")
    ?? Reference(row, 15, "MissingRequiredReference")
    ?? Reference(row, 19, "MissingRequiredReference")
    ?? Read(row, 29, 4)
    ?? Unless(TargetLinked(row) => 29 \notin row.zeros, "MissingLinkedTargetRecordNumber")
    ?? Read(row, 33, 4)
    ?? Unless(~TargetLinked(row) => {29, 33} \subseteq row.zeros, "UnexpectedTerminalLinkFields")
    ?? Read(row, 23, 4) ?? Read(row, 27, 2)
================================================================================
