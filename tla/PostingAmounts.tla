------------------------------ MODULE PostingAmounts ------------------------------
(****************************************************************************)
(* How the row decoders of the posting tables find the amount of a row.  An *)
(* amount is a token <<n, marker, digit, ..., digit>> of n base-100 digits,  *)
(* least significant first (materialized_numeric.rs); which bytes of a row  *)
(* are one follows from its envelope: its end (Deposit, Bill), a fixed      *)
(* place and copies at places relative to the end (Check, BillPayment) or a *)
(* window of places and a later copy (General Journal).                     *)
(*                                                                          *)
(* Of a Check, payment or Journal row, at[o] is the token that the bytes at *)
(* place o spell, with its size, and Null where they run out of the row: as *)
(* the first byte of a token tells its size, a copy is an equal token.      *)
(****************************************************************************)
EXTENDS PostingRows, FiniteSetsExt, SequencesExt

CONSTANT MaxCents     \* i64::MAX

Amount(cents, zero) == [cents |-> cents, zero |-> zero]
CanonicalZero == Amount(0, TRUE)

\* checked_mul(100) and checked_add of a magnitude; Null once it is too large.
Shift(m, digit) ==
    IF m = Null \/ m > (MaxCents - digit) \div 100 THEN Null ELSE 100 * m + digit

Magnitude(digits) == FoldRight(LAMBDA digit, m : Shift(m, digit), digits, 0)
Scaled[m \in {Null} \cup Nat, k \in 0..6] == IF k = 0 THEN m ELSE Scaled[Shift(m, 0), k - 1]

FromParts(marker, digits) ==
    LET exponent == marker % 128 IN
    IF exponent \notin 63..69 \/ \E i \in DOMAIN digits : digits[i] > 99 THEN Null
    ELSE LET m == Scaled[Magnitude(digits), exponent - 63] IN
         IF m = Null THEN Null ELSE Amount(IF marker < 128 THEN -m ELSE m, FALSE)

\* A token that a row spells in full, or one that the schema has decoded.
EnterpriseAmount(marker, digits) ==
    IF digits # <<>> THEN FromParts(marker, digits)
    ELSE IF marker = 129 THEN CanonicalZero ELSE Null

ParseToken(token) == EnterpriseAmount(token[2], SubSeq(token, 3, Len(token)))

--------------------------------------------------------------------------------
(* Amounts at the end of a row: b is the row up to its constant suffix.      *)

Ending(b, n) == SubSeq(b, Len(b) - (n + 1), Len(b))
SpellsEnd(b, n) == Len(b) >= n + 2 /\ b[Len(b) - (n + 1)] = n /\ ParseToken(Ending(b, n)) # Null
TailCandidates(b) == {n \in 0..4 : SpellsEnd(b, n)}
TailValues(b) == {ParseToken(Ending(b, n)) : n \in TailCandidates(b)}

DepositTailAmount(b) ==
    IF Cardinality(TailCandidates(b)) = 1 THEN CHOOSE v \in TailValues(b) : TRUE ELSE Null

\* A copy of the last n + 2 bytes ends five bytes before them.
Repeated(b, n) ==
    LET size == n + 2 IN
    /\ Len(b) >= 2 * size + 5
    /\ SubSeq(b, Len(b) - 2 * size - 4, Len(b) - size - 5) = Ending(b, n)

\* Mutant: the shortest token that ends the row.
BillTailAmountShortest(b) ==
    IF TailCandidates(b) = {} THEN Null ELSE ParseToken(Ending(b, Min(TailCandidates(b))))

BillTailAmount(b) ==
    LET twice == {n \in TailCandidates(b) : Repeated(b, n)} IN
    IF Cardinality(TailValues(b)) = 1 THEN CHOOSE v \in TailValues(b) : TRUE
    ELSE IF TailCandidates(b) # {} /\ Cardinality(twice) = 1
         THEN ParseToken(Ending(b, CHOOSE n \in twice : TRUE))
         ELSE Null

--------------------------------------------------------------------------------
(* Check: a token to the end of the row, one of seven envelopes of copies,   *)
(* or the 144-byte row with two copies.                                      *)

At(row, o) == IF o \in DOMAIN row.at THEN row.at[o] ELSE Null
Reads(row, o) == At(row, o) # Null /\ At(row, o).amount # Null
Bounded(row, o) == Reads(row, o) /\ At(row, o).size \in 2..6

Direct(row) == Reads(row, 83) /\ 83 + At(row, 83).size = row.len

\* The places of the last copies of a token of that size.
LastCopy(row, size) == row.len - (size + 7)
SecondLastCopy(row, size) == LastCopy(row, size) - (size + 5)
ThirdLastCopy(row, size) == SecondLastCopy(row, size) - size

Copies(row, o, copies) ==
    LET size == At(row, o).size IN
    /\ Bounded(row, o)
    /\ o + size <= Min(copies)
    /\ \A c \in copies : c >= 0 /\ At(row, c) = At(row, o)

Triplicate(row, o) ==
    Bounded(row, o)
    /\ LET size == At(row, o).size IN Copies(row, o, {SecondLastCopy(row, size), LastCopy(row, size)})
Quadruplicate(row, o) ==
    Bounded(row, o)
    /\ LET size == At(row, o).size
       IN Copies(row, o, {ThirdLastCopy(row, size), SecondLastCopy(row, size), LastCopy(row, size)})
\* The fixed grammars: the prefix places hold what the last two copies hold.
Prefixed(row, size, places) ==
    LET token == At(row, LastCopy(row, size)) IN
    /\ SecondLastCopy(row, size) >= 0
    /\ Reads(row, LastCopy(row, size)) /\ token.size = size
    /\ \A o \in places \cup {SecondLastCopy(row, size)} : At(row, o) = token
ZeroAt(row, o) == Reads(row, o) /\ At(row, o).amount = CanonicalZero

Envelopes == {"109", "79", "125", "83", "two", "six", "zero215"}

Decodes(row, e) ==
    CASE e = "109" -> row.len >= 196 /\ Triplicate(row, 109)
      [] e = "79" -> Quadruplicate(row, 79)
      [] e = "125" -> row.len = 218 /\ Triplicate(row, 125)
      [] e = "83" -> Quadruplicate(row, 83)
      [] e = "two" -> row.len \in {209, 216, 217} /\ Prefixed(row, 2, {107, 126})
      [] e = "six" -> Prefixed(row, 6, {115})
      [] e = "zero215" -> row.len = 215 /\ \A o \in {106, 125, 199, 206} : ZeroAt(row, o)

\* The first place of an envelope spells a token it may hold.
Signs(row, e) ==
    CASE e = "109" -> row.len >= 196 /\ Bounded(row, 109)
      [] e = "79" -> Bounded(row, 79)
      [] e = "125" -> row.len = 218 /\ Bounded(row, 125)
      [] e = "83" -> Bounded(row, 83)
      [] e = "two" -> row.len \in {209, 216, 217} /\ At(row, 107) # Null /\ At(row, 107).size = 2
      [] e = "six" -> At(row, 115) # Null /\ At(row, 115).size = 6
      [] e = "zero215" -> Decodes(row, e)

FirstPlace(e) ==
    CASE e = "109" -> 109 [] e = "79" -> 79 [] e = "125" -> 125 [] e = "83" -> 83
      [] e = "two" -> 107 [] e = "six" -> 115 [] OTHER -> 106

TailAmount(row) ==
    LET e == CHOOSE e \in Envelopes : Decodes(row, e) IN At(row, FirstPlace(e)).amount

\* decode_shape_amount: several envelopes at once are as bad as a broken one.
CheckAmount(row) ==
    LET decoding == {e \in Envelopes : Decodes(row, e)} IN
    IF Direct(row) THEN At(row, 83).amount
    ELSE IF Cardinality(decoding) = 1 THEN TailAmount(row)
    ELSE IF \E e \in Envelopes : Signs(row, e) THEN Null
    ELSE IF row.len = 144 /\ Reads(row, 109) /\ At(row, 109) = At(row, 128)
         THEN At(row, 109).amount ELSE Null

--------------------------------------------------------------------------------
(* BillPayment: a fixed place, and its copy six bytes before the end.        *)

PaymentAmount(row, shape) ==
    LET o == PaymentPlace(shape) IN
    IF /\ Reads(row, o)
       /\ At(row, o).exponent \in 63..66 \cup {Null}
       /\ row.len - At(row, o).size - 6 >= 0
       /\ At(row, row.len - At(row, o).size - 6) = At(row, o)
       /\ row.ending = PaymentEnd(shape)
    THEN At(row, o).amount ELSE Null

--------------------------------------------------------------------------------
(* General Journal: places are counted from the base that the family of the  *)
(* row and its link flag give; copied is whether a later place repeats the   *)
(* token.                                                                    *)

Prebase(row) == IF row.family = "e8" THEN -8..-3 ELSE -4..-1
DirectPlaces(row) == IF row.family = "e0" THEN 0..2 ELSE 0..1
Spelled(row, places) == {o \in places : Reads(row, o)}
Copied(row, places) == {o \in Spelled(row, places) : At(row, o).copied}

\* The place of the amount: the only token there, the only one with a copy, or
\* the one that the fixed discriminator picks.
Discriminated(row) ==
    /\ row.family = "e0" /\ row.linked
    /\ Spelled(row, Prebase(row)) = {-3, -1}
    /\ At(row, -1).size \in {3, 4}
PrebasePlace(row) ==
    LET found == Spelled(row, Prebase(row))
        copied == Copied(row, Prebase(row))
    IN CASE Cardinality(found) = 1 -> CHOOSE o \in found : TRUE
         [] Cardinality(found) # 1 /\ Cardinality(copied) = 1 -> CHOOSE o \in copied : TRUE
         [] Cardinality(found) > 1 /\ Cardinality(copied) # 1 ->
              IF Discriminated(row) THEN -3 ELSE Null
         [] OTHER -> Null
DirectPlace(row) ==
    LET found == Spelled(row, DirectPlaces(row))
        copied == Copied(row, DirectPlaces(row))
    IN CASE Cardinality(copied) = 1 -> CHOOSE o \in copied : TRUE
         [] row.family = "e0" /\ copied = {0, 2} -> 0
         [] OTHER -> Null

\* select_main_amount: a place before the base hides those after it.
MainAmount(row) ==
    LET o == IF Spelled(row, Prebase(row)) # {} THEN PrebasePlace(row) ELSE DirectPlace(row)
    IN IF o # Null /\ At(row, o).copied THEN At(row, o).amount ELSE Null

FixedPrebaseAmount(row) ==
    IF Reads(row, -8) /\ At(row, -8).copied THEN At(row, -8).amount ELSE Null

ShortTerminalAmount(row) ==
    IF Reads(row, -27) /\ At(row, -27).size = 3 /\ At(row, 17) = At(row, -27)
    THEN At(row, -27).amount ELSE Null
================================================================================
