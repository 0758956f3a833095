-------------------------------- MODULE DrecCodec --------------------------------
(****************************************************************************)
(* The records of the CIndex side files: a flag, then fields that each begin *)
(* with the ordinal of their descriptor, and an ordinal of all ones at the   *)
(* end.  Bytes are digits of the base Byte; an ordinal takes two.            *)
(****************************************************************************)
EXTENDS Integers, FiniteSets, Sequences, SequencesExt

\* BalanceRefusal says why the bytes of a balance are none, or Null.
CONSTANTS Null, Byte, MaxLen, BalanceRefusal(_)

Top == Byte * Byte - 1
Classes == {"String", "Bytes", "F", "I", "L", "H", "U", "M", "Z"}
Widths == [F |-> 4, I |-> 4, L |-> 4, H |-> 2, U |-> 2, M |-> 6, Z |-> 9]

\* DrecByteOrder
Number(bytes, order) ==
    LET f[i \in 0..Len(bytes)] ==
            IF i = 0 THEN 0 ELSE f[i-1] * Byte + bytes[IF order = "big" THEN i ELSE Len(bytes) + 1 - i]
    IN f[Len(bytes)]
BytesOf(n, width, order) ==
    [i \in 1..width |-> (n \div Byte^(IF order = "big" THEN width - i ELSE i - 1)) % Byte]

\* ensure_value_matches: a value is the bytes that it holds.
Suits(d, value) ==
    CASE d.class = "String" -> Len(value) + 1 <= d.length /\ 0 \notin ToSet(value)
      [] d.class = "Bytes" -> Len(value) = d.length
      [] OTHER -> Len(value) = Widths[d.class]

\* validate_descriptor
DescriptorRefusal(d) ==
    CASE d.class = "E" -> "EarlyDescriptorTerminator"
      [] d.class = "D" -> "PointerSizedFieldUnsupported"
      [] d.class \notin Classes \cup {"E", "D"} -> "UnknownClass"
      [] d.class = "String" /\ d.length = 0 -> "InvalidDescriptorLength"
      [] d.class \in DOMAIN Widths /\ d.length # Widths[d.class] -> "InvalidDescriptorLength"
      [] OTHER -> IF d.default # Null /\ ~Suits(d, d.default) THEN "ValueDoesNotMatchDescriptor" ELSE Null

\* DrecSchema::new: the fields before a terminal E; ordinals count from zero.
Schema(descriptors) ==
    LET fields == Front(descriptors)
        end == descriptors[Len(descriptors)]
        failing == {i \in DOMAIN fields : DescriptorRefusal(fields[i]) # Null}
    IN CASE descriptors = <<>> \/ (descriptors # <<>> /\ end.class # "E") -> [refused |-> "MissingDescriptorTerminator"]
         [] descriptors # <<>> /\ end.class = "E" /\ (end.length # 0 \/ end.default # Null) ->
                [refused |-> "InvalidEndDescriptor"]
         [] OTHER -> IF Len(fields) > Top THEN [refused |-> "SchemaTooLarge"]
                     ELSE IF failing # {}
                     THEN [refused |-> DescriptorRefusal(fields[CHOOSE i \in failing : \A j \in failing : i <= j])]
                     ELSE [refused |-> Null, fields |-> fields]

--------------------------------------------------------------------------------
\* parse_value: what a field of the descriptor takes of the bytes from `at` on.
Value(bytes, at, d) ==
    LET left == Len(bytes) - at + 1
        width == IF d.class \in {"String", "Bytes"} THEN d.length ELSE Widths[d.class]
        nuls == {i \in 0..(width - 1) : at + i <= Len(bytes) /\ bytes[at + i] = 0}
        nul == CHOOSE i \in nuls : \A j \in nuls : i <= j
        held == SubSeq(bytes, at, at + width - 1)
    IN CASE d.class = "String" /\ nuls # {} ->
                [refused |-> Null, value |-> SubSeq(bytes, at, at + nul - 1), size |-> nul + 1]
         [] d.class = "String" /\ nuls = {} ->
                [refused |-> IF width > left THEN "Truncated" ELSE "UnterminatedString"]
         [] d.class # "String" /\ width > left -> [refused |-> "Truncated"]
         [] OTHER -> IF d.class = "M" /\ BalanceRefusal(held) # Null THEN [refused |-> "LegacyBalance"]
                     ELSE [refused |-> Null, value |-> held, size |-> width]

LaterOrdinal(previous, ordinal) == previous = Null \/ ordinal > previous

\* One field, or the end, of what parse_drec reads.
ReadField(s, bytes, fields, order) ==
    LET ordinal == Number(SubSeq(bytes, s.at, s.at + 1), order)
        v == Value(bytes, s.at + 2, fields[ordinal + 1])
        fail(why) == [s EXCEPT !.refused = why]
    IN IF s.at + 1 > Len(bytes) THEN fail("Truncated")
       ELSE IF ordinal = Top
       THEN IF s.at + 1 < Len(bytes) THEN fail("TrailingBytes") ELSE [s EXCEPT !.done = TRUE]
       ELSE IF ~LaterOrdinal(s.previous, ordinal) THEN fail("NonIncreasingOrdinal")
       ELSE IF ordinal >= Len(fields) THEN fail("OrdinalOutOfRange")
       ELSE IF v.refused # Null THEN fail(v.refused)
       ELSE [s EXCEPT !.at = @ + 2 + v.size, !.previous = ordinal,
                      !.fields = [o \in DOMAIN @ \cup {ordinal} |-> IF o = ordinal THEN v.value ELSE @[o]]]

NoFields == [o \in {} |-> <<>>]
ParseDrec(bytes, fields, order) ==
    LET start == [refused |-> Null, done |-> FALSE, at |-> 2, previous |-> Null, fields |-> NoFields]
        f[n \in 0..Len(bytes)] ==
            IF n = 0 THEN start
            ELSE IF f[n-1].refused # Null \/ f[n-1].done THEN f[n-1] ELSE ReadField(f[n-1], bytes, fields, order)
        end == f[Len(bytes)]
    IN CASE Len(bytes) > MaxLen -> [refused |-> "RecordTooLarge"]
         [] bytes = <<>> -> [refused |-> "Truncated"]
         [] OTHER -> IF end.refused # Null THEN [refused |-> end.refused]
                     ELSE [refused |-> Null, flag |-> bytes[1], fields |-> end.fields]

--------------------------------------------------------------------------------
\* encode_drec: by ordinal, whatever the order the fields were given in.
EncodedField(o, value, d, order) ==
    BytesOf(o, 2, order) \o value \o (IF d.class = "String" THEN <<0>> ELSE <<>>)
EncodeDrec(record, fields, order) ==
    LET ordinals == SetToSortSeq(DOMAIN record.fields, <)
        value(i) == record.fields[ordinals[i]]
        d(i) == fields[ordinals[i] + 1]
        body(n) == FlattenSeq([i \in 1..n |-> EncodedField(ordinals[i], value(i), d(i), order)])
        refusal(i) == CASE ordinals[i] >= Len(fields) -> "OrdinalOutOfRange"
                        [] ordinals[i] < Len(fields) /\ ~Suits(d(i), value(i)) -> "ValueDoesNotMatchDescriptor"
                        [] OTHER -> IF Len(body(i)) + 3 > MaxLen THEN "RecordTooLarge" ELSE Null
        failing == {i \in DOMAIN ordinals : refusal(i) # Null}
    IN IF failing # {} THEN [refused |-> refusal(CHOOSE i \in failing : \A j \in failing : i <= j)]
       ELSE [refused |-> Null, bytes |-> <<record.flag>> \o body(Len(ordinals)) \o BytesOf(Top, 2, order)]

\* DrecRecord::new and materialize_schema_defaults
NewRecord(flag, given) ==
    LET ordinals == {given[i][1] : i \in DOMAIN given} IN
    IF Cardinality(ordinals) < Len(given) THEN [refused |-> "DuplicateOrdinal"]
    ELSE [refused |-> Null, flag |-> flag,
          fields |-> [o \in ordinals |-> given[CHOOSE i \in DOMAIN given : given[i][1] = o][2]]]
WithDefaults(record, fields) ==
    LET absent == {o \in 0..(Len(fields) - 1) : o \notin DOMAIN record.fields /\ fields[o + 1].default # Null}
    IN [record EXCEPT !.fields =
            [o \in DOMAIN @ \cup absent |-> IF o \in DOMAIN @ THEN @[o] ELSE fields[o + 1].default]]
================================================================================
