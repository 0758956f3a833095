--------------------------------- MODULE CsvText ---------------------------------
(****************************************************************************)
(* The CSV readers of the program, for its own manifests and for reports, and *)
(* its writer.  A text is a sequence of the characters "comma", "quote",     *)
(* "cr", "lf" and any others.                                                *)
(****************************************************************************)
EXTENDS Integers, Sequences, SequencesExt

CONSTANT Null

Start == [refused |-> Null, rows |-> <<>>, row |-> <<>>, field |-> <<>>, at |-> "plain", skip |-> FALSE]
EndField(s) == [s EXCEPT !.row = Append(@, s.field), !.field = <<>>, !.at = "plain"]
EndRow(s) == LET e == EndField(s) IN [e EXCEPT !.rows = Append(@, e.row), !.row = <<>>]
Keep(s, c) == [s EXCEPT !.field = Append(@, c)]
Skip(s, onward) == [s EXCEPT !.skip = onward]

\* The end of a line behind a closing quote, or of an unquoted manifest field.
LineEnd(s, c, next) ==
    CASE c = "comma" -> EndField(s)
      [] c = "lf" -> EndRow(s)
      [] OTHER -> Skip(EndRow(s), next = "lf")
AfterQuote(s, c, next) ==
    IF c \in {"comma", "lf", "cr"} THEN LineEnd(s, c, next)
    ELSE [s EXCEPT !.refused = "CharactersAfterClosingQuote"]
InQuotes(s, c, next) ==
    CASE c = "quote" /\ next = "quote" -> Skip(Keep(s, c), TRUE)
      [] c = "quote" /\ next # "quote" -> [s EXCEPT !.at = "after"]
      [] OTHER -> Keep(s, c)
Quote(s) ==
    IF s.field = <<>> THEN [s EXCEPT !.at = "quoted"] ELSE [s EXCEPT !.refused = "BareQuote"]

\* A report drops one carriage return before the end of a line; elsewhere it is
\* a character like any other, where a manifest ends the line.
WithoutReturn(s) ==
    IF s.field # <<>> /\ s.field[Len(s.field)] = "cr" THEN [s EXCEPT !.field = Front(@)] ELSE s
ManifestPlain(s, c, next) ==
    CASE c = "quote" -> Quote(s) [] c \in {"comma", "lf", "cr"} -> LineEnd(s, c, next) [] OTHER -> Keep(s, c)
ReportPlain(s, c, next) ==
    CASE c = "quote" -> Quote(s) [] c = "comma" -> EndField(s)
      [] c = "lf" -> EndRow(WithoutReturn(s)) [] OTHER -> Keep(s, c)

Read(text, reader) ==
    LET step(s, c, next) ==
            CASE s.refused # Null -> s
              [] s.refused = Null /\ s.skip -> Skip(s, FALSE)
              [] OTHER -> CASE s.at = "after" -> AfterQuote(s, c, next)
                            [] s.at = "quoted" -> InQuotes(s, c, next)
                            [] OTHER -> IF reader = "manifest" THEN ManifestPlain(s, c, next) ELSE ReportPlain(s, c, next)
        f[i \in 0..Len(text)] ==
            IF i = 0 THEN Start ELSE step(f[i-1], text[i], IF i < Len(text) THEN text[i+1] ELSE Null)
    IN f[Len(text)]

\* The last line need not end; of its fields, a quoted empty one that is alone
\* is not seen.
Finished(s, last) ==
    CASE s.refused # Null -> [refused |-> s.refused]
      [] s.refused = Null /\ s.at = "quoted" -> [refused |-> "UnclosedQuote"]
      [] OTHER -> [refused |-> Null,
                   rows |-> IF s.field = <<>> /\ s.row = <<>> THEN s.rows ELSE EndRow(last).rows]
ManifestRows(text) == LET s == Read(text, "manifest") IN Finished(s, s)
ReportRows(text) == LET s == Read(text, "report") IN Finished(s, WithoutReturn(s))

--------------------------------------------------------------------------------
\* csv_field
WrittenField(field) ==
    LET doubled == FlattenSeq([i \in DOMAIN field |->
                        IF field[i] = "quote" THEN <<"quote", "quote">> ELSE <<field[i]>>])
    IN IF \E i \in DOMAIN field : field[i] \in {"comma", "quote", "cr", "lf"}
       THEN <<"quote">> \o doubled \o <<"quote">> ELSE field

\* csv_row, of fields that may be absent
Written(fields) ==
    FlattenSeq([i \in DOMAIN fields |->
        (IF i = 1 THEN <<>> ELSE <<"comma">>) \o (IF fields[i] = Null THEN <<>> ELSE WrittenField(fields[i]))])
    \o <<"lf">>
WrittenRows(rows) == FlattenSeq([i \in DOMAIN rows |-> Written(rows[i])])
================================================================================
