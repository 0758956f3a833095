--------------------------------- MODULE Recovery ---------------------------------
(****************************************************************************)
(* The parts of the program that recover what a file holds, or compare it    *)
(* with what QuickBooks reports, each as an action.                          *)
(****************************************************************************)
EXTENDS Calls, Integers, FiniteSets, Sequences

CONSTANTS
    CsvTexts, CsvRows, HashedPieces, DrecBytes, DrecRecords, Days, DiskValues,
    TransformedPages, PageSets, AffinePages, KeyEvidence, SchemaColumns, Manifest(_),
    BalancePairs, LedgerPairs, Sections, DesktopDates

--------------------------------------------------------------------------------
Csv == INSTANCE CsvText
Hash == INSTANCE StreamingHash WITH Block <- 8, Trailer <- 2, Byte <- 256
Stored == INSTANCE CalendarValues
BalanceRefusal(bytes) == Stored!BalanceFromDisk(bytes[1], bytes[2], bytes[3]).refused
Drec == INSTANCE DrecCodec WITH Byte <- 4, MaxLen <- 12

ReadCsv == Call("csv", CsvTexts, LAMBDA x : [manifest |-> Csv!ManifestRows(x), report |-> Csv!ReportRows(x)])
WriteCsv ==
    Call("csv rows", CsvRows,
         LAMBDA x : LET text == Csv!WrittenRows(x)
                    IN [manifest |-> Csv!ManifestRows(text), report |-> Csv!ReportRows(text)])
HashPieces == Call("hash", HashedPieces, Hash!Digest)
ReadDrec == Call("drec", DrecBytes, LAMBDA x : Drec!ParseDrec(x.bytes, x.schema, x.order))
WriteDrec ==
    Call("drec record", DrecRecords,
         LAMBDA x : LET schema == Drec!Schema(x.descriptors)
                        record == Drec!NewRecord(x.flag, x.given)
                    IN IF {schema.refused, record.refused} # {Null}
                       THEN [refused |-> IF schema.refused # Null THEN schema.refused ELSE record.refused]
                       ELSE [refused |-> Null, schema |-> schema.fields, record |-> record,
                             encoded |-> Drec!EncodeDrec(record, schema.fields, x.order),
                             complete |-> Drec!EncodeDrec(Drec!WithDefaults(record, schema.fields), schema.fields, x.order)])
ReadDay ==
    Call("day", Days,
         LAMBDA x : [number |-> Stored!FromYmd(x.year, x.month, x.day),
                     iso |-> Stored!FromIso(<<x.year, x.month, x.day>>),
                     raw |-> Stored!FromRawMinutes(x.minutes)])
ReadDiskValue ==
    Call("disk value", DiskValues,
         LAMBDA x : IF x.is = "date" THEN Stored!ListDateFromDisk(x.bytes)
                    ELSE Stored!BalanceFromDisk(x.bytes[1], x.bytes[2], x.bytes[3]))

\* What the text says comes back from what is written, whoever reads it, and the
\* two readers differ only about carriage returns.
TextsReadBack ==
    /\ task = "csv rows" => \A reader \in {"manifest", "report"} : output[reader] = [refused |-> Null, rows |-> input]
    /\ task = "csv" /\ (\A i \in DOMAIN input : input[i] # "cr") => output.manifest = output.report

\* A digest is that of the padded message, however it was cut into pieces.
DigestsIgnorePieces ==
    task = "hash" => output = Hash!BlocksOf(Hash!Padded(Hash!FlattenSeq(input)))

\* Two records never have the same bytes, nor one record two encodings: what is
\* read is written as it was, and what is written is read as it was.
DrecReadsBack ==
    /\ task = "drec" /\ output.refused = Null =>
         Drec!EncodeDrec(output, input.schema, input.order) = [refused |-> Null, bytes |-> input.bytes]
    /\ task = "drec record" /\ output.refused = Null =>
         \A e \in {"encoded", "complete"} :
            output[e].refused = Null =>
               LET again == Drec!ParseDrec(output[e].bytes, output.schema, input.order)
                   kept == IF e = "encoded" THEN output.record ELSE Drec!WithDefaults(output.record, output.schema)
               IN again.refused = Null /\ again.flag = kept.flag /\ again.fields = kept.fields

\* Days are counted without a gap or a repetition, from a date in any form to its
\* number and back; so are the values of disk.
DaysCount ==
    /\ task = "day" =>
         /\ output.iso = output.number
         /\ output.number.refused = Null =>
              LET n == output.number.day IN
              /\ Stored!YmdOf(n) = <<input.year, input.month, input.day>>
              /\ Stored!FromRawMinutes(n * 1440).refused = Null
              /\ \E y \in {input.year, input.year + 1}, m \in {input.month, (input.month % 12) + 1}, d \in {1, input.day + 1} :
                    /\ Stored!ValidDate(y, m, d) /\ Stored!DaysSinceEpoch(y, m, d) = n + 1
         /\ output.raw.refused = Null => output.raw.day * 1440 = input.minutes
    /\ task = "disk value" /\ input.is = "date" /\ output.refused = Null /\ output.date # Null =>
         Stored!ListDateToDisk(output.date) = input.bytes
    /\ task = "disk value" /\ input.is = "balance" /\ output.refused = Null =>
         LET cents == Stored!SignedCents(output)
             size == IF cents < 0 THEN -cents ELSE cents
         IN cents # Null => <<size % 100, size \div 100>> = <<input.bytes[1], input.bytes[3]>>

\* What is written in any of these forms is read as it was, and only so.
WrittenReadsBack == TextsReadBack /\ DigestsIgnorePieces /\ DrecReadsBack /\ DaysCount

--------------------------------------------------------------------------------
\* A page with a mark in its header and a directory before its trailer; two places
\* of the header are kept in the trailer.
IsTable(page) == page[1][5] = 1 /\ page[2][1] = 2 /\ page[3][2] \in {1, 2}
Page == INSTANCE PageTransform WITH Byte <- 4, Sector <- 8, FinalTail <- 4, HeaderBytes <- 4,
            HeaderTrailer <- {<<4, 1, 21>>, <<6, 1, 20>>}, MinDecisiveKeyWitnesses <- 3
Affine == INSTANCE AffineRecovery WITH Byte <- 8, Length <- 16, Sectors <- 2, Trailer <- 4

\* A page as it is stored under a key.
Stored24(plain, key) ==
    LET stored == Page!RelocateHeaderTrailer(plain)
    IN [i \in DOMAIN stored |-> Page!Permuted(stored[i], -(key - (i - 1)), IF i = Len(stored) THEN 4 ELSE 0)]

MaterializePage ==
    Call("page", TransformedPages,
         LAMBDA x : LET raw == Stored24(x.plain, x.key)
                        context == Page!Context(Page!High(x.key), x.key < 0, FALSE)
                    IN [alone |-> Page!PageAlone(raw, x.number),
                        known |-> Page!PageWithKey(raw, x.number, context),
                        candidates |-> Page!PageCandidates(raw, x.number, context),
                        adjacent |-> Page!PageCandidates(raw, x.number, Page!WithAdjacent(context))])
ResolvePage ==
    Call("candidates", TransformedPages,
         LAMBDA x : LET found == Page!PageCandidates(Stored24(x.plain, x.key), x.number,
                                                     Page!Context(Page!High(x.key), x.key < 0, TRUE))
                    IN IF found.refused # Null THEN found
                       ELSE Page!Resolved({IF p[2][0] # 3 THEN p ELSE Null : p \in found.pages}))
DiscoverKey ==
    Call("pages", PageSets,
         LAMBDA x : LET raw == [i \in DOMAIN x.pages |-> <<x.pages[i].number, Stored24(x.pages[i].plain, x.key)>>]
                    IN [key |-> Page!DiscoverKey(raw), candidates |-> Page!DiscoverCandidates(raw)])
\* The places of a page of 4096 bytes.
HeaderTrailer == {<<6, 6, 4082>>, <<12, 4, 4088>>, <<18, 2, 4080>>}
RelocateByte == Call("place", 0..4095, LAMBDA x : Page!Relocated(x, HeaderTrailer))

RecoverAffinePage ==
    Call("affine", AffinePages,
         LAMBDA x : LET raw == Affine!Obfuscated(x.plain, x.number, x.bv, x.steps)
                    IN [witnesses |-> Affine!Witnesses(x.number, raw, x.tag),
                        plain |-> Affine!Readings(raw, x.number)[x.bv],
                        magic |-> Affine!RecoverByMagic(raw, x.number, x.tag),
                        any |-> Affine!RecoverAny(raw, x.number)])

\* The true reading of a page is never passed over: a page is read as another
\* one, or attributed to another key, at most when the true one is among several
\* and so nothing is chosen.
TruePageKept ==
    /\ task = "page" =>
         /\ \A r \in {"alone", "known"} : output[r].refused = Null => output[r].page = input.plain
         /\ \A r \in {"candidates", "adjacent"} : output[r].refused = Null /\ input.plain \in output[r].pages
    /\ task = "candidates" /\ output.refused = Null => output.value = input.plain
    /\ task = "pages" =>
         /\ output.key.refused = Null => output.key.context = Page!ContextOf(input.key)
         /\ output.candidates.refused = Null => Page!ContextOf(input.key) \in DOMAIN output.candidates.votes
    /\ task = "place" /\ output # input => Page!Relocated(output, HeaderTrailer) = input
    /\ task = "affine" =>
         LET raw == Affine!Obfuscated(input.plain, input.number, input.bv, input.steps)
             s == Affine!SectorOf(input.at)
         IN /\ \E w \in output.witnesses :
                  w = [offset |-> input.at, sector |-> s, base |-> Affine!Base(input.bv, input.number, s),
                       step |-> input.steps[s], bv |-> input.bv]
            /\ \A w \in output.witnesses, i \in DOMAIN input.tag :
                  LET o == w.offset + i - 1 IN
                  (raw[o] - Affine!Base(w.bv, input.number, w.sector) - (o - Affine!SectorStart(w.sector)) * w.step) % 8
                      = input.tag[i]
            /\ output.plain = input.plain

--------------------------------------------------------------------------------
Select == INSTANCE KeySelection
Report == INSTANCE Reconciliation

\* Candidates are keys of one context each; what is shown is shown of them and of
\* their pairs.  Two tables of two columns stand for the supported schema.
ASSUME KeysAssumption ==
    /\ Null \notin {"StructuralDiscoveryFailed", "AmbiguousSemanticCandidates", "NoSemanticCandidate",
                   "multiple", "incomplete", "ColumnCountMismatch", "OrdinalMismatch", "FingerprintMismatch"}
    /\ \A x \in KeyEvidence :
          /\ Len(x.order) \in Nat /\ DOMAIN x.order = 1..Len(x.order)
          /\ IsFiniteSet(x.witnessed)
          /\ \A c \in x.witnessed : "adjacent" \in DOMAIN c /\ ~c.adjacent /\ \E i \in DOMAIN x.order : x.order[i] = c
    /\ \A t \in {1, 2} :
          /\ Cardinality(Manifest(t)) = 2 /\ {c[2] : c \in Manifest(t)} = 1..2
          /\ \A c \in Manifest(t) : c[1] = t
    /\ \A columns \in SchemaColumns : \A c \in columns : c[1] \in {1, 2}

SelectKey == Call("key", KeyEvidence, LAMBDA x : Select!Chosen(x.witnessed, x.evidence, x.order))
CheckManifest ==
    Call("manifest", SchemaColumns,
         LAMBDA x : Select!ManifestRefusal(x, [t \in {1, 2} |-> [count |-> 2, metadata |-> Manifest(t)]]))

Reversed(seq) == [i \in DOMAIN seq |-> seq[Len(seq) + 1 - i]]
PassedBy(c) == \E p \in Select!Profiles : Select!Rejection(p, input.evidence[c]) = Null

\* A ledger is built with a key only if no other key could have been meant: the
\* order in which keys are tried decides nothing, a key that shows everything
\* is not passed over for one that shows less, and a ledger of the latter balances.
\* The columns of the schema are then those of the version that is supported.
KeyUndisputed ==
    /\ task = "key" =>
         /\ Select!Chosen(input.witnessed, input.evidence, Reversed(input.order)) = output
         /\ output.refused = Null =>
              LET c == output.context
                  strict(k) == Select!Rejection("Strict", input.evidence[k]) = Null
                  rivals == (input.witnessed \cup {Select!Pair(k) : k \in input.witnessed}) \ {c}
              IN /\ PassedBy(c) /\ Select!LedgerOf(input.evidence[c]) # Null
                 /\ c \in input.witnessed \/ \E k \in input.witnessed : Select!Neighbour(k) \in input.witnessed /\ c = Select!Pair(k)
                 /\ \A k \in rivals \cap input.witnessed : ~strict(k)
                 /\ ~(c \in input.witnessed /\ strict(c)) => input.evidence[c].balances
                 /\ ~(c \in input.witnessed /\ strict(c)) /\ c \in input.witnessed =>
                      \A k \in rivals \cap input.witnessed :
                         PassedBy(k) /\ Select!LedgerOf(input.evidence[k]) # Null => ~input.evidence[k].balances
    /\ task = "manifest" => (output = Null <=> input = Manifest(1) \cup Manifest(2))

--------------------------------------------------------------------------------
\* The same books as QuickBooks exports them, where an account may bear a number,
\* and as the program reports them.
WithNumber(name) == <<"12", "dot">> \o name
Exported(b, numbered) ==
    LET row(a) == [account |-> IF a \in numbered THEN WithNumber(a) ELSE a,
                   debit |-> IF b[a] > 0 THEN b[a] ELSE Null, credit |-> IF b[a] < 0 THEN -b[a] ELSE Null]
    IN [i \in 1..Len(Report!SetToSeq(DOMAIN b)) |-> row(Report!SetToSeq(DOMAIN b)[i])]
         \o <<[account |-> <<"total">>, debit |-> 9, credit |-> 9]>>
Reported(b) ==
    LET row(a) == [account |-> a, debit |-> IF b[a] > 0 THEN b[a] ELSE Null,
                   credit |-> IF b[a] < 0 THEN -b[a] ELSE Null, net |-> b[a]]
    IN [i \in 1..Len(Report!SetToSeq(DOMAIN b)) |-> row(Report!SetToSeq(DOMAIN b)[i])]

ReconcileTrialBalances ==
    Call("balances", BalancePairs,
         LAMBDA x : LET native == Report!NativeTrialBalance(Exported(x.reference, x.numbered) \o x.noise)
                        generated == Report!GeneratedTrialBalance(Reported(x.actual) \o x.noise)
                    IN IF {native.refused, generated.refused} # {Null}
                       THEN [refused |-> IF native.refused # Null THEN native.refused ELSE generated.refused]
                       ELSE [refused |-> Null, result |-> Report!Reconciled(native.balances, generated.balances)])

\* The sections of a ledger export: the headings of an account and of those above
\* it, of which the first may bear a number, rows, a total.
Heading(label) == [date |-> Null, label |-> label]
Dated(p) ==
    [date |-> [digits |-> 2, year |-> 24, month |-> 1, day |-> p.day], label |-> <<>>, type |-> p.type,
     debit |-> IF p.cents > 0 THEN p.cents ELSE Null, credit |-> IF p.cents < 0 THEN -p.cents ELSE Null]
Section(s) ==
    [i \in DOMAIN s.headings |-> Heading(IF i = 1 /\ s.numbered THEN WithNumber(s.headings[i]) ELSE s.headings[i])]
        \o [i \in DOMAIN s.postings |-> Dated(s.postings[i])] \o <<Heading(<<"total">>)>>
AccountOf(s) == Tail(Report!FlattenSeq([i \in DOMAIN s.headings |-> <<":">> \o s.headings[i]]))
Day(p) == Report!DaysSinceEpoch(2024, 1, p.day)
Year24 == <<Report!DaysSinceEpoch(2024, 1, 1), Report!DaysSinceEpoch(2024, 12, 31)>>
Posted(s) ==
    [i \in DOMAIN s.postings |-> [date |-> Day(s.postings[i]), account |-> AccountOf(s),
                                  cents |-> s.postings[i].cents, type |-> s.postings[i].type]]

ReconcileLedgers ==
    Call("ledgers", LedgerPairs,
         LAMBDA x :
            LET native == Report!NativeLedger(Report!FlattenSeq([i \in DOMAIN x.sections |-> Section(x.sections[i])]),
                                              Year24[1], Year24[2])
                rows == [i \in DOMAIN x.program |-> [day |-> Day(x.program[i]), account |-> x.program[i].account,
                                                     cents |-> x.program[i].cents, type |-> x.program[i].type]]
                generated == Report!GeneratedLedger(rows, Year24[1], Year24[2])
            IN IF {native.refused, generated.refused} # {Null}
               THEN [refused |-> IF native.refused # Null THEN native.refused ELSE generated.refused]
               ELSE [refused |-> Null, native |-> native.postings, generated |-> generated.postings,
                     result |-> Report!ReconciledLedgers(native.postings, generated.postings)])
ResolveSections ==
    Call("sections", Sections,
         LAMBDA x : Report!ResolvedSections(x.native, x.full, x.chart, x.entries))
ReadDesktopDate == Call("desktop date", DesktopDates, LAMBDA x : Report!DesktopDate(x, Year24[1] - 400, Year24[2]))

\* Books reconcile with themselves, in whatever form they come, and with no
\* others; the postings of an export stand in the accounts of their sections,
\* and each ends in one account of the program or none does.
BooksReconcile ==
    /\ task = "balances" /\ output.refused = Null =>
         Report!Passes(output.result) <=>
             input.reference = input.actual /\ Report!Debits(input.actual) = Report!Credits(input.actual)
    /\ task = "ledgers" /\ output.refused = Null =>
         LET expected == Report!FlattenSeq([i \in DOMAIN input.sections |-> Posted(input.sections[i])])
             r == output.result
             key(p) == IF r.typed THEN [p EXCEPT !.type = Report!ComparedType(@)] ELSE [p EXCEPT !.type = Null]
             keys(s) == [i \in DOMAIN s |-> key(s[i])]
         IN /\ output.native = SelectSeq(expected, LAMBDA p : p.cents # 0)
            /\ (r.missing = 0 /\ r.extra = 0) <=> Report!SameBag(keys(output.native), keys(output.generated))
            /\ r.matching <= r.byDay
    /\ task = "sections" /\ output.refused = Null =>
         \A i \in DOMAIN output.postings :
            /\ output.postings[i].account \in Report!Range(input.full)
            /\ input.native[i].account \in Report!Range(input.full) => output.postings[i] = input.native[i]
    /\ task = "desktop date" /\ output.refused = Null =>
         LET ymd == Report!YmdOf(output.day) IN
         /\ output.day \in (Year24[1] - 400)..Year24[2]
         /\ ymd[2] = input.month /\ ymd[3] = input.day /\ ymd[1] % 10^input.digits = input.year

--------------------------------------------------------------------------------
RecoveryNext ==
    \/ ReadCsv \/ WriteCsv \/ HashPieces \/ ReadDrec \/ WriteDrec \/ ReadDay \/ ReadDiskValue
    \/ MaterializePage \/ ResolvePage \/ DiscoverKey \/ RelocateByte \/ RecoverAffinePage
    \/ SelectKey \/ CheckManifest
    \/ ReconcileTrialBalances \/ ReconcileLedgers \/ ResolveSections \/ ReadDesktopDate
================================================================================
