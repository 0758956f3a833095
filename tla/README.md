# TLA+ models and proofs of openqbw

openqbw reads QuickBooks company files without QuickBooks: it decodes the
SQL Anywhere pages of a `.QBW` file, normalises what it can prove about the
postings in it into a double-entry ledger, and writes reports. Its promise is
to *fail closed*: a report that is given out is complete, balanced and of one
state of the file, or there is none. The modules here state that promise, and
the promises of the parts it rests on, and check or prove that the code keeps
them. Line numbers refer to the sources under `crates/`.

## 1. Inventory

| part | source | state | operations |
|---|---|---|---|
| Output publication | `openqbw-cli/src/main.rs` 2377-2535 | destination, stage and backup paths | ensure safe, stage, write, compare identities, set aside, place, restore |
| Batch scheduler | `batch_extract.rs` 124-300 | shared iterator, worker threads, result channel, slots | validate, spawn, take, run, send, receive, place |
| Snapshot attestation | `batch_extract.rs` 303-430 | expected length and time, bytes, digest | stat, open, bounded read, restat, compare |
| Batch trial balance | `batch_trial_balance.rs`, `main.rs` 969 | manifest rows, reports, staged database | schedule, decode, report, collect, write, publish |
| Account hierarchy | `accounting.rs` 728-759 | cursor and visited set of a walk | walk every account to its root |
| Ledger and reports | `accounting.rs`, `financial_statements.rs` | accounts, postings, completeness | `Ledger::new`, general ledger, trial balances, profit and loss, balance sheet |
| Row collection, bill carriers, forwarding | `enterprise24_accounting_pipeline.rs` 243-1431 | candidate directories, coverage counters, alias maps | collect, agree, resolve |
| Ledger pipeline | same 1500-3338 | blockers, dispositions | collect, validate, block, build |
| Key selection | `main.rs` 1540-1811, `enterprise24_schema_manifest.rs` | candidate keys and what each shows | try strictly, try relaxed, pair, select the unique ledger |
| Posting and account adapters | `schema_posting_adapter.rs`, `schema_account_adapter.rs` | none beyond a call | adapt a whole row, a bounded row, a parsed row |
| Row decoders | `materialized_*.rs` | none beyond a call | parse fixed rows, find amounts, classify journal rows and tables |
| Page materialisation | `enterprise_page_materializer.rs`, `enterprise24_transform_key.rs`, `bv_recovery.rs` | none beyond a call | recover keys, transform, resolve candidates |
| Catalogs | `systable.rs`, `syscolumn.rs`, `sysindex.rs`, `page_attribution.rs`, `fkgraph.rs`, `index_root_map.rs` | none beyond a call | find rows, collect, attest, relate |
| Texts and codecs | `batch_trial_balance.rs` (CSV), `batch_extract.rs` (SHA-256), `cindex_drec.rs`, `date.rs`, `materialized_posting_date.rs`, `quickbooks_*.rs` | the hash's block, the reader's place | read, write, hash |
| Reconciliation | `trial_balance_reconciliation.rs`, `general_ledger_reconciliation.rs` | none beyond a call | read both reports, compare |
| Report writers | `report_output.rs`, `statement_output.rs`, `batch_trial_balance.rs` | a database that outlives a write | validate, name, write texts, migrate, replace, consolidate |
| Research probes, Python bindings | feature-gated CLI modules, `openqbw-py` | none | not part of the models |

**Interactions.** The CLI builds a store of pages from a company file, the
pipeline turns it into accounts and postings with a completeness verdict,
`Ledger::new` validates those, a report function reads the ledger, and the
result goes through output publication. A batch run puts the scheduler and the
snapshot attestation around all of this: worker threads share an iterator
(under a mutex) and a channel; publication shares the file system with every
other process.

**What is hard.** Worker threads that finish in any order or panic; files
that are written, replaced or removed while they are read; outputs that appear
between a test and the rename that relies on it; a crash between two system
calls; cycles and gaps in parent chains; cutoffs, fiscal years and integer
limits; postings that are unresolved, superseded or voided; decoders that each
see only a part of the data. `PROJECT.json` lists each of these hazards with its line.

**What makes each part correct.**
Publication: nothing partial visible, nothing foreign destroyed, the input
never set aside. Scheduler: each input run once, results in input order, a
panic never passed over, the run ends. Attestation: no torn or stale snapshot, bounded
memory. Batch: all reports or no output. Hierarchy: accepted charts are
forests, refusals name real faults, the walk ends. Ledger: reports rest on
complete, balanced, resolved data, agree with each other, do not change
when later postings arrive, never wrap. Row collection: a table counts as
complete only if no image of a row was lost, and rows are set aside only for a
reason the balanced rows attest. Pipeline: a ledger leaves no row of the six
tables out, its entries balance, and each gap has a blocker. Decoders: a row
can be read in one way, and reading less of it never changes the answer. Catalogs and
keys: neither depends on the order of pages or candidates, and what is
ambiguous is refused. Codecs and writers: what is written is read back as it
was, and a database holds the last accepted report of each company and day.

## 2. Modules

| module | models | checked by | proved in |
|---|---|---|---|
| `Publication` | one output path, several processes, crashes | `MCPublication` (3 cfgs) | `PublicationProofs` |
| `BatchScheduler` | the worker pool | `MCBatchScheduler` (1) | `BatchSchedulerProofs` |
| `AtomicBatch` | what the command promises: each report in one step, the output in another | as a property of `BatchTrialBalance` | `BatchTrialBalanceProofs` |
| `BatchTrialBalance` | the command: jobs as system calls, files, output; moves by the actions of `BatchScheduler`, implements `AtomicBatch` | `BatchTrialBalance` (2) | `BatchTrialBalanceProofs` |
| `AccountHierarchy` | `validate_account_hierarchy`, statement by statement | `MCAccountHierarchy` (2) | `AccountHierarchyProofs` |
| `Ledger` | `Ledger::new` and every report | `MCLedger` (1) | `LedgerProofs` |
| `BillCarriers` | the walk along the carriers of Bill rows | `MCTableCollection` | `TableCollectionProofs` |
| `TableCollection` | every collector, and when its table is complete; composes `BillCarriers` | `MCTableCollection` (1) | `TableCollectionProofs` |
| `Pipeline` | collected tables to a ledger or blockers; ends in `Ledger` | `MCPipeline` (1) | `PipelineProofs` |
| `PostingRows`, `PostingAmounts`, `JournalRows` | parsers of fixed rows, their amounts, the layouts of journal rows | `MCDecoders` in `MCConversions` | `ConversionsProofs` |
| `JournalClassification` | which rows of a journal table are postings, links or metadata | same | |
| `PostingAdapters`, `AccountAdapters` | rows by the columns of the catalog, whole and bounded | same | `ConversionsProofs` |
| `Catalogs` | SYSTABLE, SYSCOLUMN, SYSINDEX and what relates them | same | `ConversionsProofs` |
| `CsvText`, `StreamingHash`, `DrecCodec`, `CalendarValues` | texts, hash, records, days and balances | `MCConversions` | |
| `PageTransform`, `AffineRecovery`, `KeySelection` | pages and their keys | same | `ConversionsProofs` (keys) |
| `Reconciliation` | both comparisons with reports of QuickBooks | same | |
| `ReportOutput` | what reports have to be, their texts and database | `MCConversions` | |
| `Calls`, `Decoders`, `Recovery`, `Reporting`, `Conversions` | the calls of all of these, each an action | `MCConversions` (1) | `ConversionsProofs` |

### Publication
Files are inodes: publisher `p`'s artifact is the value `p`, so two paths with
one value are hard links. There is one action per system call of
`write_staged_file` and `publish_staged_path`; `pc` labels carry the name of
the call. `dest` and `input` are the shared paths, `stage` and `backup` the
private ones (their names are unique per process and time, so they do not
collide). The environment (`SwapDestination`, `SwapInput`) replaces the shared
paths up to `MaxSwaps` times; `Crash` ends a process anywhere. File system
calls that may be refused by the system have a failing branch.
`EnsureSafeDestination` is one step: publication repeats its tests.

### BatchScheduler
`main` is the calling thread, `worker[w]` a scoped thread. `Take` is atomic
because the code holds the mutex for the call to `next()`. `RunOne` is the
processor: an outcome or a panic. The channel is one sequence, as `mpsc` is.
`Disconnected` needs every sender dropped: the main thread dropped its own
after spawning. `ran` is a ghost that remembers what each input came to.

### AtomicBatch, BatchTrialBalance
`Pool == INSTANCE BatchScheduler` supplies the pool's actions, so that a step of the command
is one of the pool by definition, and no property says so. A job takes the place of
`RunOne`: stat, open, chunked reads, restat, decoding, a second such
reading and the report. A file is a sequence of chunks on an inode, `path`
maps inputs to inodes, so that in-place writes, replacement by rename and
removal differ as they do in the file system. A digest stands for the content
it is of (collisions of SHA-256 are not modelled). The writers live in one of two
worlds: in the `coarse` one a write may leave the modification time as it was, but no
earlier content comes back; in the `recurring` one contents come back, but every
write is dated. The code's safety rests on one of the two assumptions; with
neither, a torn snapshot can pass both readings, and its documentation
promises nothing. The final publication is the unforced path of `Publication`,
two system calls here.

`AtomicBatch` knows no workers, readings or stages: a company's report is made once,
in one step, from one of the contents that its file has had; and the output appears in one
step, under a name that nobody had, with a report of every company in manifest order. Other programs may
take the name first. `Atomic == INSTANCE AtomicBatch WITH made <- Made` is the refinement mapping: a
report is made when the processor returns it, which is after the last reading, and the
output is published by the link, after the test for the name, the collection and the
staging. `BatchIsAtomic` is that the command implements this.

### AccountHierarchy
`current` is the outer loop over the accounts in identifier order, `cursor` and
`visited` the walk. `Missing` stands for a parent identifier that is not on
the chart; indexing the map with it is a panic.

### Ledger
A ledger is built once, and a report is a function of it; so a behaviour is
`New` and one `Ask...`. All refusals are there in the order of the code. Report
amounts have the width `MinAmount..MaxAmount`, sums are exact as the code's
128-bit ones. Left out: names, display order, running balances and the text of
general-ledger lines. `Evaluate` is what a request comes to over a ledger; reports are
evaluated again, over a longer stream, by `HistoryIsStable`. `HierarchyFaulty` is what `AccountHierarchyProofs` shows of the walk.

### BillCarriers
Some Bill rows carry no money but point at the next row of their transaction.
The collector sets such a row aside only if its chain of pointers ends at a
row of a balanced family that belongs to it. `BeginWalk` to `EndWalk` are the
branches of the two nested loops; `classified` is the map of verdicts shared by all
walks, which is what makes the loop's correctness less than obvious.

### TableCollection
One action per public collector. The input is a scan: for each group of
candidate images of a page, the slots the candidates' directories name and what each
candidate reads there. The outcome of a slot depends only on its own images, so all
slots of a page are taken in one step; `Coverage` holds the
code's counters and `Complete` is its verdict. A slot's images are sorts
("row", "failed", "carrier", ...) instead of bytes; whether a row's framing is
that of a carrier is judged by the first candidate, as in the code. A
header row stands for the transaction it heads. The refusals of
a scan of another table or schema come before any state and are left out.

### Pipeline
The phases of the one long function: `CheckTables`, `MapIdentities`,
`NormalizeAccounts`, then one action for each posting table in the order they
were given (`SkipTable` for the others), then `Refuse` or `Build`. A row enters as
what its decoder observes of it; the validators over whole tables and the
order in which they give up are all there. `Built == INSTANCE Ledger` supplies what
`Ledger::new` may refuse. For General Journal and Bill rows, `date` stands for
the date together with the view type. `JournalClassified` has the outcome of the table's classifier
for monetary rows; that source links lead to a posting is
part of the rows' input (a row of an invalid link is "failed").
`Kept` has the positions that a loop keeps, by their rank, so that what is
kept of a table is in its order. `InputsAssumption` says what the phases before this one have
seen to: tables and their rows are sequences, a check row is opaque and zero only if the
physical decoder rejects it, a deposit's proven header has no amount.
Bill payments are not proven balanced per transaction by the code, and so not
by the model: the ledger's reports refuse an unbalanced entry
(`ReportsRestOnProof` of `Ledger`).

### Calls, Decoders, Recovery, Reporting, Conversions
What keeps no state is modelled as functions, and a call of one as an action:
`Call` takes one of the inputs given for it and keeps input and answer, and
the properties relate the two, mostly to another function's answer on the
same input. `Decoders` holds the calls on rows and catalogs, `Recovery`
those on pages, keys, texts and comparisons, `Reporting` the writers, whose
database goes through a sequence of writes within one call. `Conversions`
joins them. Of the inputs, which may be any, the named assumptions say that rows and what their
prefixes announce have lengths (`RowsAssumption`); that every witnessed key has a place in the order
in which keys are tried, that a witnessed key is of one context, and that the known schema has two
columns of each of two tables (`KeysAssumption`); and that what is read of one record in several ways
is one record (`LinesAssumption`, `AccountsAssumption`): a value decoded for the place of a column is
the value which the complete row has there, as the bounded decoder and the complete one run over the
same bytes, and of a column whose name is its own (`SameLine`) it is what the parser of the table
reads. They say nothing of how much was decoded, of the schema, or of what the values are. Of catalog
pages they say that pages, readings and slots are numbered from one, that a store has a first page, and
that a slot without a record, or with one too short for the fixed prefix that holds the id, is no
row of a required table (`CatalogsAssumption`, `StoresAssumption`). `systable.rs` 347-359 states this of
records too short for the prefix; that a slot without a record holds no such row is an assumption about
the directories, which the code makes when it skips the slot. What follows of the theorems from these: that readings of different
parsers book alike rests on `SameLine` (`OneAnswer`; whether a line is a source or a split is not compared),
and that what is recovered repeats no id or name holds by what `ConflictFree` keeps. `Null` is none of the reasons of a refusal (`NullAssumption`,
`AnswersAssumption`, `RefusalsAssumption`, `CollectionsAssumption`).

Where the tests of a function overlap, the order in which the code makes them is written
IF/ELSE or as a chain of `??`, never as a CASE: of a CASE whose arms overlap TLA+ leaves open which is
taken, although TLC takes the first.

### PostingRows, PostingAmounts, JournalRows
A row is its length, the few bytes that are tested, the places that hold
zero, and the places at which a bounded amount token can be read. A parser is a pair:
the refusals in the order of the code, and the fields with place and size. A
read behind the end of the row is the refusal "panic". `PostingAmounts` has the
five searches for an amount token, which differ in where they begin and in what
they do about several. `JournalRows` has the layouts of journal rows and the order in which they
are tried. Two things the code does that a reader may not expect: the opaque
token of a transaction master may cover the fixed place of the next field, and
the header fields of a residual journal row are read before its length is checked.

### JournalClassification
The whole-table part of the journal decoder: sources lead along their links to
rows with amounts (of the same transaction and date), chains of auxiliary
rows lead to each other, metadata rows are alone, witnesses explain others. The
walk is a function from rows to rows; the code's order of refusals is kept.

### PostingAdapters, AccountAdapters
A cell is its column's type and its value, Null when absent or not decoded.
The complete and the bounded adapter of a row, and the adapters of parsed rows,
end in one posting or in a reason to leave the row out. Amounts that are zero
but not canonical are postings of nothing for checks and bills and an error
for journal rows, as in the code. The account decoder has the same two ways; the bounded one
also compares the name of the envelope, the complete one does not.

### Catalogs
Rows are found by tags in page bodies, or in the records of a directory.
`Collected` is the conflict-tracking collection with its gates, `ConflictFree`
and `FirstOfKey` are what the older iterators do (only SYSTABLE's is free of
conflicts). A record is where it lies, its page and its slot in it, and the counters of a
collection are the sizes of sets of such places. An unreadable page ends an iteration as the end of the store does,
although the iterators are declared fused.

### CsvText, StreamingHash, DrecCodec, CalendarValues
The two CSV readers share their states and differ in carriage returns. The hash
is modelled with small blocks, its compression as the list of compressed
blocks. Drec records have digits of base four instead of bytes. Days are counted by the code's
arithmetic over eras of 400 years and compared with the calendar.

### PageTransform, AffineRecovery, KeySelection
A page of three sectors of eight digits of base four stands for one of
eight sectors of 512 bytes; the algorithms are written for any power of two. The
stored page is the plain one under a key; the properties ask that the plain
page, or the key, is found or nothing is. The end of the last sector (`FinalTail`, 16 bytes) is never
permuted, and the trailer of the header, which the source locates in the page as stored, is
followed to its place in the plain one; both are part of `Transform` and `Materialized`. The step of a
permutation is taken to be prime to the number of permuted places; what the library does
otherwise (`permute_sector_in_place`) is not in the repository. A candidate of
`KeySelection` is refused for the number of its pages, an overflow of that number included, for its
catalog or its columns, in the order of `attest_candidate`. `KeySelection` takes what a candidate key
shows of a file as given and decides between candidates, by their places in the order in
which they are tried.

### Reconciliation, ReportOutput
A text is a sequence of words, with the colon between the parts of a name and the dot
after a number as words of their own; `Numerals` are the words of digits alone. A report
writes number, dot and name as one text, and the reader takes off what is before the dot only if it
is a numeral, as `canonical_native_account_full_name` does. So what is heard of an account (`Heard`)
may differ from its name: the number of "A100 · Cash" stays, and an account without a number that is called
"12 · x" loses the start of its name. The comment at `trial_balance_reconciliation.rs` 418-421 calls the
result free of numbers, which holds of numerals only. `OwnReportsReadBack` says
that balances and postings stand where their accounts are heard, and that a trial balance is refused
when two of its accounts are heard alike; what is heard is the name itself
when the number is a numeral or absent and the name does not begin like a numbered one. The readers of native reports follow headings and totals as the
code does. `ReportOutput` has every refusal of a bundle, the rows of the texts, and the
database as a record of functions keyed like its tables; older layouts lack some columns.

## 3. Runs

| run | asks | bounds |
|---|---|---|
| `publication_forced` | safety of three racing publishers, two forced, one of a directory | two foreign interventions: one to trigger and one to spoil the recovery |
| `publication_ends` | liveness of two forced publishers | one intervention |
| `publication_restore` | *violated*: see findings | |
| `batch_scheduler` | safety of the pool, and that the run ends | three inputs, three workers: an overtaking, a panic and a bystander |
| `batch_trial_balance` | that the command implements `AtomicBatch`, all or nothing | two rows, two workers, one write |
| `batch_snapshot` | no torn or stale snapshot in either world of writers, bounded memory | one row, three writes in two readings of up to three chunks |
| `account_hierarchy` | soundness on all 1296 charts of four accounts, and that the walk ends | four: a cycle of two with a tail of two |
| `account_hierarchy_panic` | *violated*: see findings | three accounts |
| `ledger` | every report, cutoff, fiscal year, policy | six charts, 235 posting streams of two transactions, three days, amounts up to 3 so that totals overflow |
| `table_collection` | completeness and carriers, for every collector | two pages of one or two candidates and a page without rows, every sort of image; one Bill with up to three carriers linked in every way (258,000 inputs): a disagreement, a cycle and a chain into it, a spurious page |
| `pipeline` | completeness, balance and blockers of the ledger | a company of two accounts and a hidden one with an entry in each table; one part varied at a time: up to two rows more in one table, void and linked families, charts, tables missing, doubled or mislabelled (3,485 inputs) |
| `conversions` | one call of every function on every small input | 118,025 inputs, see below |

Deadlock is checked everywhere but in `ledger` and `conversions`: there, a
rejected ledger, an answered request and an answered call are the end of the
behaviour. The other modules say where
they may stop with an explicit stuttering action (`Settled`, `Terminated`, `Done`).

**Properties in parts.** `FailuresStayAlone` joins that only a panic aborts a
run and that its siblings finish; `CountsHideNothing` that every slot is counted
once and a surplus page is empty; `EveryRowAnswered` that every row has a disposition
or a blocker of its own kind; `BuiltLedgerHolds` that the last checks of reports
never fire on a ledger that was built; `WrittenReadsBack` the texts, digests,
records and days (`DaysCount`, which includes what a value of the disk decodes to); `PagesReadBack` that a
page which is resolved is the true one (`TruePageKept`), and that rows found
in one body lie apart and each index is placed at one root or set aside (`CatalogsRelate`);
`RowsReadOneWay` that the fields of a row lie apart (`FieldsFit`) and that one grammar takes it
(`OneGrammar`), none if it is a header that may witness for others. `BoundedRowsAgree` also says that an
accepted selection of account records misses no active one. The parts are named definitions. The type invariants are
proved and not run again.

**Bounds of `conversions`.** Rows: every length around each field's end, each tested
byte right and wrong, up to two zeroed fields and a set of five, stray amount tokens before, behind and across the true
one. Journal tables: a balanced entry of two postings and up to four other rows, of every kind
with links among them and to rows that are not there; two dates and transactions; chains of up
to four auxiliary rows, cycles included. Adapters: up to two of five columns undecoded, values
absent, of the wrong sign or not canonical; Account records with two columns out of the ordinary at a time.
Catalogs: two pages of up to two records or two candidates (with a third page for columns),
repeated, conflicting, truncated and unreadable ones; up to four pages for the older
iterators. CSV: all texts of up to five of the five kinds
of characters. Hash: three pieces of up to nine bytes with blocks of eight, so that
every padding case occurs. Days: leap and non-leap centuries, both ends of
every month, the limits of the stored range. Pages: keys of both signs whose parts take
several values, sets of four pages. Keys: three contexts of which two are adjacent, with their
pairings and every set of witnesses. Comparisons: books of up to three accounts, one of whose names begins with a number of letters, that
differ in any way, and exports with numbered headings and without. Reports: up to three rows, accounts
with a number, none, one of letters, and a name that begins like a numbered one; three
writes by two companies for two days to a new database, two to older ones, with
failures in between. Selections of up to two account rows, relations of up to five indexes over four tables,
and bodies of two rows at every distance that matters. Each bound is the smallest at which every branch of the functions is taken
and at which two readers can disagree; nothing is claimed of longer inputs.

**Findings.**
`publication_restore`: the restoring rename of a failed publication is
preceded by `!destination.exists()`; a file that appears in between is
replaced, although the function's comment says that it never deletes a path
that could have been swapped. `account_hierarchy_panic`: a chart in which a
grandparent's parent is missing makes `Ledger::new` panic instead of returning
`UnknownParentAccount`, if the account with the missing parent comes later in
identifier order.

## 4. Fairness

`EveryPublisherEnds`: every running process makes its next system call
(`WF_vars(Step(p))`); nobody is obliged to crash, and other programs are under
no obligation. `RunEnds`: threads are scheduled fairly and a processor returns or panics
(decoding is a terminating computation over a bounded buffer).
`AlwaysDecides`: one sequential call that keeps running.

## 5. Proofs

All theorems hold for every value of the constants that satisfies the named
assumption of the component's module.

* `PublicationProofs`: `IInv` adds to `TypeOK` what each label implies of the
  publisher's stage, completeness flag and backup; the properties about steps
  follow from it because who may write `dest` is decided by the label.
  Proved: `TypeCorrect`, `CompleteArtifacts`, `InputStays`, `UnforcedKeeps`,
  `NothingElseDestroyed`, `FailureRestores`.
* `BatchSchedulerProofs`: an input is at one place: not taken, in one worker's
  hands, in the channel, gathered, or lost with a panicked worker; a result on
  its way is the one its input came to. For failures (`FateInv`): an input that was
  taken and not run is still held, one that was run is on its way, and a worker ends only at
  the end of the iterator or by a panic; so an empty slot means a panic, and at the end
  an input without a result was lost by its own worker or nobody was left. Proved:
  `TypeCorrect`, `EachInputOnce`, `ResultsOrdered`, `FailuresAlone`.
* `BatchTrialBalanceProofs`: the command moves by the pool's actions, so the pool's
  invariant carries over (`PoolOfCommand`, a lemma);
  with it, `TypeCorrect`, `ReadingBounded` and `PublishedIsComplete`. The second half is
  `SnapshotIsInstant`, that a report is of one state of its file. Its
  invariant has a part for each world. Where every write is dated, an unchanged
  time means that the path still leads to the inode read and that this begins with the
  bytes read. Where times may lie but no content comes back, a chunk that was
  overwritten or cut off never has its old value again: between the readings, either
  the kept bytes are all there, and then they were the content when the first
  reading ended and nobody disturbed them, or one of them is gone for good and the second
  reading will miss it. The end is `CommandIsAtomic`, that the command implements `AtomicBatch`: a
  processor that returns a report is `Report`, because of `SnapshotIsInstant`'s invariant; the
  link is `Publish`, because of the pool's invariant and of what the command keeps of the reports that it
  gathered; writes and removals are `WriteFiles`, a foreign output is `TakeName`, and every other
  step is none. It rests on the same assumption about writers as the snapshots do.
* `AccountHierarchyProofs`: the visited set is closed under parents up to the
  cursor, and every account passed so far has a path to a root, in the form
  that no closed set of accounts contains it. Proved: `TypeCorrect`,
  `AcceptanceIsSound`, `RefusalIsSound`.
* `TableCollectionProofs`: `WalkInv` says of the path of a walk that any set of
  carriers closed under links that meets the path contains where the walk is
  (in place of the order of the path), of the verdicts that an accepted
  carrier is in no stuck set and a refused one in some, and that no
  carrier is forgotten. `CountInv` ties the counters to the slots of the inputs,
  and zero counters to empty sets (scans are finite by `ScansAssumption`). The outcomes of a slot
  are disjoint kinds, so the sizes of their sets add up to the number of slots.
  Proved: `TypeCorrect`, `VerdictsGrounded`, `NothingLost`, `CountsAreWhole`.
* `LedgerProofs` begins with what sums are: `MapThenSumSet` takes the elements of a finite set in
  any order, so that a sum splits over disjoint sets, over the keys of its elements and over the
  values that are renamed one to one. An induction over the subsets of a finite set is done
  as a search for the smallest one without the property (well-founded induction on a set, which needs
  no operator as a parameter). The invariant `Evaluated` says that a report is what its
  request evaluates to over the ledger as it is; what is left are facts about `Evaluate`. A
  built ledger has no fault, because a stream with a fault has a first one; every report asks
  the General Ledger first; the checks after the sums never fire, because an account's roll-forward
  and the grouping by sections move amounts and lose none; a posting dated after the
  cutoff is in no sum that is compared or given out. Proved: `BuiltIsSound` (`TypeOK`),
  `LastChecksAreIdle`, `BuiltLedgerStands`, `StatementsReconcile`, `HistoryStays`,
  `FailClosed`, `NothingWraps`: every property of the run `ledger`.
* `PipelineProofs`: `Sound` says what is known of the call so far, in five parts. `Answered`:
  the dispositions are those of rows of the tables done, and no row is without one or
  a blocker. `CompleteSoFar`, `Charted`: without a blocker, the tables done are complete and the chart
  is accounted for. `Settled`: without a blocker, each table done was proven in one reading
  (what one of its decoders sees; Check has two) and disposed of row by row. `BuiltFrom`: a
  ledger is made of these. No step takes a blocker away, so what was known
  when a table was done is known when the ledger is built. Each posting of the ledger is of
  exactly one live row, so that the sums which the validators compared are, renamed, the sums over
  the ledger; the facts about sums are cited through an instance of `LedgerProofs`. Proved:
  `LedgerFromCompleteTables`, `RowsAnswered`, `NothingLeftOut`, `MastersStayBalanced`,
  `CheckHasOneDecoder`: every property of the run `pipeline`.
* `ConversionsProofs`: `Asked` says that a call that was made was on one of its inputs and that the
  output is its answer, so that a property of calls becomes one of functions. A chain of tests
  passes when each of its tests does; what the tests of a parser say of the length of a row
  then bounds the place of every field that it takes. The grammars of a journal row exclude each other
  by its family, third byte and class. For keys: the places at which a ledger balances are, in the reversed
  order, the mirrored ones, so there is one of them in both or in neither, and it is the same
  key. For the adapters: both forms of an adapter ask for the same cells by name, and `Says` is what
  it answers when each cell that it looked at is `Good`. A cell of the bounded row is not there
  or is that of the complete row (`CellsAgree`), so an answer to the one that is no refusal is the answer
  to the other (`LinesAgree`); and a posting is made of its cells alone, which hold what the parser of the
  table read (`CellsBook`, `ParsersBook`, `PostingsAgree`). Both decoders of an account make
  the same tests in one order, of which only the seventh sets a record aside; a test that
  passes of a value decoded so far passes of the whole (`AccountsAgree`).
  For the catalogs: a collection is refused if, and only if, some page is unsound by itself or two of the
  entries of all its pages contradict each other (`CollectedWhole`; the least page in error is the
  one where the second of the two comes), which does not depend on the order; and when the pages are
  reversed, each record keeps its slot and the places correspond one to one, so all counters are the
  same (`CollectionTurned`). The readings of a sound page have the same tally, so a gate that finds no
  slot of a kind in the first readings speaks for all of them (`RequiredRows`).
  Proved: `OneReading`, `OneKey`, `OneAnswer`, `OneCatalog`.

**Only model-checked.** Liveness under fairness (`EveryPublisherEnds`, `RunEnds`,
`AlwaysDecides`) is out of the prover's reach. So are, of `Conversions`, the properties of functions that
recur over a text, a list of digits or a page of any length (`AmountsAsWritten`, `SetAsideIsGrounded`,
`WrittenReadsBack`, `PagesReadBack`, `BooksReconcile`, `OwnReportsReadBack`,
`ReportsStoredAreLast`): they need an induction over sequences in which the prover would have to
instantiate a property, or arithmetic modulo a power of two.

## 6. Plan

What is left, most important first:

1. The framing of rows below the parsers: `enterprise_table_scan`, `row_scan`, the
   page trace and the row-schema attestation (`materialized_page_trace.rs`,
   `materialized_row_schema_attestation.rs`), which decide which bytes a parser is given; then
   `schema_adapter.rs`, `lineitem.rs`, `transaction_header.rs`, `tagged_field.rs`.
2. A theorem about the books that two reports are compared for (`BooksReconcile`), which are sums over
   sections, with the lemmas about sums of `LedgerProofs`.

## 7. Not modelled

* Bytes beyond those a decision depends on: the layout of pages and rows is
  modelled at the places the code tests. SQL text, JSON layout, column widths and display order of
  the text reports are left out.
* The compression function of SHA-256 and collisions of the hash: a digest is
  the list of compressed blocks in `StreamingHash`, and stands for its content elsewhere.
* Page tracing, row-schema attestation, the census of physical carriers and the
  scans that find row images: see the plan.
* Statistics and the research probes (feature-gated), the Python bindings and
  the re-exports of the library: they keep no state and decide nothing about a report.
* The external page store (`opensqlany`) is taken as the source of pages; a page may be
  unreadable.
