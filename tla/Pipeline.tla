-------------------------------- MODULE Pipeline --------------------------------
(****************************************************************************)
(* build_enterprise24_accounting_pipeline_with_general_journal_header_...   *)
(* of enterprise24_accounting_pipeline.rs: collected tables become a ledger *)
(* or a list of blockers.  Every part of the call notes its blockers and    *)
(* goes on; only at the end does any blocker keep the ledger back.          *)
(*                                                                          *)
(* A row is what its decoder reads from it, an observation of kind          *)
(*   "posting"  a nonzero amount,          "zero"  the canonical zero,      *)
(*   "neutral"  a source, link, template or no-post row,                    *)
(*   "failed"   anything that does not decode,                              *)
(* with its target (line), master (transaction), date, account and cents.   *)
(* For Bill and Journal rows, date stands for the date with the view type;  *)
(* there it is Null if the row parses but these mean nothing.               *)
(****************************************************************************)
EXTENDS Integers, Sequences, FiniteSetsExt, SequencesExt

CONSTANTS
    Null,
    Inputs,      \* what the call may be given
    MaxAmount    \* i64::MAX

Policies == {"Account", "BillPayment", "Bill", "Check", "Deposit", "Journal"}
PostingTables == Policies \ {"Account"}
NoStorage == {"Journal"}   \* its policy attests no row layout
Kinds == {"posting", "zero", "neutral", "failed"}

IsObservation(o) == o.kind \in Kinds /\ o.cents \in Int

\* A row of a posting table.  A check line is an opaque zero only if the
\* physical decoder rejects it; a proven header of a deposit has no amount.
IsRow(t, row) ==
    IF t = "Check"
    THEN row.form = "line" =>
            /\ IsObservation(row.physical) /\ IsObservation(row.prefix)
            /\ row.opaqueZero => row.physical.kind = "failed"
    ELSE /\ IsObservation(row)
         /\ t = "Deposit" /\ row.role \in {"header70", "header71"} => row.kind # "posting"

\* Tables and rows are given as slices.
ASSUME InputsAssumption ==
    /\ MaxAmount \in Nat
    /\ \A i \in Inputs :
          /\ i.tables \in Seq(Range(i.tables)) /\ i.accounts.rows \in Seq(Range(i.accounts.rows))
          /\ \A row \in Range(i.accounts.rows) :
                row.state \in {"unparsed", "failed", "excluded", "selected"}
          /\ \A table \in Range(i.tables) :
                /\ table.rows \in Seq(Range(table.rows))
                /\ table.policy \in PostingTables =>
                      \A row \in Range(table.rows) : IsRow(table.policy, row)

\* What a loop over s pushes that takes the elements at the positions K.
Kept(s, K) ==
    LET At(n) == CHOOSE k \in K : Cardinality({j \in K : j <= k}) = n
    IN [n \in 1..Cardinality(K) |-> s[At(n)]]

VARIABLES
    input,         \* of this call
    pc,
    next,          \* the posting table in hand
    covered,       \* diagnostics.tables: the coverage of each
    blockers,
    identity,      \* record number of an account -> list identity
    accounts,      \* normalized accounts
    dispositions,  \* of posting rows, in order
    candidates,    \* diagnostics.posting_candidates
    ledger

vars == <<input, pc, next, covered, blockers, identity, accounts, dispositions, candidates, ledger>>

Init ==
    /\ input \in Inputs
    /\ pc = "tables" /\ next = 1
    /\ covered = <<>> /\ blockers = {} /\ identity = <<>>
    /\ accounts = <<>> /\ dispositions = <<>> /\ candidates = 0
    /\ ledger = Null

--------------------------------------------------------------------------------
(* Table coverage *)

\* add_table_coverage, of the account table and then of each posting table.
AllTables == <<input.accounts>> \o input.tables
Mismatched == {i \in DOMAIN AllTables : AllTables[i].policy # AllTables[i].table}
FirstOf(i) ==
    \A j \in (DOMAIN AllTables \ Mismatched) \cap 1..(i - 1) : AllTables[j].table # AllTables[i].table
Counted == {i \in DOMAIN AllTables \ Mismatched : FirstOf(i)}

Coverage ==
    [t \in {AllTables[i].table : i \in Counted} |->
        AllTables[CHOOSE i \in Counted : AllTables[i].table = t].complete]

\* Mutant: the coverage of a table is not asked for.
TableBlockersUnasked ==
    {<<"UnsupportedTable", t>> : t \in Policies \ DOMAIN Coverage}
    \cup {<<"SchemaStorageMismatch", t>> : t \in (input.mismatched \cap DOMAIN Coverage) \ NoStorage}

TableBlockers ==
    {<<"UnsupportedTable", t>> : t \in Policies \ DOMAIN Coverage}
    \cup {<<"IncompleteTableCoverage", t>> : t \in {t \in DOMAIN Coverage \cap Policies : ~Coverage[t]}}
    \cup {<<"SchemaStorageMismatch", t>> : t \in (input.mismatched \cap DOMAIN Coverage) \ NoStorage}

CheckTables ==
    /\ pc = "tables"
    /\ covered' = Coverage
    /\ blockers' =
         (IF input.manifest THEN {} ELSE {<<"SchemaManifestValidationFailed", Null>>})
         \cup {<<"TablePolicyCoverageMismatch", AllTables[i].policy>> : i \in Mismatched}
         \cup {<<"DuplicateTableCoverage", AllTables[i].table>> :
                 i \in DOMAIN AllTables \ (Mismatched \cup Counted)}
         \cup TableBlockers
    /\ pc' = "identities"
    /\ UNCHANGED <<input, next, identity, accounts, dispositions, candidates, ledger>>

\* The account schema is missing: the only early return.
NoAccountSchema ==
    /\ pc = "identities" /\ "Account" \notin input.schemas
    /\ blockers' = blockers \cup {<<"IncompleteTableCoverage", "Account">>}
    /\ pc' = "done"
    /\ UNCHANGED <<input, next, covered, identity, accounts, dispositions, candidates, ledger>>

--------------------------------------------------------------------------------
(* Accounts.  listId is Null if it is not a valid identity; an account row   *)
(* is "unparsed", "failed" (its schema row contradicts it), "excluded"       *)
(* (hidden by its life cycle) or "selected".                                 *)

AccountRows == input.accounts.rows
Parsed == {k \in DOMAIN AccountRows : AccountRows[k].state # "unparsed"}
Identified == {k \in Parsed : AccountRows[k].listId # Null}
Earlier(k) == {j \in Identified : j < k /\ AccountRows[j].number = AccountRows[k].number}
Numbers == {AccountRows[k].number : k \in Identified}

MapIdentities ==
    /\ pc = "identities" /\ "Account" \in input.schemas
    /\ identity' =
         [n \in Numbers |-> AccountRows[Min({k \in Identified : AccountRows[k].number = n})].listId]
    /\ blockers' = blockers
         \cup {<<"AccountAdaptationFailed", "Account">> : k \in DOMAIN AccountRows \ Identified}
         \cup {<<"DuplicateAccountRecordNumber", "Account">> :
                 k \in {k \in Identified : Earlier(k) # {}}}
    /\ pc' = "accounts"
    /\ UNCHANGED <<input, next, covered, accounts, dispositions, candidates, ledger>>

\* decode_schema_account_row_partial refuses a selected account for its
\* identity, or for a parent that no row identifies.
AccountFails(k) ==
    LET row == AccountRows[k] IN
    \/ row.state = "failed"
    \/ /\ row.state = "selected"
       /\ row.listId = Null \/ row.parent \notin DOMAIN identity \cup {Null}

Chosen == {k \in Parsed : AccountRows[k].state = "selected" /\ ~AccountFails(k)}

Root == "root"

NormalizeAccounts ==
    /\ pc = "accounts"
    /\ LET chosen == Kept(AccountRows, Chosen)
       IN accounts' =
            [i \in DOMAIN chosen |->
                [id |-> chosen[i].listId,
                 parent |-> IF chosen[i].parent = Null THEN Root ELSE identity[chosen[i].parent]]]
    /\ blockers' = blockers
         \cup {<<"AccountAdaptationFailed", "Account">> : k \in {k \in Parsed : AccountFails(k)}}
    /\ pc' = "postings"
    /\ UNCHANGED <<input, next, covered, identity, dispositions, candidates, ledger>>

--------------------------------------------------------------------------------
(* Posting tables *)

Table == input.tables[next]
Rows == Table.rows

\* A disposition of a row, or the blocker instead of one.
Excluded(k) == [row |-> <<Table.policy, k>>]
Fails(kind) == [blocker |-> kind]
IsPosted(d) == "posting" \in DOMAIN d

\* normalized_disposition of the observation o of row k; i64::MIN has no
\* absolute value.
Normalized(k, o) ==
    IF o.kind = "failed" THEN Fails("PostingAdaptationFailed")
    ELSE IF o.kind = "neutral" THEN Excluded(k)
    ELSE IF o.account \notin DOMAIN identity THEN Fails("PostingAccountIdentityUnavailable")
    ELSE IF o.kind = "zero" THEN Excluded(k)
    ELSE IF o.cents = -MaxAmount - 1 THEN Fails("PostingAdaptationFailed")
    ELSE [row |-> <<Table.policy, k>>,
          posting |-> [row |-> <<Table.policy, k>>, id |-> <<Table.policy, o.target>>,
                       txn |-> o.master, account |-> identity[o.account],
                       date |-> o.date, amount |-> o.cents]]

Observed(kinds) == {k \in DOMAIN Rows : Rows[k].kind \in kinds}
Masters(S) == {Rows[k].master : k \in S}
OfMaster(S, m) == {k \in S : Rows[k].master = m}
Net(S) == MapThenSumSet(LAMBDA k : Rows[k].cents, S)
Balanced(S) == \A m \in Masters(S) : Net(OfMaster(S, m)) = 0
DistinctTargets(S) == \A j, k \in S : Rows[j].target = Rows[k].target => j = k

InHand(t) == pc = "postings" /\ next \in DOMAIN input.tables /\ Table.policy = t

\* The table ends with a blocker and without a disposition.
Stop(kind) ==
    /\ blockers' = blockers \cup {<<kind, Table.policy>>}
    /\ next' = next + 1
    /\ UNCHANGED <<input, pc, covered, identity, accounts, dispositions, candidates, ledger>>

\* The rows of the table come to the results r; `noted` are the table's own
\* blockers.
Dispose(r, noted) ==
    /\ dispositions' = dispositions \o Kept(r, {k \in DOMAIN r : "row" \in DOMAIN r[k]})
    /\ candidates' = candidates + Len(r)
    /\ blockers' = blockers
         \cup {<<kind, Table.policy>> : kind \in noted}
         \cup {<<r[k].blocker, Table.policy>> : k \in {k \in DOMAIN r : "blocker" \in DOMAIN r[k]}}
    /\ next' = next + 1
    /\ UNCHANGED <<input, pc, covered, identity, accounts, ledger>>

SkipTable ==
    /\ pc = "postings" /\ next \in DOMAIN input.tables /\ Table.policy \notin PostingTables
    /\ next' = next + 1
    /\ UNCHANGED <<input, pc, covered, blockers, identity, accounts, dispositions, candidates, ledger>>

--------------------------------------------------------------------------------
(* General Journal: its postings are monetary rows with their life cycle;    *)
(* the grammar of the other rows is that of the table's own classifier,      *)
(* which lets a posting and a zero have one target.                          *)

JournalClassified ==
    /\ Observed({"failed"}) = {}
    /\ \A j, k \in DOMAIN Rows :
          j # k /\ Rows[j].target = Rows[k].target =>
              {Rows[j].kind, Rows[k].kind} = {"posting", "zero"}
    /\ \A j, k \in Observed({"posting"}) : Rows[j].master = Rows[k].master => Rows[j].off = Rows[k].off

NormalizeJournal ==
    /\ InHand("Journal")
    /\ IF ~JournalClassified THEN Stop("PostingAdaptationFailed")
       ELSE Dispose(
              [k \in DOMAIN Rows |->
                 IF Rows[k].kind # "posting" \/ Rows[k].off THEN Excluded(k)
                 ELSE IF Rows[k].date = Null \/ Rows[k].account \notin DOMAIN identity
                 THEN Fails("PostingAdaptationFailed")
                 ELSE Normalized(k, Rows[k])],
              IF Balanced(Observed({"posting"})) THEN {} ELSE {"UnbalancedPostingMasters"})

--------------------------------------------------------------------------------
(* Check: a row is a line with the observations of two decoders, a void      *)
(* companion, or a compact source link to a line.                            *)

Lines == {k \in DOMAIN Rows : Rows[k].form = "line"}
Companions == {k \in DOMAIN Rows : Rows[k].form = "companion"}
Links == {k \in DOMAIN Rows : Rows[k].form = "link"}

\* adapt_check_observation: what the physical decoder rejects for its amount
\* alone may be taken as a zero of the schema prefix.
Materialized(k) ==
    IF Rows[k].opaqueZero /\ Rows[k].prefix.kind = "zero" THEN Rows[k].prefix ELSE Rows[k].physical

\* prepare_check_dispositions, with the observation O[k] of each line k.
CheckHolds(O) ==
    LET Money(kind, m) == {k \in Lines : O[k].kind = kind /\ O[k].master = m}
        Target(k) == IF k \in Lines THEN O[k].target ELSE Rows[k].target
        Monetary(m) == Money("posting", m) \cup Money("zero", m)
        LinkHolds(k) ==
            LET link == Rows[k] IN
            /\ link.valid
            /\ \E l \in Money("posting", link.master) :
                  /\ O[l].target = link.next /\ O[l].date = link.date
                  /\ O[l].account # link.sibling /\ O[l].account \in DOMAIN identity
            /\ link.sibling \in DOMAIN identity
            /\ \A j \in Links : Rows[j].next = link.next => j = k
            /\ \A l \in Monetary(link.master) : O[l].date = link.date
            /\ \E l \in Monetary(link.master) : O[l].account = link.sibling
    IN /\ \A k \in Lines : O[k].kind # "failed"
       /\ \A j, k \in DOMAIN Rows : Target(j) = Target(k) => j = k
       /\ \A k \in Links : LinkHolds(k)
       /\ \A m \in {O[k].master : k \in Lines} :
             MapThenSumSet(LAMBDA k : O[k].cents, Money("posting", m)) = 0
       /\ \A k \in Companions :
             LET m == Rows[k].master IN
             /\ Rows[k].target # m
             /\ \A j \in Companions : Rows[j].master = m => j = k
             /\ Cardinality(Money("zero", m)) = 2 /\ Money("posting", m) = {}

CheckResults(O) ==
    [k \in DOMAIN Rows |-> IF k \in Lines THEN Normalized(k, O[k]) ELSE Excluded(k)]

Accepts(O) ==
    /\ CheckHolds(O)
    /\ \A k \in DOMAIN Rows : "row" \in DOMAIN CheckResults(O)[k]

\* Mutant: each line falls back on the prefix by itself.
StrategiesPerLine ==
    <<[k \in Lines |-> IF Materialized(k).kind = "failed" THEN Rows[k].prefix ELSE Materialized(k)]>>

\* The two decoders, in this order; each is asked for all lines.
Strategies == <<[k \in Lines |-> Materialized(k)], [k \in Lines |-> Rows[k].prefix]>>

\* Mutant: a rejected table leaves no blocker.
NormalizeCheckSilent ==
    /\ InHand("Check")
    /\ LET good == {s \in DOMAIN Strategies : Accepts(Strategies[s])} IN
       IF "Check" \in input.schemas /\ good # {}
       THEN Dispose(CheckResults(Strategies[Min(good)]), {})
       ELSE Dispose(<<>>, {})

\* A rejected table blocks once for itself and once for each row.
NormalizeCheck ==
    /\ InHand("Check")
    /\ LET good == {s \in DOMAIN Strategies : Accepts(Strategies[s])} IN
       IF "Check" \in input.schemas /\ good # {}
       THEN Dispose(CheckResults(Strategies[Min(good)]), {})
       ELSE Dispose([k \in DOMAIN Rows |-> Fails("PostingAdaptationFailed")],
                    {"PostingStrategyRejected"})

--------------------------------------------------------------------------------
(* Bill: noPost and memorized are Null if the row has no such column value.  *)

\* Mutant: the life cycle is each line's own.
BillLifecycleHoldsByLine ==
    Rows # <<>> =>
        /\ "Bill" \in input.schemas
        /\ \A k \in DOMAIN Rows :
              Rows[k].kind # "failed" /\ Rows[k].noPost # Null /\ Rows[k].memorized # Null

\* bill_lifecycle_states
BillLifecycleHolds ==
    Rows # <<>> =>
        /\ "Bill" \in input.schemas
        /\ \A k \in DOMAIN Rows :
              Rows[k].kind # "failed" /\ Rows[k].noPost # Null /\ Rows[k].memorized # Null
        /\ \A j, k \in DOMAIN Rows : Rows[j].master = Rows[k].master =>
              Rows[j].noPost = Rows[k].noPost /\ Rows[j].memorized = Rows[k].memorized

\* validate_materialized_bill_zero_families
BillZerosHold ==
    /\ DistinctTargets(DOMAIN Rows)
    /\ \A z \in Observed({"zero"}) :
          LET family == OfMaster(DOMAIN Rows, Rows[z].master) IN
          /\ Rows[z].date # Null
          /\ \A k \in family : Rows[k].date = Rows[z].date
          /\ Net(family \cap Observed({"posting"})) = 0

\* An unknown account is an adaptation failure here, also of a row that the
\* life cycle excludes.
NormalizeBill ==
    /\ InHand("Bill")
    /\ IF ~BillLifecycleHolds \/ ~BillZerosHold THEN Stop("PostingStrategyRejected")
       ELSE Dispose(
              [k \in DOMAIN Rows |->
                 IF Rows[k].date = Null \/ Rows[k].account \notin DOMAIN identity
                 THEN Fails("PostingAdaptationFailed")
                 ELSE IF Rows[k].noPost \/ Rows[k].memorized THEN Excluded(k)
                 ELSE Normalized(k, Rows[k])],
              IF Balanced(Observed({"posting"})) THEN {} ELSE {"UnbalancedPostingMasters"})

--------------------------------------------------------------------------------
(* Bill payment: a transaction is all zeros or has none. *)

NormalizeBillPayment ==
    /\ InHand("BillPayment")
    /\ IF "BillPayment" \notin input.schemas THEN Stop("IncompleteTableCoverage")
       ELSE IF \/ Observed({"failed"}) # {}
               \/ ~DistinctTargets(Observed({"posting", "zero"}))
               \/ Masters(Observed({"zero"})) \cap Masters(Observed({"posting"})) # {}
       THEN Stop("PostingStrategyRejected")
       ELSE Dispose([k \in DOMAIN Rows |-> Normalized(k, Rows[k])], {})

--------------------------------------------------------------------------------
(* Deposit: role tells the physical form of a row, which two kinds of header *)
(* and the rows that belong to them have; "badHeader" has the envelope of a  *)
(* header and other fields.                                                  *)

Headers == {k \in DOMAIN Rows : Rows[k].role \in {"header70", "header71", "badHeader"}}
Group(k) == OfMaster(DOMAIN Rows, Rows[k].master)
RoleIn(S, role) == {k \in S : Rows[k].role = role}

HeaderHolds(h) ==
    LET siblings == Group(h) \ {h} IN
    \/ /\ Rows[h].role = "header70"
       /\ siblings \subseteq Observed({"posting"}) /\ Cardinality(siblings) = 3
       /\ Cardinality(RoleIn(siblings, "linked")) = 1
       /\ Cardinality(RoleIn(siblings, "counterpart")) = 2
       /\ Net(siblings) = 0
    \/ /\ Rows[h].role = "header71"
       /\ Cardinality(siblings) = 1
       /\ siblings \subseteq Observed({"neutral"}) \cap RoleIn(siblings, "source")

\* deposit_nonposting_header_record_ids succeeds.
HeadersHold ==
    /\ \A k \in DOMAIN Rows : Rows[k].target # Null /\ Rows[k].master # Null
    /\ DistinctTargets(DOMAIN Rows)
    /\ \A h \in Headers : Group(h) \cap Headers = {h} /\ HeaderHolds(h)

\* validate_deposit_zero_families, of the rows that are no headers.
DepositZerosHold ==
    /\ Observed({"failed"}) \subseteq Headers
    /\ \A z \in Observed({"zero"}) \ Headers :
          LET family == OfMaster(Observed({"posting", "zero"}) \ Headers, Rows[z].master) IN
          /\ \A k \in family : Rows[k].date = Rows[z].date
          /\ Net(family) = 0

NormalizeDeposit ==
    /\ InHand("Deposit")
    /\ IF "Deposit" \notin input.schemas THEN Stop("IncompleteTableCoverage")
       ELSE IF ~HeadersHold THEN Stop("PostingAdaptationFailed")
       ELSE IF ~DepositZerosHold THEN Stop("PostingStrategyRejected")
       ELSE IF ~Balanced(Observed({"posting"}) \ Headers) THEN Stop("UnbalancedPostingMasters")
       ELSE Dispose([k \in DOMAIN Rows |->
                       IF k \in Headers THEN Excluded(k) ELSE Normalized(k, Rows[k])], {})

--------------------------------------------------------------------------------
(* The end *)

AtEnd == pc = "postings" /\ next = Len(input.tables) + 1

Postings == Kept(dispositions, {d \in DOMAIN dispositions : IsPosted(dispositions[d])})
LedgerPostings == [i \in DOMAIN Postings |-> Postings[i].posting]

Built == INSTANCE Ledger WITH
    Charts <- {}, PostingStreams <- {}, Dates <- {},
    chart <- accounts, postings <- LedgerPostings, completeness <- "Complete", report <- Null

Refuse ==
    /\ AtEnd /\ blockers # {}
    /\ pc' = "done"
    /\ UNCHANGED <<input, next, covered, blockers, identity, accounts, dispositions, candidates, ledger>>

\* DecodedPostings::new and LedgerAdapter::build.
ContractHolds ==
    /\ Len(dispositions) = candidates
    /\ \A i, j \in DOMAIN dispositions : dispositions[i].row = dispositions[j].row => i = j
    /\ Built!NewError = "none"

Build ==
    /\ AtEnd /\ blockers = {}
    /\ IF ContractHolds
       THEN /\ ledger' = [accounts |-> accounts, postings |-> LedgerPostings]
            /\ UNCHANGED blockers
       ELSE /\ blockers' = {<<"LedgerContractRejected", Null>>}
            /\ UNCHANGED ledger
    /\ pc' = "done"
    /\ UNCHANGED <<input, next, covered, identity, accounts, dispositions, candidates>>

Done == pc = "done" /\ UNCHANGED vars

Next ==
    \/ CheckTables \/ NoAccountSchema \/ MapIdentities \/ NormalizeAccounts
    \/ SkipTable \/ NormalizeJournal \/ NormalizeCheck \/ NormalizeBill
    \/ NormalizeBillPayment \/ NormalizeDeposit
    \/ Refuse \/ Build \/ Done

Spec == Init /\ [][Next]_vars

--------------------------------------------------------------------------------
InputRows(i) == DOMAIN input.tables[i].rows
IsDisposed(i, k) ==
    \E d \in DOMAIN dispositions : dispositions[d].row = <<input.tables[i].policy, k>>

\* A posting comes from a row of a posting table, to an identified account; an
\* identity is that of a row; nothing has two answers.
TypeOK ==
    /\ pc \in {"tables", "identities", "accounts", "postings", "done"}
    /\ next \in 1..(Len(input.tables) + 1)
    /\ DOMAIN identity = {} \/ DOMAIN identity = Numbers
    /\ candidates \in Nat /\ Len(dispositions) <= candidates
    /\ \A d \in DOMAIN dispositions :
          /\ dispositions[d].row[1] \in PostingTables
          /\ IsPosted(dispositions[d]) =>
                \E n \in Numbers : dispositions[d].posting.account = identity[n]
    /\ ledger # Null => pc = "done"

Live(t, row) ==
    /\ row.kind = "posting"
    /\ t = "Journal" => ~row.off
    /\ t = "Bill" => ~row.noPost /\ ~row.memorized

\* Each of the six tables was given once and complete.
TablesComplete ==
    \A t \in Policies :
        \E i \in DOMAIN AllTables :
            /\ AllTables[i].policy = t /\ AllTables[i].table = t /\ AllTables[i].complete
            /\ \A j \in DOMAIN AllTables \ {i} : AllTables[j].policy # t

\* Fail closed: if there is a ledger, each of the six tables was given once and
\* complete, every account row is in it unless its life cycle excludes it, and
\* every row of every posting table was disposed of once, with a posting of its
\* amount if and only if it is a live one.
LedgerLeavesNothingOut ==
    ledger # Null =>
        /\ TablesComplete
        /\ \A k \in DOMAIN AccountRows :
              \/ AccountRows[k].state = "excluded"
              \/ \E a \in DOMAIN ledger.accounts : ledger.accounts[a].id = AccountRows[k].listId
        /\ \A i \in DOMAIN input.tables : \A k \in InputRows(i) :
              LET t == input.tables[i].policy
                  row == input.tables[i].rows[k]
                  mine == {d \in DOMAIN dispositions : dispositions[d].row = <<t, k>>}
              IN t \in PostingTables =>
                    \E d \in mine :
                        /\ mine = {d}
                        /\ t # "Check" =>
                              /\ Live(t, row) <=> IsPosted(dispositions[d])
                              /\ Live(t, row) =>
                                    LET p == dispositions[d].posting IN
                                    p.amount = row.cents /\ p.txn = row.master

\* Within each table that proves its transactions balanced, those of the ledger
\* are: what the life cycle, the headers and the links exclude was no side of
\* an entry.
MastersBalance ==
    ledger # Null =>
        \A t \in {"Journal", "Bill", "Check", "Deposit"} :
            LET mine == {k \in DOMAIN ledger.postings : ledger.postings[k].row[1] = t} IN
            \A m \in {ledger.postings[k].txn : k \in mine} :
                MapThenSumSet(LAMBDA k : ledger.postings[k].amount,
                              {k \in mine : ledger.postings[k].txn = m}) = 0

\* No row is passed over in silence: when a table is done, a row of it without
\* a disposition has a blocker with the table's name, so that the counting
\* contract at the end is never what keeps a gap out of a ledger.
GapsAreNamed ==
    /\ \A i \in 1..(next - 1) : \A k \in InputRows(i) :
          LET t == input.tables[i].policy IN
          t \in PostingTables => IsDisposed(i, k) \/ \E b \in blockers : b[2] = t
    /\ blockers = {} => Len(dispositions) = candidates

\* The postings of the Check table all come from one of its two decoders: no
\* mixture that neither of them saw as a balanced whole.
OneCheckDecoder ==
    ledger # Null =>
        \A i \in DOMAIN input.tables : input.tables[i].policy = "Check" =>
            LET rows == input.tables[i].rows
                Agrees(k, o) ==
                    IF o.kind = "posting"
                    THEN \E p \in DOMAIN ledger.postings :
                            /\ ledger.postings[p].row = <<"Check", k>>
                            /\ ledger.postings[p].amount = o.cents
                            /\ ledger.postings[p].txn = o.master
                    ELSE \A p \in DOMAIN ledger.postings : ledger.postings[p].row # <<"Check", k>>
                lines == {k \in DOMAIN rows : rows[k].form = "line"}
            IN \/ \A k \in lines : rows[k].prefix.kind # "failed" /\ Agrees(k, rows[k].prefix)
               \/ \A k \in lines :
                    /\ Agrees(k, rows[k].physical)
                    /\ rows[k].physical.kind = "failed" => rows[k].opaqueZero

\* Every row has its one answer, under its own account and table, or a name for
\* the want of it.
EveryRowAnswered == TypeOK /\ GapsAreNamed
================================================================================
