------------------------------ MODULE ReportOutput ------------------------------
(****************************************************************************)
(* The writers of reports: what they refuse, the names they give accounts,   *)
(* the rows of their texts, and a database that several reports of several   *)
(* companies are written to.  A cell that is empty is Null; a column of the  *)
(* database that does not exist yet holds Null in every row.  Names, numbers *)
(* and labels of accounts are texts, as in Reconciliation.                   *)
(****************************************************************************)
EXTENDS Integers, FiniteSets, SequencesExt

CONSTANTS Null, MaxCents

\* The first element that is refused decides.
FirstRefusal(seq, refusal(_)) ==
    LET refused == {i \in DOMAIN seq : refusal(i) # Null}
    IN IF refused = {} THEN Null ELSE refusal(CHOOSE i \in refused : \A j \in refused : i <= j)
Or(first, second) == IF first # Null THEN first ELSE second

MetadataRefusal(m) ==
    IF "" \in {m.entity, m.file} THEN "EmptyMetadata"
    ELSE IF m.policy # Null /\ (m.policy.source # "explicit" \/ m.policy.name = <<>>)
    THEN "InvalidTrialBalancePolicyMetadata" ELSE Null

--------------------------------------------------------------------------------
(* What a report has to be.                                                  *)

Total(seq, cents(_)) == FoldLeft(LAMBDA sum, x : sum + cents(x), 0, seq)
Zeroed(c) == IF c = Null THEN 0 ELSE c

\* A balance stands on its own side; a balance of zero on neither.
Sided(row) ==
    <<row.debit, row.credit>> =
        <<IF row.signed > 0 THEN row.signed ELSE Null, IF row.signed < 0 THEN -row.signed ELSE Null>>

TrialBalanceRefusal(report) ==
    LET rows == report.rows
        row(i) == IF \E j \in 1..(i - 1) : rows[j].account.id = rows[i].account.id THEN "DuplicateAccountId"
                  ELSE IF ~Sided(rows[i]) THEN "InconsistentTrialBalanceRow" ELSE Null
    IN Or(FirstRefusal(rows, row),
          IF Total(rows, LAMBDA r : Zeroed(r.debit)) # Total(rows, LAMBDA r : Zeroed(r.credit))
          THEN "UnbalancedTrialBalance" ELSE Null)

GeneralLedgerRefusal(report) ==
    LET entries == report.entries
        p(i) == entries[i].posting
        entry(i) ==
            IF \E j \in 1..(i - 1) : p(j).id = p(i).id THEN "DuplicatePostingId"
            ELSE IF \E j \in 1..(i - 1) : p(j).source = p(i).source THEN "DuplicateSourceRow"
            ELSE IF p(i).account # entries[i].account.id THEN "PostingAccountMismatch"
            ELSE IF ~p(i).current THEN "NonCurrentPosting"
            ELSE IF p(i).cents = 0 THEN "ZeroPosting"
            ELSE IF p(i).cents = -MaxCents - 1 THEN "NonDisplayablePostingAmount"
            ELSE IF p(i).day > report.day THEN "PostingAfterAsOf" ELSE Null
        of(t) == SelectSeq(entries, LAMBDA e : e.posting.transaction = t)
    IN Or(FirstRefusal(entries, entry),
          IF \E i \in DOMAIN entries : Total(of(p(i).transaction), LAMBDA e : e.posting.cents) # 0
          THEN "UnbalancedTransaction" ELSE Null)

\* The accounts a bundle of the two reports names, in the order of its rows.
AccountsOf(bundle) ==
    (IF bundle.balance = Null THEN <<>> ELSE [i \in DOMAIN bundle.balance.rows |-> bundle.balance.rows[i].account])
    \o (IF bundle.ledger = Null THEN <<>>
        ELSE [i \in DOMAIN bundle.ledger.entries |-> bundle.ledger.entries[i].account])
Conflicting(accounts) == \E i, j \in DOMAIN accounts : accounts[i].id = accounts[j].id /\ accounts[i] # accounts[j]

BalanceIn(report, id) == Total(SelectSeq(report.rows, LAMBDA r : r.account.id = id), LAMBDA r : r.signed)
PostedIn(report, id) == Total(SelectSeq(report.entries, LAMBDA e : e.account.id = id), LAMBDA e : e.posting.cents)

BundleRefusal(bundle) ==
    LET both == Null \notin {bundle.balance, bundle.ledger}
        ids == {AccountsOf(bundle)[i].id : i \in DOMAIN AccountsOf(bundle)}
    IN Or(IF {bundle.balance, bundle.ledger} = {Null} THEN "EmptyBundle" ELSE Null,
       Or(IF bundle.balance = Null THEN Null ELSE TrialBalanceRefusal(bundle.balance),
       Or(IF bundle.ledger = Null THEN Null ELSE GeneralLedgerRefusal(bundle.ledger),
       Or(IF both /\ bundle.balance.day # bundle.ledger.day THEN "InconsistentAsOfDays" ELSE Null,
       Or(IF Conflicting(AccountsOf(bundle)) THEN "ConflictingAccountMetadata" ELSE Null,
          IF both /\ \E a \in ids : BalanceIn(bundle.balance, a) # PostedIn(bundle.ledger, a)
          THEN "TrialBalanceGeneralLedgerMismatch" ELSE Null)))))

--------------------------------------------------------------------------------
(* Names: an account and those above it, from the root down.                 *)

ById(accounts) ==
    [a \in {accounts[i].id : i \in DOMAIN accounts} |->
        accounts[CHOOSE i \in DOMAIN accounts : accounts[i].id = a]]

\* From an account up; it goes on past the number of accounts only in a cycle.
Lineage(by, id) ==
    LET n == Cardinality(DOMAIN by)
        up[k \in 0..n] == IF k = 0 THEN id
                          ELSE IF up[k-1] \in DOMAIN by THEN by[up[k-1]].parent ELSE Null
    IN SelectSeq([k \in 1..(n + 1) |-> up[k-1]], LAMBDA a : a # Null)

\* What is wrong above an account of the chart and the report.
LineageRefusal(by, id) ==
    LET ids == Lineage(by, id) IN
    IF \E k \in DOMAIN ids : ids[k] \notin DOMAIN by THEN "MissingParentAccount"
    ELSE IF Len(ids) > Cardinality(DOMAIN by) THEN "AccountHierarchyCycle" ELSE Null
NamesRefusal(accounts) ==
    LET by == ById(accounts) IN
    IF Conflicting(accounts) THEN "ConflictingAccountMetadata"
    ELSE FirstRefusal(SetToSortSeq(DOMAIN by, <), LAMBDA i : LineageRefusal(by, SetToSortSeq(DOMAIN by, <)[i]))

FullName(by, id) ==
    LET ids == Lineage(by, id) IN FoldLeft(LAMBDA text, a : by[a].name \o <<":">> \o text, by[id].name, Tail(ids))

\* The number of the nearest numbered account, itself or above.
NumberOf(by, id) ==
    LET numbered == SelectSeq(Lineage(by, id), LAMBDA a : by[a].number # Null)
    IN IF numbered = <<>> THEN Null ELSE by[Head(numbered)].number
DisplayName(by, id) ==
    (IF NumberOf(by, id) = Null THEN <<>> ELSE NumberOf(by, id) \o <<"dot">>) \o FullName(by, id)

\* A trial balance and a statement may call Retained Earnings otherwise.
Renamed(m, id, otherwise) ==
    IF m.policy # Null /\ m.policy.account = id /\ m.policy.name # Null THEN m.policy.name ELSE otherwise

--------------------------------------------------------------------------------
(* The texts.                                                                *)

SortedRows(report) == SortSeq(report.rows, LAMBDA r, s : r.account.id < s.account.id)
EntryBefore(e, f) ==
    LET key(x) == <<x.posting.day, x.account.id, x.posting.transaction, x.posting.id>>
    IN \E n \in 1..4 : key(e)[n] < key(f)[n] /\ \A k \in 1..(n - 1) : key(e)[k] = key(f)[k]
SortedEntries(report) == SortSeq(report.entries, EntryBefore)

\* The rows of a trial balance, each under its label.
LabelledRows(report, m, chart, renames) ==
    LET accounts == chart \o AccountsOf([balance |-> report, ledger |-> Null])
        refusal == Or(TrialBalanceRefusal(report), Or(MetadataRefusal(m), NamesRefusal(accounts)))
        rows == SortedRows(report)
        name(r) == DisplayName(ById(accounts), r.account.id)
        text(r) == [id |-> r.account.id, label |-> IF renames THEN Renamed(m, r.account.id, name(r)) ELSE name(r),
                    debit |-> r.debit, credit |-> r.credit, net |-> r.signed]
    IN IF refusal # Null THEN [refused |-> refusal]
       ELSE [refused |-> Null, rows |-> [i \in DOMAIN rows |-> text(rows[i])]]
TrialBalanceText(report, m, chart) == LabelledRows(report, m, chart, TRUE)
\* Retained Earnings keeps its own name in JSON.
TrialBalanceJson(report, m, chart) == LabelledRows(report, m, chart, FALSE)

GeneralLedgerText(report, m, chart) ==
    LET accounts == chart \o AccountsOf([balance |-> Null, ledger |-> report])
        refusal == Or(GeneralLedgerRefusal(report), Or(MetadataRefusal(m), NamesRefusal(accounts)))
        by == ById(accounts)
        entries == SortedEntries(report)
    IN IF refusal # Null THEN [refused |-> refusal]
       ELSE [refused |-> Null,
             rows |-> [i \in DOMAIN entries |-> [label |-> DisplayName(by, entries[i].account.id),
                                                 posting |-> entries[i].posting]]]
GeneralLedgerJson(report, m, chart) == GeneralLedgerText(report, m, chart)

--------------------------------------------------------------------------------
(* The database.  A table is a function from its primary key.                *)

Columns == {"activity", "full", "display", "nullable", "class"}
NewDatabase ==
    [columns |-> Columns, accounts |-> <<>>, metadata |-> <<>>, policies |-> <<>>,
     balances |-> <<>>, entries |-> <<>>, statements |-> <<>>, lines |-> <<>>]

Put(table, key, row) == (key :> row) @@ table

\* A table of accounts that lacks a column, or has an active that is not
\* nullable, is made anew, without the classes; what it knows of the activity
\* of an account is kept.
Remade(row) ==
    LET full == IF row.full = Null THEN row.name ELSE row.full IN
    [row EXCEPT !.full = full, !.class = Null,
                !.display = IF @ = Null THEN full ELSE @,
                !.activity = IF @ # Null THEN @ ELSE IF row.active = TRUE THEN "active" ELSE "inactive"]
Migrated(db) ==
    [db EXCEPT !.columns = Columns,
        !.accounts = IF Columns \ {"class"} \subseteq db.columns THEN @
                     ELSE [k \in DOMAIN @ |-> Remade(@[k])]]

\* Mutant: a report replaces those of all days.
ClearedEntity(table, entity, day) == [k \in {k \in DOMAIN table : k[1] # entity} |-> table[k]]
Cleared(table, entity, day) ==
    [k \in {k \in DOMAIN table : k[1] # entity \/ k[2] # day} |-> table[k]]

AccountRow(by, a) ==
    [name |-> a.name, number |-> a.number, full |-> FullName(by, a.id), display |-> DisplayName(by, a.id),
     parent |-> a.parent, class |-> a.class, activity |-> a.activity,
     active |-> IF a.activity = "unknown" THEN Null ELSE a.activity = "active"]
WithAccounts(db, m, by, accounts) ==
    [db EXCEPT !.accounts =
        FoldLeft(LAMBDA table, a : Put(table, <<m.entity, a.id>>, AccountRow(by, a)), @, accounts)]

WithBalance(db, m, report, by) ==
    LET named == WithAccounts(db, m, by, AccountsOf([balance |-> report, ledger |-> Null])) IN
    [named EXCEPT
        !.metadata = Put(@, <<m.entity, "trial_balance", report.day>>, m.file),
        !.policies = IF m.policy = Null THEN Cleared(@, m.entity, report.day)
                     ELSE Put(@, <<m.entity, report.day>>, m.policy),
        !.balances = FoldLeft(LAMBDA table, r : Put(table, <<m.entity, report.day, r.account.id>>,
                                                    [debit |-> r.debit, credit |-> r.credit, net |-> r.signed]),
                              Cleared(@, m.entity, report.day), SortedRows(report))]
WithLedger(db, m, report, by) ==
    LET named == WithAccounts(db, m, by, AccountsOf([balance |-> Null, ledger |-> report])) IN
    [named EXCEPT
        !.metadata = Put(@, <<m.entity, "general_ledger", report.day>>, m.file),
        !.entries = FoldLeft(LAMBDA table, e : Put(table, <<m.entity, report.day, e.posting.id>>, e.posting),
                             Cleared(@, m.entity, report.day), SortedEntries(report))]

\* One transaction: it is rolled back when SQLite refuses any statement of it.
WriteReports(db, m, bundle, chart, fails) ==
    LET accounts == chart \o AccountsOf(bundle)
        by == ById(accounts)
        refusal == Or(MetadataRefusal(m), Or(BundleRefusal(bundle),
                   Or(NamesRefusal(accounts), IF fails THEN "Sqlite" ELSE Null)))
        balanced == IF bundle.balance = Null THEN Migrated(db)
                    ELSE WithBalance(Migrated(db), m, bundle.balance, by)
    IN IF refusal # Null THEN [refused |-> refusal, db |-> db]
       ELSE [refused |-> Null,
             db |-> IF bundle.ledger = Null THEN balanced ELSE WithLedger(balanced, m, bundle.ledger, by)]

\* A statement comes with its whole chart, and with the policy its report was made with.
StatementRefusal(s, m) ==
    Or(MetadataRefusal(m),
       IF \/ (s.policy = Null) # (m.policy = Null)
          \/ s.policy # Null /\ (s.policy.account # m.policy.account \/ s.policy.start # m.policy.start
                                 \/ s.day # m.policy.day)
       THEN "InvalidTrialBalancePolicyMetadata" ELSE NamesRefusal(s.accounts))
StatementText(s, m) ==
    LET by == ById(s.accounts)
        label(r) == IF r.account = Null THEN r.key ELSE Renamed(m, r.account, DisplayName(by, r.account))
    IN IF StatementRefusal(s, m) # Null THEN [refused |-> StatementRefusal(s, m)]
       ELSE [refused |-> Null,
             lines |-> [i \in DOMAIN s.rows |-> [key |-> s.rows[i].key, cents |-> s.rows[i].cents,
                                                account |-> s.rows[i].account, label |-> label(s.rows[i])]]]
StatementJson(s, m) == StatementText(s, m)
WriteStatement(db, m, s, fails) ==
    LET text == StatementText(s, m)
        refusal == Or(text.refused, IF fails THEN "Sqlite" ELSE Null)
        named == WithAccounts(Migrated(db), m, ById(s.accounts), s.accounts)
        when == <<s.kind, s.start, s.day>>
    IN IF refusal # Null THEN [refused |-> refusal, db |-> db]
       ELSE [refused |-> Null,
             db |-> [named EXCEPT
                !.statements = Put(@, <<m.entity, when>>, m.file),
                !.lines = FoldLeft(LAMBDA table, l : Put(table, <<m.entity, when, l.key>>, l),
                                   Cleared(@, m.entity, when), text.lines)]]

\* The trial balances of a batch, in one database, each entity once.
Consolidated(items) ==
    LET written[i \in 0..Len(items)] ==
            IF i = 0 THEN [refused |-> Null, db |-> NewDatabase]
            ELSE IF written[i-1].refused # Null THEN written[i-1]
            ELSE IF \E j \in 1..(i - 1) : items[j].metadata.entity = items[i].metadata.entity
            THEN [refused |-> "Sqlite", db |-> Null]
            ELSE WriteReports(written[i-1].db, items[i].metadata,
                              [balance |-> items[i].report, ledger |-> Null], items[i].chart, FALSE)
    IN written[Len(items)]
================================================================================
