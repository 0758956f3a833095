--------------------------------- MODULE Reporting ---------------------------------
(****************************************************************************)
(* The writers of reports, each as an action: the texts of one report, and   *)
(* a database through a sequence of writes.                                  *)
(****************************************************************************)
EXTENDS Calls, Integers, FiniteSets, Sequences

CONSTANTS ReportTexts, ReportWrites, BatchItems

Writer == INSTANCE ReportOutput
Reader == INSTANCE Reconciliation

WriteText ==
    Call("report text", ReportTexts,
         LAMBDA x : [balance |-> Writer!TrialBalanceText(x.balance, x.metadata, x.chart),
                     json |-> Writer!TrialBalanceJson(x.balance, x.metadata, x.chart),
                     ledger |-> Writer!GeneralLedgerText(x.ledger, x.metadata, x.chart)])

\* What reconciliation takes from the texts.
ReadText(rows) ==
    Reader!GeneratedTrialBalance(
        [i \in DOMAIN rows |-> [account |-> rows[i].label, debit |-> rows[i].debit,
                               credit |-> rows[i].credit, net |-> rows[i].net]])
ReadLedger(rows, through) ==
    Reader!GeneratedLedger(
        [i \in DOMAIN rows |-> [account |-> rows[i].label, day |-> rows[i].posting.day,
                               cents |-> rows[i].posting.cents, type |-> Null]], 0, through)

\* What is heard of an account, from its parents alone: the path of names to it.
\* A number of digits, its own or the nearest one above, is not heard, nor is what
\* looks like one at the start of a name without any; another number is heard too.
Heard(number, path) ==
    CASE number = Null /\ Len(path) > 2 /\ path[1] \in Numerals /\ path[2] = "dot" -> Tail(Tail(path))
      [] number # Null /\ (Len(number) > 1 \/ number[1] \notin Numerals) -> number \o <<"dot">> \o path
      [] OTHER -> path
NameHeard(accounts, id) ==
    LET of(a) == accounts[CHOOSE i \in DOMAIN accounts : accounts[i].id = a]
        ids == {accounts[i].id : i \in DOMAIN accounts}
        path[n \in 0..Len(accounts), a \in ids] ==
            (IF n = 0 \/ of(a).parent = Null THEN <<>> ELSE path[n-1, of(a).parent] \o <<":">>) \o of(a).name
        number[n \in 0..Len(accounts), a \in ids] ==
            IF of(a).number # Null \/ n = 0 \/ of(a).parent = Null THEN of(a).number
            ELSE number[n-1, of(a).parent]
    IN Heard(number[Len(accounts), id], path[Len(accounts), id])

\* The program reads its own reports back: what it writes is refused only if two
\* accounts of a trial balance are heard alike, and then it is; otherwise each
\* balance stands at the name its account is heard by, that of the policy for
\* Retained Earnings, and so does each posting of a general ledger, of which none
\* is lost or comes before one of an earlier day.
OwnReportsReadBack ==
    task = "report text" =>
        LET b == output.balance
            j == output.json
            l == output.ledger
            rows == input.balance.rows
            entries == input.ledger.entries
            policy == input.metadata.policy
            named(id) == IF policy # Null /\ policy.account = id /\ policy.name # Null THEN Heard(Null, policy.name)
                         ELSE NameHeard(input.chart \o [i \in DOMAIN rows |-> rows[i].account], id)
            names == [i \in DOMAIN rows |-> named(rows[i].account.id)]
        IN /\ b.refused = Null /\ rows # <<>> =>
                IF \E x, y \in DOMAIN rows : x # y /\ names[x] = names[y]
                THEN ReadText(b.rows).refused = "DuplicateAccount"
                ELSE /\ ReadText(b.rows).refused = Null
                     /\ \A i \in DOMAIN rows : /\ names[i] \in DOMAIN ReadText(b.rows).balances
                                               /\ ReadText(b.rows).balances[names[i]] = rows[i].signed
                     /\ Reader!Passes(Reader!Reconciled(ReadText(b.rows).balances, ReadText(b.rows).balances))
           /\ b.refused = Null => \A i \in DOMAIN b.rows : [b.rows[i] EXCEPT !.label = j.rows[i].label] = j.rows[i]
           /\ l.refused = Null =>
                LET ledger == input.chart \o [i \in DOMAIN entries |-> entries[i].account]
                    read == ReadLedger(l.rows, input.ledger.day)
                IN /\ {l.rows[i].posting : i \in DOMAIN l.rows} = {entries[i].posting : i \in DOMAIN entries}
                   /\ \A x, y \in DOMAIN l.rows : x < y => l.rows[x].posting.day <= l.rows[y].posting.day
                   /\ entries # <<>> =>
                        /\ read.refused = Null /\ Len(read.postings) = Len(entries)
                        /\ \A i \in DOMAIN entries : \E k \in DOMAIN read.postings :
                             /\ l.rows[k].posting = entries[i].posting
                             /\ read.postings[k] = [date |-> entries[i].posting.day, cents |-> entries[i].posting.cents,
                                                    account |-> NameHeard(ledger, entries[i].account.id), type |-> Null]

--------------------------------------------------------------------------------
\* One write after the other to the same database: after each of them, what it
\* answers and what is stored.
Written(x) ==
    LET step(db, w) == IF w.is = "reports" THEN Writer!WriteReports(db, w.metadata, w.bundle, w.chart, w.fails)
                       ELSE Writer!WriteStatement(db, w.metadata, w.statement, w.fails)
        after[i \in 0..Len(x.writes)] ==
            IF i = 0 THEN [refused |-> Null, db |-> x.db] ELSE step(after[i-1].db, x.writes[i])
    IN [i \in 1..(Len(x.writes) + 1) |-> after[i-1]]
WriteDatabase == Call("database", ReportWrites, Written)
Consolidate == Call("batch", BatchItems, Writer!Consolidated)

Accepted == {i \in DOMAIN input.writes : output[i + 1].refused = Null}
LastOf(S) == CHOOSE i \in S : \A j \in S : j <= i
Statements == {i \in DOMAIN input.writes : input.writes[i].is = "statement"}
When(s) == <<s.kind, s.start, s.day>>
KeysOf(table, entity, when) == {k \in DOMAIN table : k[1] = entity /\ k[2] = when}

\* The last accepted write of this kind of report or statement, of an entity and a
\* day or a period, is the one that is stored, with its own provenance, and all of it; a write that
\* was refused or failed has left nothing.
ReportsStoredAreLast ==
    /\ task = "database" =>
         LET db == output[Len(output)].db
             entities == {input.writes[i].metadata.entity : i \in DOMAIN input.writes}
             days == {1, 2}
             reports(kind, e, d) == {i \in Accepted : /\ input.writes[i].is = "reports"
                                                      /\ input.writes[i].metadata.entity = e
                                                      /\ input.writes[i].bundle[kind] # Null
                                                      /\ input.writes[i].bundle[kind].day = d}
         IN /\ \A e \in entities, d \in days :
                 LET S == reports("balance", e, d)
                     w == input.writes[LastOf(S)]
                     keys == KeysOf(db.balances, e, d)
                 IN IF S = {} THEN keys = {}
                    ELSE /\ {[account |-> k[3], net |-> db.balances[k].net] : k \in keys} =
                            {[account |-> r.account.id, net |-> r.signed] : r \in Writer!Range(w.bundle.balance.rows)}
                         /\ db.metadata[<<e, "trial_balance", d>>] = w.metadata.file
                         /\ IF w.metadata.policy = Null THEN <<e, d>> \notin DOMAIN db.policies
                            ELSE db.policies[<<e, d>>] = w.metadata.policy
            /\ \A e \in entities, d \in days :
                 LET S == reports("ledger", e, d)
                     w == input.writes[LastOf(S)]
                     keys == KeysOf(db.entries, e, d)
                 IN IF S = {} THEN keys = {}
                    ELSE /\ {db.entries[k] : k \in keys} = {x.posting : x \in Writer!Range(w.bundle.ledger.entries)}
                         /\ db.metadata[<<e, "general_ledger", d>>] = w.metadata.file
            /\ \A e \in entities, when \in {When(input.writes[i].statement) : i \in Statements} :
                 LET S == {i \in Accepted \cap Statements : /\ input.writes[i].metadata.entity = e
                                                          /\ When(input.writes[i].statement) = when}
                     w == input.writes[LastOf(S)]
                     keys == KeysOf(db.lines, e, when)
                 IN IF S = {} THEN keys = {} /\ <<e, when>> \notin DOMAIN db.statements
                    ELSE /\ {[key |-> k[3], cents |-> db.lines[k].cents, account |-> db.lines[k].account] : k \in keys} =
                            Writer!Range(w.statement.rows)
                         /\ db.statements[<<e, when>>] = w.metadata.file
            /\ \A k \in DOMAIN db.lines : <<k[1], k[2]>> \in DOMAIN db.statements
            /\ \A k \in DOMAIN db.balances : <<k[1], k[3]>> \in DOMAIN db.accounts
            /\ \A k \in DOMAIN input.db.accounts :
                 /\ k \in DOMAIN db.accounts
                 /\ k[1] \notin entities /\ input.db.accounts[k].active # Null =>
                      db.accounts[k].active = input.db.accounts[k].active
    /\ task = "batch" /\ output.refused = Null =>
         \A i \in DOMAIN input :
            {[account |-> k[3], net |-> output.db.balances[k].net] :
                k \in KeysOf(output.db.balances, input[i].metadata.entity, input[i].report.day)} =
            {[account |-> r.account.id, net |-> r.signed] : r \in Writer!Range(input[i].report.rows)}

ReportingNext == WriteText \/ WriteDatabase \/ Consolidate
================================================================================
