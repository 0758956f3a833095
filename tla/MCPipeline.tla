------------------------------ MODULE MCPipeline ------------------------------
(****************************************************************************)
(* A company of two accounts and a hidden one, whose posting tables hold a  *)
(* balanced entry each; in every input one part of it is varied: the rows   *)
(* of one table (up to two from a list of sound and faulty ones, alone or   *)
(* after the entry), the accounts, or which tables and schemas are there.   *)
(****************************************************************************)
EXTENDS Pipeline

Obs(kind, target, master, account, cents) ==
    [kind |-> kind, target |-> target, master |-> master, date |-> 1,
     account |-> account, cents |-> cents]
Posting(target, account, cents) == Obs("posting", target, 7, account, cents)
Zero(target) == Obs("zero", target, 7, 1, 0)
Neutral(target) == Obs("neutral", target, 7, Null, 0)
Failed(target) == Obs("failed", target, 7, Null, 0)

Sound == {Posting(1, 1, 5), Posting(2, 2, -5)}
Faulty ==
    {Posting(3, 9, 5), Posting(3, 3, -5), Posting(1, 2, -5), Obs("posting", 3, 8, 2, -5),
     [Posting(3, 2, -5) EXCEPT !.date = 2], Posting(3, 1, -9),
     Zero(3), [Zero(4) EXCEPT !.account = 9], Neutral(3), Failed(3)}

\* Up to two rows of S, alone or after the rows rs.
Around(rs, S) == {p \o q : p \in {<<>>, rs}, q \in {<<>>} \cup [1..1 -> S] \cup [1..2 -> S]}

--------------------------------------------------------------------------------
JournalRow(o) == o @@ [off |-> FALSE]
BillRow(o) == o @@ [noPost |-> FALSE, memorized |-> FALSE]
Line(physical, prefix) ==
    [form |-> "line", opaqueZero |-> FALSE, physical |-> physical, prefix |-> prefix]
Both(o) == Line(o, o)
Role(o, role) == o @@ [role |-> role]
AccountRow(number, listId, parent, state) ==
    [number |-> number, listId |-> listId, parent |-> parent, state |-> state]

Chart == <<AccountRow(1, "A", Null, "selected"), AccountRow(2, "B", 1, "selected"),
           AccountRow(3, "C", Null, "excluded")>>

Rest(t) ==
    CASE t = "Account" -> Chart
      [] t = "Journal" -> <<JournalRow(Posting(1, 1, 5)), JournalRow(Posting(2, 2, -5))>>
      [] t = "Bill" -> <<BillRow(Posting(1, 1, 5)), BillRow(Posting(2, 2, -5))>>
      [] t = "Check" -> <<Both(Posting(1, 1, 5)), Both(Posting(2, 2, -5))>>
      [] t = "Deposit" -> <<Role(Posting(1, 1, 5), "plain"), Role(Posting(2, 2, -5), "plain")>>
      [] OTHER -> <<Posting(1, 1, 5), Posting(2, 2, -5)>>

--------------------------------------------------------------------------------
Journals ==
    Around(Rest("Journal"), {JournalRow(o) : o \in (Sound \cup Faulty) \ {Failed(3)}}
          \cup {[JournalRow(o) EXCEPT !.off = TRUE] : o \in Sound}
          \cup {JournalRow([Posting(3, 2, -5) EXCEPT !.date = Null]), JournalRow(Failed(3))})

Bills ==
    Around(Rest("Bill"), {BillRow(o) : o \in (Sound \cup Faulty) \ {Neutral(3)}}
          \cup {[BillRow(o) EXCEPT !.noPost = TRUE] : o \in Sound}
          \cup {[BillRow(o) EXCEPT !.memorized = TRUE] : o \in Sound}
          \cup {[BillRow(Posting(1, 1, 5)) EXCEPT !.memorized = Null],
                BillRow([Posting(1, 1, 5) EXCEPT !.date = Null])})

Payments == Around(Rest("BillPayment"), Sound \cup Faulty)

Companion(target, master) == [form |-> "companion", target |-> target, master |-> master]
Link(line, sibling) ==
    [form |-> "link", target |-> 6, master |-> 7, date |-> 1, next |-> line,
     sibling |-> sibling, valid |-> TRUE]
Voided(target) == Both([Zero(target) EXCEPT !.master = 8])

Checks ==
    Around(Rest("Check"), {Both(o) : o \in Sound \cup Faulty}
          \cup {Line(Failed(1), Posting(1, 1, 5)), Line(Posting(2, 2, -5), Failed(2)),
                Line(Posting(2, 2, -5), Posting(2, 2, -6)), Line(Posting(1, 1, 6), Posting(1, 1, 5)),
                [Line(Failed(4), Zero(4)) EXCEPT !.opaqueZero = TRUE],
                Line(Failed(3), Zero(3)),
                Companion(5, 7), Companion(5, 5), Link(1, 2), Link(1, 1),
                [Link(2, 1) EXCEPT !.valid = FALSE]})
      \cup {Rest("Check") \o <<Voided(3), x, y>> :
              x \in {Voided(4), Both(Zero(4)), Both(Obs("posting", 4, 8, 1, 5))},
              y \in {Companion(5, 8), Companion(4, 8), Companion(5, 7), Voided(5)}}
      \cup {Rest("Check") \o <<Voided(3), Voided(4), Companion(5, 8), x>> :
              x \in {Voided(6), Companion(6, 8), Companion(6, 7), Link(1, 2), Link(3, 2)}}

DepositRows ==
    {Role(o, "plain") : o \in Sound \cup Faulty}
      \cup {Role(Failed(5), h) : h \in {"header70", "header71", "badHeader"}}
      \cup {Role(Neutral(6), "source"), Role(Posting(1, 1, 10), "linked")}
Linked ==
    <<Role(Failed(5), "header70"), Role(Posting(1, 1, 10), "linked"),
      Role(Posting(2, 2, -5), "counterpart"), Role(Posting(3, 2, -5), "counterpart")>>
Deposits ==
    Around(Rest("Deposit"), DepositRows)
      \cup {Linked, Append(Linked, Role(Neutral(6), "source"))}
      \cup {[Linked EXCEPT ![k] = r] : k \in 1..4, r \in DepositRows}

--------------------------------------------------------------------------------
Charts ==
    {Append(Chart, AccountRow(n, id, p, s)) :
        n \in {1, 4}, id \in {"A", "D", Null}, p \in {Null, 1, 3, 4, 9},
        s \in {"selected", "excluded", "failed", "unparsed"}}
      \cup {<<>>, <<Chart[1], Chart[3]>>}

TableOf(t, rows) == [policy |-> t, table |-> t, complete |-> TRUE, rows |-> rows]
Order == <<"BillPayment", "Bill", "Check", "Deposit", "Journal">>
Company ==
    [manifest |-> TRUE, accounts |-> TableOf("Account", Chart),
     tables |-> [i \in DOMAIN Order |-> TableOf(Order[i], Rest(Order[i]))],
     schemas |-> Policies \ NoStorage, mismatched |-> {}]

With(i, S) == {[Company EXCEPT !.tables[i].rows = rows] : rows \in S}

MCInputs ==
    With(1, Payments) \cup With(2, Bills) \cup With(3, Checks) \cup With(4, Deposits)
    \cup With(5, Journals)
    \cup {[Company EXCEPT !.accounts.rows = c] : c \in Charts}
    \cup {[Company EXCEPT !.manifest = FALSE]}
    \cup {[Company EXCEPT !.schemas = @ \ {t}] : t \in Policies}
    \cup {[Company EXCEPT !.mismatched = {t}] : t \in Policies}
    \cup {[Company EXCEPT !.tables[i] = [TableOf(p, Rest(p)) EXCEPT !.table = t, !.complete = c]] :
            i \in 1..5, c \in BOOLEAN, t \in Policies, p \in {"Bill", "Account"}}
    \cup {[Company EXCEPT !.accounts.complete = FALSE]}
    \cup {[Company EXCEPT !.tables[i].complete = FALSE] : i \in 1..5}
    \cup {[Company EXCEPT !.tables = SubSeq(@, i, j)] : i \in 1..5, j \in 0..5}
    \cup {[Company EXCEPT !.tables = Append(@, TableOf(t, Rest(t)))] : t \in Policies}
================================================================================
