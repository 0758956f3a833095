-------------------------------- MODULE MCLedger --------------------------------
(****************************************************************************)
(* Two well-formed charts and one of each malformation, under streams of    *)
(* two transactions of two rows: either may be unbalanced, unresolved or    *)
(* obsolete, fall in the earlier or the later fiscal year, and add up to    *)
(* the limits of a four-valued amount width.                                *)
(****************************************************************************)
EXTENDS Ledger

A(id, type, class, parent, rank) ==
    [id |-> id, type |-> type, class |-> class, parent |-> parent, rank |-> rank]

Cash == A("cash", "Asset", "Asset", Root, 1)
RetainedEarnings == A("re", "Equity", "Equity", Root, 2)
Sales == A("sales", "Income", "Income", Root, 3)
Interest == A("interest", "Income", "OtherIncome", Root, 4)
Rent == A("rent", "Expense", "Expense", Root, 5)
Loan == A("loan", "Liability", "Liability", Root, 4)

WellFormed == <<Cash, RetainedEarnings, Sales, Interest, Rent>>

MCCharts ==
    {WellFormed,
     <<Cash, RetainedEarnings, Sales, Loan, [Rent EXCEPT !.parent = "sales"]>>,
     <<Cash, RetainedEarnings, Sales, Interest, [Rent EXCEPT !.id = "sales"]>>,
     <<Cash, RetainedEarnings, Sales, Interest, [Rent EXCEPT !.parent = "gone"]>>,
     <<Cash, RetainedEarnings, Sales, Interest, [Rent EXCEPT !.class = "none"]>>,
     <<Cash, RetainedEarnings, Sales, [Interest EXCEPT !.class = "Expense"], Rent>>}

P(id, row, txn, account, date, amount, state) ==
    [id |-> id, row |-> row, txn |-> txn, account |-> account, date |-> date,
     amount |-> amount, state |-> state]

\* Transaction t of two rows; off is how far it is from balance.
Transaction(t, from, to, date, amount, off, state) ==
    <<P(<<t, 1>>, <<t, 1>>, t, from, date, amount, "Current"),
      P(<<t, 2>>, <<t, 2>>, t, to, date, off - amount, state)>>

First ==
    {Transaction(1, "cash", to, d, m, 0, "Current") :
        to \in {"sales", "rent"}, d \in {1, 2}, m \in {2, -3}}
    \cup {Transaction(1, "cash", "sales", 2, 2, 1, "Current")}

Second ==
    {Transaction(2, "cash", to, d, 2, 0, s) :
        to \in {"sales", "interest", "re"}, d \in {1, 2, 3},
        s \in {"Current", "Ambiguous"}}
    \cup {Transaction(2, "cash", "sales", 2, 2, -1, s) : s \in {"Current", "Superseded", "Deleted"}}
    \cup {Transaction(2, "cash", "interest", 2, -1, 0, "Current"),
          <<P(<<2, 1>>, <<1, 1>>, 2, "cash", 2, 2, "Current")>>,
          <<P(<<1, 2>>, <<2, 1>>, 2, "cash", 2, 2, "Current")>>,
          <<P(<<2, 1>>, <<2, 1>>, 2, "cash", 2, 0, "Current")>>,
          <<P(<<2, 1>>, <<2, 1>>, 2, "cash", 2, MinAmount, "Current")>>}

MCStreams == {f \o s : f \in First, s \in Second} \cup {<<>>}
================================================================================
