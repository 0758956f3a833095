--------------------------------- MODULE Ledger ---------------------------------
(****************************************************************************)
(* The normalized ledger of accounting.rs and the reports derived from it   *)
(* (accounting.rs, financial_statements.rs): Ledger::new validates a chart  *)
(* and a posting stream once; every report is then a function of the        *)
(* validated ledger, a cutoff date and a policy, or an error.  Amounts are  *)
(* debit-positive; a report amount has the width MinAmount..MaxAmount,      *)
(* intermediate sums are exact (i128).                                      *)
(****************************************************************************)
EXTENDS Integers, Sequences, FiniteSetsExt

CONSTANTS
    Charts,          \* sequences of account records handed to Ledger::new
    PostingStreams,  \* sequences of posting records handed to Ledger::new
    Dates,           \* accounting days that reports ask for
    MaxAmount        \* i64::MAX

\* AccountType
AccountTypes ==
    {"Asset", "Liability", "Equity", "Income", "Expense", "CostOfGoodsSold", "Other"}

\* A width of at least one bit; charts and streams are sequences, an account has
\* one of the types, a posting has a day and an amount.
ASSUME LedgerAssumption ==
    /\ MaxAmount \in Nat /\ Dates \subseteq Int
    /\ \A c \in Charts :
          /\ Len(c) \in Nat /\ DOMAIN c = 1..Len(c)
          /\ \A k \in DOMAIN c : c[k].type \in AccountTypes
    /\ \A ps \in PostingStreams :
          /\ Len(ps) \in Nat /\ DOMAIN ps = 1..Len(ps)
          /\ \A k \in DOMAIN ps : ps[k].date \in Int /\ ps[k].amount \in Int

MinAmount == -MaxAmount - 1
Fits(x) == x \in MinAmount..MaxAmount

Root == "root"   \* no parent account
States == {"Current", "Superseded", "Deleted", "Ambiguous"}
Completeness == {"Complete", "Incomplete", "Unsupported"}

\* QuickBooksAccountClassification, as far as the reports tell it apart, and
\* trial_balance_type.
BroadType(class) ==
    CASE class = "OtherIncome" -> "Income"
      [] class = "OtherExpense" -> "Expense"
      [] OTHER -> class

IsProfitAndLoss(type) == type \in {"Income", "Expense", "CostOfGoodsSold"}

VARIABLES chart, postings, completeness, ledger, report

vars == <<chart, postings, completeness, ledger, report>>

NoReport == [kind |-> "none"]

Init ==
    /\ chart \in Charts
    /\ postings \in PostingStreams
    /\ completeness \in Completeness
    /\ ledger = "unbuilt"
    /\ report = NoReport

--------------------------------------------------------------------------------
(* Ledger::new *)

Account(id) == LET k == CHOOSE k \in DOMAIN chart : chart[k].id = id IN chart[k]
Ids == {chart[k].id : k \in DOMAIN chart}

\* The hierarchy check, by what AccountHierarchy proves it to accept; a chart
\* it does not accept is refused here or ends the call in a panic there.
HierarchyFaulty ==
    \/ \E k \in DOMAIN chart : chart[k].parent \notin Ids \cup {Root}
    \/ \E S \in SUBSET Ids : S # {} /\ \A a \in S : Account(a).parent \in S

PostingError(k) ==
    LET p == postings[k] IN
    IF p.amount \in {0, MinAmount} THEN "ZeroPosting"
    ELSE IF p.account \notin Ids THEN "UnknownAccount"
    ELSE IF \E j \in 1..(k - 1) : postings[j].id = p.id THEN "DuplicatePosting"
    ELSE IF \E j \in 1..(k - 1) : postings[j].row = p.row THEN "DuplicateProvenance"
    ELSE "none"

\* The first fault in the order of the code: chart, hierarchy, postings.
NewError ==
    IF \E j, k \in DOMAIN chart : j # k /\ chart[j].id = chart[k].id THEN "DuplicateAccount"
    ELSE IF HierarchyFaulty THEN "Hierarchy"
    ELSE IF \E k \in DOMAIN postings : PostingError(k) # "none"
    THEN PostingError(Min({k \in DOMAIN postings : PostingError(k) # "none"}))
    ELSE "none"

New ==
    /\ ledger = "unbuilt"
    /\ ledger' = IF NewError = "none" THEN "built" ELSE NewError
    /\ UNCHANGED <<chart, postings, completeness, report>>

--------------------------------------------------------------------------------
(* General Ledger: ps is the posting stream. *)

\* Mutant: an unresolved row blocks every cutoff.
EntriesErrorAnyDate(ps, asOf) ==
    IF completeness # "Complete" THEN completeness
    ELSE IF \E k \in DOMAIN ps : ps[k].state = "Ambiguous" THEN "AmbiguousCurrentState"
    ELSE "none"

\* current_postings_as_of: the first refusal, and the entries without one.
EntriesError(ps, asOf) ==
    IF completeness # "Complete" THEN completeness
    ELSE IF \E k \in DOMAIN ps : ps[k].state = "Ambiguous" /\ ps[k].date <= asOf
    THEN "AmbiguousCurrentState" ELSE "none"

Entries(ps, asOf) == {k \in DOMAIN ps : ps[k].state = "Current" /\ ps[k].date <= asOf}

Sum(ps, S) == MapThenSumSet(LAMBDA k : ps[k].amount, S)

\* Mutant: balance is asked of the ledger as a whole, not of each transaction.
BalancedInTotal(ps, entries) == Sum(ps, entries) = 0

BalancedByTransaction(ps, entries) ==
    \A t \in {ps[k].txn : k \in entries} : Sum(ps, {k \in entries : ps[k].txn = t}) = 0

GeneralLedgerError(ps, asOf) ==
    IF EntriesError(ps, asOf) # "none" THEN EntriesError(ps, asOf)
    ELSE IF ~BalancedByTransaction(ps, Entries(ps, asOf)) THEN "UnbalancedTransaction"
    ELSE "none"

--------------------------------------------------------------------------------
(* Trial Balances: the balance of every account, then the rows shown. *)

Balances(ps, asOf) ==
    [a \in Ids |-> Sum(ps, {k \in Entries(ps, asOf) : ps[k].account = a})]

\* Mutants: the first day of the fiscal year rolls forward too; the rolled
\* balances go nowhere.
AccrualBalancesFirstDay(ps, asOf, fiscalStart, re) ==
    LET rolled == {k \in Entries(ps, asOf) :
                      ps[k].date <= fiscalStart /\ IsProfitAndLoss(Account(ps[k].account).type)}
    IN [a \in Ids |->
          Sum(ps, {k \in Entries(ps, asOf) \ rolled : ps[k].account = a}
                    \cup (IF a = re THEN rolled ELSE {}))]

AccrualBalancesDropped(ps, asOf, fiscalStart, re) ==
    LET rolled == {k \in Entries(ps, asOf) :
                      ps[k].date < fiscalStart /\ IsProfitAndLoss(Account(ps[k].account).type)}
    IN [a \in Ids |-> Sum(ps, {k \in Entries(ps, asOf) \ rolled : ps[k].account = a})]

\* Earlier years' income and expense move to Retained Earnings.
AccrualBalances(ps, asOf, fiscalStart, re) ==
    LET rolled == {k \in Entries(ps, asOf) :
                      ps[k].date < fiscalStart /\ IsProfitAndLoss(Account(ps[k].account).type)}
    IN [a \in Ids |->
          Sum(ps, {k \in Entries(ps, asOf) \ rolled : ps[k].account = a}
                    \cup (IF a = re THEN rolled ELSE {}))]

Shown(balances, zeros) == {a \in Ids : zeros \/ balances[a] # 0}

\* Mutant: the debit column's width is checked, the credit column's is not.
TrialBalanceRowsWrap(balances, zeros) ==
    LET shown == Shown(balances, zeros) IN
    IF \E a \in shown : ~Fits(balances[a])
    THEN [error |-> "BalanceOverflow"]
    ELSE IF MapThenSumSet(LAMBDA a : balances[a], shown) # 0
    THEN [error |-> "UnbalancedLedger"]
    ELSE [error |-> "none", rows |-> [a \in shown |-> balances[a]]]

\* trial_balance_from_balances; a credit column cannot show MinAmount.
TrialBalanceRows(balances, zeros) ==
    LET shown == Shown(balances, zeros) IN
    IF \E a \in shown : ~Fits(balances[a]) \/ balances[a] = MinAmount
    THEN [error |-> "BalanceOverflow"]
    ELSE IF MapThenSumSet(LAMBDA a : balances[a], shown) # 0
    THEN [error |-> "UnbalancedLedger"]
    ELSE [error |-> "none", rows |-> [a \in shown |-> balances[a]]]

TrialBalance(ps, asOf, zeros) ==
    IF GeneralLedgerError(ps, asOf) # "none"
    THEN [error |-> GeneralLedgerError(ps, asOf)]
    ELSE TrialBalanceRows(Balances(ps, asOf), zeros)

AccrualTrialBalance(ps, asOf, zeros, fiscalStart, re) ==
    IF fiscalStart > asOf THEN [error |-> "FiscalYearStartAfterAsOf"]
    ELSE IF re \notin Ids THEN [error |-> "UnknownRetainedEarningsAccount"]
    ELSE IF Account(re).type # "Equity" THEN [error |-> "RetainedEarningsAccountNotEquity"]
    ELSE IF GeneralLedgerError(ps, asOf) # "none" THEN [error |-> GeneralLedgerError(ps, asOf)]
    ELSE TrialBalanceRows(AccrualBalances(ps, asOf, fiscalStart, re), zeros)

--------------------------------------------------------------------------------
(* Financial statements *)

\* validated_accounts: the first account, in order, without a proven category.
ChartError ==
    LET bad == {k \in DOMAIN chart :
                   \/ chart[k].type = "Other" \/ chart[k].class = "none"
                   \/ BroadType(chart[k].class) # chart[k].type}
    IN IF bad = {} THEN "none"
       ELSE LET a == chart[CHOOSE k \in bad : \A j \in bad : chart[k].rank <= chart[j].rank]
            IN IF a.type = "Other" \/ a.class = "none"
               THEN "UnclassifiedAccount" ELSE "ConflictingClassification"

Section(a) ==
    CASE Account(a).class \in {"OtherIncome", "OtherExpense"} -> Account(a).class
      [] OTHER -> Account(a).type

\* The presentation amount of an account: credit-normal sections change sign.
Presented(a, signed) ==
    IF Account(a).type \in {"Income", "Liability", "Equity"} THEN -signed ELSE signed

SectionTotal(balances, section) ==
    MapThenSumSet(LAMBDA a : Presented(a, balances[a]), {a \in Ids : Section(a) = section})

\* exact_amount of every row shown and of every derived amount.
AllFit(balances, sections, amounts) ==
    /\ \A a \in Ids : Section(a) \in sections =>
          Fits(balances[a]) /\ Fits(Presented(a, balances[a]))
    /\ \A key \in DOMAIN amounts : Fits(amounts[key])

ProfitAndLoss(ps, from, through, zeros) ==
    IF from > through THEN [error |-> "InvalidPeriod"]
    ELSE IF ChartError # "none" THEN [error |-> ChartError]
    ELSE IF GeneralLedgerError(ps, through) # "none"
    THEN [error |-> GeneralLedgerError(ps, through)]
    ELSE
    LET inPeriod == {k \in Entries(ps, through) : ps[k].date >= from}
        balances == [a \in Ids |-> Sum(ps, {k \in inPeriod : ps[k].account = a})]
        income == SectionTotal(balances, "Income")
        cogs == SectionTotal(balances, "CostOfGoodsSold")
        expense == SectionTotal(balances, "Expense")
        otherIncome == SectionTotal(balances, "OtherIncome")
        otherExpense == SectionTotal(balances, "OtherExpense")
        sections == {"Income", "CostOfGoodsSold", "Expense", "OtherIncome", "OtherExpense"}
        amounts == [income |-> income, cogs |-> cogs, grossProfit |-> income - cogs,
                    expense |-> expense, netOperating |-> income - cogs - expense,
                    otherIncome |-> otherIncome, otherExpense |-> otherExpense,
                    netOther |-> otherIncome - otherExpense,
                    netIncome |-> income - cogs - expense + otherIncome - otherExpense]
        shown == {a \in Shown(balances, zeros) : Section(a) \in sections}
    IN IF ~AllFit(balances, sections, amounts) THEN [error |-> "AmountOverflow"]
       ELSE [error |-> "none", rows |-> [a \in shown |-> Presented(a, balances[a])],
             amounts |-> amounts]

BalanceSheet(ps, asOf, zeros, fiscalStart, re) ==
    LET tb == AccrualTrialBalance(ps, asOf, zeros, fiscalStart, re) IN
    IF ChartError # "none" THEN [error |-> ChartError]
    ELSE IF tb.error # "none" THEN [error |-> tb.error]
    ELSE
    LET profit == {a \in DOMAIN tb.rows : IsProfitAndLoss(Account(a).type)}
        balances == [a \in Ids |-> IF a \in DOMAIN tb.rows \ profit THEN tb.rows[a] ELSE 0]
        netIncome == -MapThenSumSet(LAMBDA a : tb.rows[a], profit)
        assets == SectionTotal(balances, "Asset")
        liabilities == SectionTotal(balances, "Liability")
        equity == SectionTotal(balances, "Equity")
        amounts == [assets |-> assets, liabilities |-> liabilities,
                    currentYearNetIncome |-> netIncome, equity |-> equity + netIncome,
                    liabilitiesAndEquity |-> liabilities + equity + netIncome]
        sections == {"Asset", "Liability", "Equity"}
        shown == {a \in Shown(balances, zeros) : Section(a) \in sections}
    IN IF ~AllFit(balances, sections, amounts) THEN [error |-> "AmountOverflow"]
       ELSE IF assets # liabilities + equity + netIncome
       THEN [error |-> "UnbalancedBalanceSheet"]
       ELSE [error |-> "none", rows |-> [a \in shown |-> Presented(a, balances[a])],
             amounts |-> amounts]

--------------------------------------------------------------------------------
(* A caller asks the built ledger for a report.  Reports only read the ledger, *)
(* so a behaviour with one of them shows what any number of them would.       *)

\* The report that a request evaluates to, over the posting stream ps.
Evaluate(ps, q) ==
    CASE q.kind = "GeneralLedger" ->
            [error |-> GeneralLedgerError(ps, q.asOf),
             entries |-> {ps[k].id : k \in Entries(ps, q.asOf)}]
      [] q.kind = "TrialBalance" -> TrialBalance(ps, q.asOf, q.zeros)
      [] q.kind = "AccrualTrialBalance" ->
            AccrualTrialBalance(ps, q.asOf, q.zeros, q.from, q.re)
      [] q.kind = "ProfitAndLoss" -> ProfitAndLoss(ps, q.from, q.asOf, q.zeros)
      [] q.kind = "BalanceSheet" -> BalanceSheet(ps, q.asOf, q.zeros, q.from, q.re)

Ask(q) ==
    /\ ledger = "built" /\ report = NoReport
    /\ report' = [kind |-> q.kind, request |-> q, result |-> Evaluate(postings, q)]
    /\ UNCHANGED <<chart, postings, completeness, ledger>>

AskGeneralLedger ==
    \E d \in Dates : Ask([kind |-> "GeneralLedger", asOf |-> d])
AskTrialBalance ==
    \E d \in Dates, z \in BOOLEAN :
        Ask([kind |-> "TrialBalance", asOf |-> d, zeros |-> z])
AskAccrualTrialBalance ==
    \E d, f \in Dates, z \in BOOLEAN, re \in Ids \cup {Root} :
        Ask([kind |-> "AccrualTrialBalance", asOf |-> d, zeros |-> z, from |-> f, re |-> re])
AskProfitAndLoss ==
    \E d, f \in Dates, z \in BOOLEAN :
        Ask([kind |-> "ProfitAndLoss", asOf |-> d, zeros |-> z, from |-> f])
AskBalanceSheet ==
    \E d, f \in Dates, z \in BOOLEAN, re \in Ids :
        Ask([kind |-> "BalanceSheet", asOf |-> d, zeros |-> z, from |-> f, re |-> re])

Next ==
    \/ New
    \/ AskGeneralLedger \/ AskTrialBalance \/ AskAccrualTrialBalance
    \/ AskProfitAndLoss \/ AskBalanceSheet

Spec == Init /\ [][Next]_vars

--------------------------------------------------------------------------------
Succeeded(kinds) ==
    report.kind \in kinds /\ report.result.error = "none"

\* Reports exist only of a ledger that was built, and a built ledger has
\* accounts for all its postings and no posting twice.
TypeOK ==
    /\ report.kind # "none" => ledger = "built"
    /\ ledger = "built" =>
          /\ \A k \in DOMAIN postings : postings[k].account \in Ids
          /\ \A j, k \in DOMAIN postings :
                 j # k => postings[j].id # postings[k].id /\ postings[j].row # postings[k].row

\* The last-line checks never fire: once every transaction of the General
\* Ledger balances, no roll-forward and no grouping into sections unbalances a
\* Trial Balance or a Balance Sheet.
LastChecksNeverFire ==
    report.kind # "none" =>
        report.result.error \notin {"UnbalancedLedger", "UnbalancedBalanceSheet"}

\* A ledger that could be built holds together, so that no report of it ends in
\* the checks that were meant for one that does not.
BuiltLedgerHolds == TypeOK /\ LastChecksNeverFire

\* The Balance Sheet's current-year net income is the Profit and Loss of the
\* same fiscal year, and both together with the roll-forward lose nothing: the
\* equity of Retained Earnings is what was posted to it and all earlier income.
StatementsAgree ==
    Succeeded({"BalanceSheet"}) =>
        LET q == report.request
            pl == ProfitAndLoss(postings, q.from, q.asOf, q.zeros)
            earlier == {k \in Entries(postings, q.asOf) : postings[k].date < q.from}
        IN /\ pl.error \in {"none", "AmountOverflow"}
           /\ pl.error = "none" =>
                 pl.amounts.netIncome = report.result.amounts.currentYearNetIncome
           /\ AccrualBalances(postings, q.asOf, q.from, q.re)[q.re] =
                 Balances(postings, q.asOf)[q.re]
                 + Sum(postings, {k \in earlier :
                       IsProfitAndLoss(Account(postings[k].account).type)})

\* History is stable: rows dated after the cutoff, resolved or not, do not
\* change a report, nor turn it into an error.
HistoryIsStable ==
    report.kind # "none" =>
        LET past == {k \in DOMAIN postings : postings[k].date <= report.request.asOf}
        IN report.result = Evaluate([k \in past |-> postings[k]], report.request)

\* Fail closed: a report that is given out rests on complete data, in which
\* every row up to the cutoff is resolved and every transaction balances, and
\* obsolete or deleted rows have no part in it.
ReportsRestOnProof ==
    Succeeded({"GeneralLedger", "TrialBalance", "AccrualTrialBalance", "ProfitAndLoss",
               "BalanceSheet"}) =>
        LET upTo == {k \in DOMAIN postings : postings[k].date <= report.request.asOf}
            live == {k \in upTo : postings[k].state = "Current"}
        IN /\ completeness = "Complete"
           /\ \A k \in upTo : postings[k].state # "Ambiguous"
           /\ \A k \in live :
                 Sum(postings, {j \in live : postings[j].txn = postings[k].txn}) = 0
           /\ report.kind = "GeneralLedger" =>
                 report.result.entries = {postings[k].id : k \in live}

\* Nothing wraps: every amount given out fits the output width, so does the
\* credit that a Trial Balance shows for a negative balance, and the totals of a
\* statement fit although its rows alone would.
AmountsFit ==
    /\ Succeeded({"TrialBalance", "AccrualTrialBalance"}) =>
          \A a \in DOMAIN report.result.rows :
              Fits(report.result.rows[a]) /\ Fits(-report.result.rows[a])
    /\ Succeeded({"ProfitAndLoss", "BalanceSheet"}) =>
          /\ \A a \in DOMAIN report.result.rows : Fits(report.result.rows[a])
          /\ \A key \in DOMAIN report.result.amounts : Fits(report.result.amounts[key])
================================================================================
