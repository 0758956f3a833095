------------------------------ MODULE Reconciliation ------------------------------
(****************************************************************************)
(* The reports of QuickBooks itself, read from their CSV exports, against    *)
(* those of the program.  The label of an account is a text, a sequence of   *)
(* words; ":" and "dot", the middle dot between blanks, are words of their    *)
(* own, and the Numerals are the words of digits alone.  A cell that holds    *)
(* money is an integer, Null when it is empty, or Bad.                        *)
(****************************************************************************)
EXTENDS Integers, FiniteSets, SequencesExt, CalendarValues

CONSTANTS MaxCents, Bad, Numerals

Cents(c) == IF c = Null THEN 0 ELSE c
Fits(n) == n \in (-MaxCents - 1)..MaxCents
Refuse(why) == [refused |-> why]

\* Mutant: whatever stands before a dot is a number.
NumberedByDot(text) == Len(text) > 2 /\ text[2] = "dot"
Numbered(text) == Len(text) > 2 /\ text[1] \in Numerals /\ text[2] = "dot"
\* canonical_native_account_full_name: a number goes if it has digits only, any
\* other one stays; so does what is behind the first dot.
Canonical(text) == IF Numbered(text) THEN SubSeq(text, 3, Len(text)) ELSE text

TotalRow(text) == text # <<>> /\ text[1] = "total"

--------------------------------------------------------------------------------
(* Trial balances.                                                           *)

Debits(b) == MapThenSumSet(LAMBDA a : b[a], {a \in DOMAIN b : b[a] >= 0})
Credits(b) == MapThenSumSet(LAMBDA a : -b[a], {a \in DOMAIN b : b[a] < 0})

\* TrialBalance::from_balances, of a sequence of <<account, balance>>
FromBalances(rows) ==
    LET names == {rows[i][1] : i \in DOMAIN rows}
        b == [a \in names |-> rows[CHOOSE i \in DOMAIN rows : rows[i][1] = a][2]]
    IN CASE \E i \in DOMAIN rows : rows[i][1] = <<>> -> Refuse("EmptyAccountName")
         [] (\A i \in DOMAIN rows : rows[i][1] # <<>>) /\ Cardinality(names) < Len(rows) -> Refuse("DuplicateAccount")
         [] /\ Cardinality(names) = Len(rows) /\ <<>> \notin names
            /\ (~Fits(Debits(b)) \/ ~Fits(Credits(b))) -> Refuse("AmountOverflow")
         [] OTHER -> [refused |-> Null, balances |-> b]

\* parse_quickbooks_trial_balance_csv_rows: rows without amounts, totals and zero
\* balances say nothing.
Told(rows) ==
    SelectSeq(rows, LAMBDA r : r.account # <<>> /\ ~TotalRow(r.account) /\ ~(r.debit = Null /\ r.credit = Null))
NativeTrialBalance(rows) ==
    LET told == Told(rows)
        net == [i \in DOMAIN told |-> <<Canonical(told[i].account), Cents(told[i].debit) - Cents(told[i].credit)>>]
        kept == SelectSeq(net, LAMBDA x : x[2] # 0)
    IN IF \E i \in DOMAIN told : Bad \in {told[i].debit, told[i].credit} THEN Refuse("InvalidAmount")
       ELSE IF \E i \in DOMAIN told : ~Fits(net[i][2]) THEN Refuse("AmountOverflow")
       ELSE IF kept = <<>> THEN Refuse("NoAccountRows") ELSE FromBalances(kept)

\* parse_normalized_trial_balance_csv_rows: each row accounts for itself.
RowRefusal(r) ==
    IF r.account = <<>> THEN "EmptyAccountName"
    ELSE IF Bad \in {r.debit, r.credit, r.net} \/ Cents(r.debit) < 0 \/ Cents(r.credit) < 0
    THEN "InvalidNormalizedCents"
    ELSE IF r.net = Null THEN "MissingNormalizedCents"
    ELSE IF Cents(r.debit) - Cents(r.credit) # r.net THEN "InconsistentNormalizedRow" ELSE Null
GeneratedTrialBalance(rows) ==
    LET told == SelectSeq(rows, LAMBDA r : {r.account} # {<<>>} \/ {r.debit, r.credit, r.net} # {Null})
        failing == {i \in DOMAIN told : RowRefusal(told[i]) # Null}
    IN IF failing # {} THEN Refuse(RowRefusal(told[CHOOSE i \in failing : \A j \in failing : i <= j]))
       ELSE IF told = <<>> THEN Refuse("NoAccountRows")
       ELSE FromBalances([i \in DOMAIN told |-> <<Canonical(told[i].account), told[i].net>>])

\* reconcile_trial_balances, of the balances of the reference and of the program
Reconciled(ref, actual) ==
    LET at(b, a) == IF a \in DOMAIN b THEN b[a] ELSE 0
        accounts == DOMAIN ref \cup DOMAIN actual
    IN [missing |-> DOMAIN ref \ DOMAIN actual, extra |-> DOMAIN actual \ DOMAIN ref,
        mismatched |-> {a \in DOMAIN ref \cap DOMAIN actual : actual[a] # ref[a]},
        variance |-> [a \in accounts |-> at(actual, a) - at(ref, a)],
        debits |-> Debits(actual) - Debits(ref), credits |-> Credits(actual) - Credits(ref),
        balanced |-> Debits(ref) = Credits(ref) /\ Debits(actual) = Credits(actual)]
\* Mutant: the totals of the same accounts are compared.
PassesOnTotals(r) ==
    r.missing = {} /\ r.extra = {} /\ r.balanced /\ r.debits = 0 /\ r.credits = 0
Passes(r) ==
    /\ r.missing = {} /\ r.extra = {} /\ r.mismatched = {} /\ r.balanced
    /\ r.debits = 0 /\ r.credits = 0 /\ \A a \in DOMAIN r.variance : r.variance[a] = 0

--------------------------------------------------------------------------------
(* General ledgers.  A row of the export without a date is a heading.        *)

\* parse_desktop_date: the one reading of a year in the range of the report.
DesktopDate(text, from, through) ==
    LET years == CASE text.digits = 2 -> {1900 + text.year, 2000 + text.year}
                   [] text.digits = 4 -> {text.year} [] OTHER -> {}
        days == {FromYmd(y, text.month, text.day) : y \in years}
        within == {x.day : x \in {z \in days : z.refused = Null /\ z.day \in from..through}}
    IN CASE years = {} \/ \E x \in days : x.refused # Null -> Refuse("InvalidDate")
         [] years # {} /\ (\A x \in days : x.refused = Null) /\ within = {} -> Refuse("DateOutsideReportRange")
         [] Cardinality(within) > 1 /\ \A x \in days : x.refused = Null -> Refuse("AmbiguousTwoDigitYear")
         [] OTHER -> [refused |-> Null, day |-> CHOOSE d \in within : TRUE]

\* The headings before the postings of a section name it, one without a number
\* below the last one with a number; a total ends it.
SectionEnd(text) == TotalRow(text) /\ (Len(text) = 1 \/ text[2] # ":")
Heading(s, row) ==
    LET label == Canonical(row.label) IN
    CASE SectionEnd(row.label) -> [s EXCEPT !.account = Null, !.posted = FALSE]
      [] ~SectionEnd(row.label) /\ row.label # <<>> /\ ~s.posted ->
            IF Numbered(row.label) THEN [s EXCEPT !.ancestor = label, !.account = label]
            ELSE [s EXCEPT !.account = IF s.ancestor = Null THEN label ELSE s.ancestor \o <<":">> \o label]
      [] OTHER -> s

Dated(s, row, from, through) ==
    LET date == DesktopDate(row.date, from, through)
        cents == Cents(row.debit) - Cents(row.credit)
        fail(why) == [s EXCEPT !.refused = why]
    IN IF s.account = Null THEN fail("PostingWithoutAccount")
       ELSE IF date.refused # Null THEN fail(date.refused)
       ELSE IF Bad \in {row.debit, row.credit} THEN fail("InvalidMoney")
       ELSE IF Cents(row.debit) # 0 /\ Cents(row.credit) # 0 THEN fail("BothDebitAndCredit")
       ELSE IF cents = 0 THEN [s EXCEPT !.zeros = @ + 1]
       ELSE [s EXCEPT !.posted = TRUE,
                      !.postings = Append(@, [date |-> date.day, account |-> s.account, cents |-> cents,
                                              type |-> row.type])]

\* parse_quickbooks_general_ledger_csv
NativeLedger(rows, from, through) ==
    LET start == [refused |-> Null, account |-> Null, ancestor |-> Null, posted |-> FALSE,
                  postings |-> <<>>, zeros |-> 0]
        f[i \in 0..Len(rows)] ==
            IF i = 0 THEN start
            ELSE IF f[i-1].refused # Null THEN f[i-1]
            ELSE IF rows[i].date = Null THEN Heading(f[i-1], rows[i])
            ELSE Dated(f[i-1], rows[i], from, through)
        end == f[Len(rows)]
    IN IF from > through THEN Refuse("InvalidDateRange")
       ELSE IF end.refused # Null THEN Refuse(end.refused)
       ELSE IF end.postings = <<>> THEN Refuse("NoPostingRows")
       ELSE [refused |-> Null, postings |-> end.postings, zeros |-> end.zeros]

\* parse_generated_general_ledger_csv
GeneratedRefusal(r, from, through) ==
    CASE <<>> = r.account \/ Null \in {r.day, r.cents} -> "MalformedGeneratedRow"
      [] <<>> # r.account /\ Null \notin {r.day, r.cents} ->
            IF r.day = Bad THEN "InvalidDate"
            ELSE IF r.day \notin from..through THEN "DateOutsideReportRange"
            ELSE IF r.cents = Bad THEN "InvalidGeneratedCents"
            ELSE IF r.cents = 0 THEN "GeneratedZeroMovement" ELSE Null
GeneratedLedger(rows, from, through) ==
    LET told == SelectSeq(rows, LAMBDA r : r.account # <<>> \/ r.day # Null \/ r.cents # Null)
        failing == {i \in DOMAIN told : GeneratedRefusal(told[i], from, through) # Null}
    IN IF failing # {}
       THEN Refuse(GeneratedRefusal(told[CHOOSE i \in failing : \A j \in failing : i <= j], from, through))
       ELSE IF told = <<>> THEN Refuse("NoPostingRows")
       ELSE [refused |-> Null,
             postings |-> [i \in DOMAIN told |-> [date |-> told[i].day, account |-> Canonical(told[i].account),
                                                  cents |-> told[i].cents, type |-> told[i].type]]]

\* normalized_comparison_type
ComparedType(t) ==
    CASE t \in {"journal", "general journal"} -> "general journal"
      [] t \in {"vendor credit", "credit"} -> "credit"
      [] t \in {"bill payment check", "bill pmt-check"} -> "bill pmt-check"
      [] OTHER -> t

CountOf(seq, x) == Cardinality({i \in DOMAIN seq : seq[i] = x})
Matched(left, right) ==
    MapThenSumSet(LAMBDA x : IF CountOf(left, x) <= CountOf(right, x) THEN CountOf(left, x) ELSE CountOf(right, x),
                  ToSet(left))

\* reconcile_general_ledger_postings: types count only if every posting has one.
ReconciledLedgers(native, generated) ==
    LET typed == /\ native # <<>> /\ generated # <<>>
                 /\ \A p \in ToSet(native) \cup ToSet(generated) : p.type # Null
        key(p) == <<p.date, p.account, p.cents, IF typed THEN ComparedType(p.type) ELSE Null>>
        left == [i \in DOMAIN native |-> key(native[i])]
        right == [i \in DOMAIN generated |-> key(generated[i])]
        day(s) == [i \in DOMAIN s |-> <<s[i].date, s[i].cents>>]
        accounts(s) == {p.account : p \in ToSet(s)}
    IN [matching |-> Matched(left, right), missing |-> Len(left) - Matched(left, right),
        extra |-> Len(right) - Matched(left, right), byDay |-> Matched(day(native), day(generated)),
        shared |-> Cardinality(accounts(native) \cap accounts(generated)), typed |-> typed]

--------------------------------------------------------------------------------
(* Which account a section of the export is.  The chart is a sequence of     *)
(* [id, name, display, payable]; full has the full name of each id.           *)

\* More than one account; like Bad, no other value.
Ambiguous == Bad
NamedBy(chart, label) == {a \in ToSet(chart) : a.name = label}
Leaf(name) == SubSeq(name, SelectLastInSeq(name, LAMBDA word : word = ":") + 1, Len(name))
One(found, otherwise) ==
    CASE found = {} -> Null [] Cardinality(found) = 1 -> (CHOOSE a \in found : TRUE).id [] OTHER -> otherwise

\* The name has lost its number already, and loses another one here.
ByDisplay(name, chart) == One({a \in ToSet(chart) : Canonical(a.display) = Canonical(name)}, Ambiguous)
ByName(name, chart) ==
    LET whole == NamedBy(chart, Canonical(name))
    IN One(IF whole # {} THEN whole ELSE NamedBy(chart, Leaf(Canonical(name))), Ambiguous)
\* A section of what is not in the subaccounts of an account, "<name> - Other".
Other == <<"-", "Other">>
ByOther(name, chart) ==
    LET text == Canonical(name) IN
    IF IsSuffix(Other, text) /\ text # Other THEN One(NamedBy(chart, SubSeq(text, 1, Len(text) - 2)), Null)
    ELSE Null

\* resolve_native_account_sections_with_chart, for one section
Resolution(name, full, chart) ==
    LET ways == <<ByDisplay(name, chart), ByName(name, chart), ByOther(name, chart)>>
        found == SelectSeq(ways, LAMBDA x : x # Null)
    IN CASE name \in Range(full) -> name
         [] name \notin Range(full) /\ found # <<>> -> IF found[1] = Ambiguous THEN Ambiguous ELSE full[found[1]]
         [] OTHER -> IF Leaf(name) \in Range(full) THEN Leaf(name) ELSE name

\* normalize_ap_control_transaction_type
ControlType(t) ==
    CASE t \in {"bill", "BillLine"} -> "bill"
      [] t \in {"bill pmt-check", "BillPaymentLine"} -> "bill-pmt-check"
      [] t \in {"credit", "vendor credit"} -> "credit"
      [] t \in {"general journal", "check", "deposit"} -> t
      [] OTHER -> Null

\* resolve_accounts_payable_control_section: bills and their payments are those
\* of the one payable account whose movements they are.
Movements(postings) == [i \in DOMAIN postings |-> <<postings[i].date, ControlType(postings[i].type), postings[i].cents>>]
SameBag(s, t) == Len(s) = Len(t) /\ \A x \in ToSet(s) : CountOf(s, x) = CountOf(t, x)
ControlAccount(section, chart, entries) ==
    LET types == {ControlType(p.type) : p \in ToSet(section)}
        of(a) == SelectSeq(entries, LAMBDA e : e.id = a.id)
        fits(a) == /\ a.payable
                   /\ \A e \in ToSet(of(a)) : ControlType(e.type) # Null
                   /\ SameBag(Movements(of(a)), Movements(section))
        found == {a \in ToSet(chart) : fits(a)}
    IN CASE Null \in types \/ ~({"bill", "bill-pmt-check"} \subseteq types) -> "UnresolvedNativeAccountSection"
         [] Null \notin types /\ {"bill", "bill-pmt-check"} \subseteq types /\ found = {} -> "NoAccountsPayableControlMatch"
         [] OTHER -> IF Cardinality(found) = 1 THEN (CHOOSE a \in found : TRUE).id ELSE Ambiguous

ResolvedSections(native, full, chart, entries) ==
    LET named == [i \in DOMAIN native |-> Resolution(native[i].account, full, chart)]
        failing == \E i \in DOMAIN native : named[i] = Ambiguous
        section(name) == SelectSeq(native, LAMBDA p : Resolution(p.account, full, chart) = name)
        control(name) == ControlAccount(section(name), chart, entries)
        open == {named[i] : i \in DOMAIN native} \ Range(full)
    IN IF failing THEN Refuse("AmbiguousNativeAccountSection")
       ELSE IF \E n \in open : control(n) \notin DOMAIN full
            THEN Refuse(control(CHOOSE n \in open : control(n) \notin DOMAIN full))
       ELSE [refused |-> Null,
             postings |-> [i \in DOMAIN native |->
                [native[i] EXCEPT !.account = IF named[i] \in open THEN full[control(named[i])] ELSE named[i]]]]
================================================================================
