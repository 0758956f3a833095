---------------------------- MODULE TableCollection ----------------------------
(****************************************************************************)
(* The collectors of enterprise24_accounting_pipeline.rs: what becomes of   *)
(* the physical rows of one table.  A raw page may have several             *)
(* materialization candidates, each a directory of row images; nothing may  *)
(* choose between them.  A collector turns a scan into retained rows and a  *)
(* coverage record, by which `complete` decides whether the table is used.  *)
(*                                                                          *)
(* Slots do not depend on each other, so a collector is one step over all   *)
(* of them, and its counters are cardinalities; the walk over the Bill      *)
(* carriers follows (BillCarriers).                                         *)
(****************************************************************************)
EXTENDS BillCarriers, Sequences

CONSTANTS
    Scans,         \* of each kind of collection: the scans it may be given
    HeaderScans,   \* and the scans of the Bill header table beside them
    Expectations,  \* what SYSTABLE says: logical rows, pages, external pages
    Bad,           \* what a parser returns that rejects an image
    Absent,        \* a zero entry of a directory
    Nowhere        \* the locator of an image that does not forward

\* A scan is finite, a page has a candidate at least, and records are numbered.
ASSUME ScansAssumption ==
    \A k \in {"closed", "prefix", "bill", "lifecycle", "context", "check", "journal"} :
        \A s \in Scans[k] :
            /\ IsFiniteSet(DOMAIN s)
            /\ \A p \in DOMAIN s :
                  /\ IsFiniteSet(DOMAIN s[p]) /\ 1 \in DOMAIN s[p]
                  /\ \A c \in DOMAIN s[p] :
                        /\ IsFiniteSet(DOMAIN s[p][c])
                        /\ \A n \in DOMAIN s[p][c] :
                              LET x == s[p][c][n] IN
                              x # Absent /\ x.prefix # Bad => x.prefix.target \in Nat \cup {Null}

ASSUME ExpectationsAssumption ==
    Expectations \subseteq [logical : Nat, pages : Nat, external : Nat]

\* A policy that is not Partial has a collection of its own.
Kinds == {"closed", "prefix", "bill", "lifecycle", "context", "check", "journal"}

VARIABLES kind, scan, headerScan, expected, coverage

inputs == <<kind, scan, headerScan, expected>>
vars == <<inputs, coverage, rows, carriers, headers, pc, walkVars>>

NoCoverage == [result |-> "none"]

Init ==
    /\ kind \in Kinds
    /\ scan \in Scans[kind]
    /\ headerScan \in HeaderScans[kind]
    /\ expected \in Expectations
    /\ coverage = NoCoverage
    /\ rows = <<>> /\ carriers = <<>> /\ headers = {}
    /\ pc = "start"
    /\ todo = {} /\ current = Null /\ path = {} /\ classified = <<>>

--------------------------------------------------------------------------------
(* candidate_directory_consensus *)

\* The slots of all pages of a scan s: <<page, record>>.
Declared(s, p) == UNION {DOMAIN s[p][c] : c \in DOMAIN s[p]}
Slots(s) == UNION {{p} \X Declared(s, p) : p \in DOMAIN s}

Candidates(s, l) == DOMAIN s[l[1]]
InRange(s, c, l) == l[2] \in DOMAIN s[l[1]][c]
Present(s, c, l) == InRange(s, c, l) /\ s[l[1]][c][l[2]] # Absent

Common(s) == {l \in Slots(s) : \A c \in Candidates(s, l) : Present(s, c, l)}

AgreedEmpty(s) ==
    {l \in Slots(s) : \A c \in Candidates(s, l) : InRange(s, c, l) /\ ~Present(s, c, l)}

\* Mutant: only slots within every directory are compared.
DisagreementInRange(s) ==
    {l \in Slots(s) :
        /\ \A c \in Candidates(s, l) : InRange(s, c, l)
        /\ \E b, c \in Candidates(s, l) : Present(s, b, l) /\ ~Present(s, c, l)}

\* Beyond the shortest directory, or there in one and not in another.
Disagreement(s) ==
    {l \in Slots(s) :
        \E b, c \in Candidates(s, l) :
            ~InRange(s, b, l) \/ (Present(s, b, l) /\ ~Present(s, c, l))}

\* The images of a slot, and the one of the first candidate.
Images(s, l) == {s[l[1]][c][l[2]] : c \in Candidates(s, l)}
First(s, l) == s[l[1]][1][l[2]]

Parse(C, field) == \A x \in C : x[field] # Bad
Agree(C, field) == \A x, y \in C : x[field] = y[field]

--------------------------------------------------------------------------------
(* What each collector makes of a slot.  A failure is an unresolved record   *)
(* that is counted as a decode failure too.                                  *)

PrefixOutcome(l) ==
    LET C == Images(scan, l) IN
    IF ~Parse(C, "prefix") THEN "failure"
    ELSE IF Agree(C, "prefix") THEN "row" ELSE "unresolved"

\* Mutant: only the parser is asked, the postings are not compared.
BillOutcomeFirst(l) ==
    LET C == Images(scan, l) IN
    IF Parse(C, "posting") THEN "row"
    ELSE IF Agree(C, "forward") /\ First(scan, l).forward # Nowhere THEN "alias"
    ELSE "failure"

\* An image that is no posting is a forwarding alias, or external text if it is
\* all there is on its page.
BillOutcome(l) ==
    LET C == Images(scan, l)
        isolated == DOMAIN scan[l[1]] = {1} /\ DOMAIN scan[l[1]][1] = {1}
    IN IF Parse(C, "posting")
       THEN IF ~Agree(C, "posting") THEN "unresolved"
            ELSE IF kind = "lifecycle" THEN
                 IF Parse(C, "prefix") /\ Agree(C, "prefix") THEN "row" ELSE "failure"
            ELSE "row"
       ELSE IF Agree(C, "forward") /\ First(scan, l).forward # Nowhere THEN "alias"
       ELSE IF isolated /\ First(scan, l).text THEN "text"
       ELSE "failure"

\* With the Bill schema and header witnesses: no aliases and no text, but
\* carriers.  The framing is looked at in the first candidate only.
ContextOutcome(l) ==
    LET C == Images(scan, l) IN
    IF ~Parse(C, "prefix") THEN "failure"
    ELSE IF ~Agree(C, "prefix") THEN "unresolved"
    ELSE IF Parse(C, "posting") THEN
         IF Agree(C, "posting") THEN "row" ELSE "unresolved"
    ELSE IF First(scan, l).kind64 THEN "carrier" ELSE "failure"

\* A void companion is a row too, but not one with a prefix.
CheckOutcome(l) ==
    LET C == Images(scan, l)
        companions == {x \in C : x.companion # Bad}
    IN IF companions = C
       THEN IF Agree(C, "companion") THEN "companion" ELSE "unresolved"
       ELSE IF companions # {} \/ ~Parse(C, "prefix") THEN "failure"
       ELSE IF Agree(C, "prefix") THEN "row" ELSE "unresolved"

JournalOutcome(l) ==
    LET C == Images(scan, l) IN
    IF \E x, y \in C : x # y THEN "unresolved"
    ELSE IF First(scan, l).forward # Nowhere THEN "alias" ELSE "row"

Outcome(l) ==
    CASE kind = "prefix" -> PrefixOutcome(l)
      [] kind \in {"bill", "lifecycle"} -> BillOutcome(l)
      [] kind = "context" -> ContextOutcome(l)
      [] kind = "check" -> CheckOutcome(l)
      [] kind = "journal" -> JournalOutcome(l)

SlotsOf(o) == {l \in Common(scan) : Outcome(l) = o}
Retained == SlotsOf("row") \cup SlotsOf("companion")

--------------------------------------------------------------------------------
(* Coverage *)

Destination(l) == First(scan, l).forward

\* Mutant: two aliases may lead to one row.
AliasesValidShared ==
    \A l \in SlotsOf("alias") :
        LET d == Destination(l) IN
        /\ d # l /\ d \in Retained
        /\ First(scan, d).forward = Nowhere /\ First(scan, d).posting # Bad

\* validate_forwarding_aliases: all of them or none.
AliasesValid ==
    \A l \in SlotsOf("alias") :
        LET d == Destination(l) IN
        /\ d # l /\ d \in Retained
        /\ First(scan, d).forward = Nowhere /\ First(scan, d).posting # Bad
        /\ \A m \in SlotsOf("alias") : Destination(m) = d => m = l

\* The aliases count as failures if one of them does not hold.
AliasLosses == IF AliasesValid THEN {} ELSE SlotsOf("alias")

\* Mutant: refused aliases are not counted.
LossesOfRows == SlotsOf("failure") \cup SlotsOf("unresolved")

Losses == SlotsOf("failure") \cup SlotsOf("unresolved") \cup AliasLosses

ExpectedPages == expected.pages + expected.external

TextAccepted ==
    /\ Cardinality(SlotsOf("text")) = 1 /\ expected.external = 1
    /\ Cardinality(DOMAIN scan) = ExpectedPages
    /\ Cardinality(Retained) = expected.logical
    /\ Losses = {} /\ Disagreement(scan) = {}

TextLosses == IF TextAccepted THEN {} ELSE SlotsOf("text")

ZeroSlotGroups == {p \in DOMAIN scan : Declared(scan, p) = {}}

Surplus ==
    /\ kind = "journal"
    /\ Cardinality(DOMAIN scan) = ExpectedPages + 1
    /\ ZeroSlotGroups # {}
    /\ Retained # {} /\ Cardinality(Retained) = expected.logical
    /\ Losses = {} /\ Disagreement(scan) = {}

Coverage ==
    [result |-> "collected",
     groups |-> Cardinality(DOMAIN scan),
     resolved |-> Cardinality(Retained),
     unresolved |-> Cardinality(Losses) + Cardinality(TextLosses),
     failures |-> Cardinality(SlotsOf("failure")) + Cardinality(AliasLosses)
                  + Cardinality(TextLosses),
     missing |-> Cardinality(AgreedEmpty(scan)),
     disagreements |-> Cardinality(Disagreement(scan)),
     aliases |-> IF AliasesValid THEN Cardinality(SlotsOf("alias")) ELSE 0,
     nonRows |-> Cardinality(SlotsOf("companion"))
                 + (IF AliasesValid THEN Cardinality(SlotsOf("alias")) ELSE 0),
     texts |-> IF TextAccepted THEN 1 ELSE 0,
     carriers |-> 0,
     surplus |-> IF Surplus THEN 1 ELSE 0]

\* Enterprise24PartialTableCoverage::complete.
Complete ==
    /\ coverage.result = "collected" /\ kind # "closed"
    /\ coverage.unresolved = 0 /\ coverage.failures = 0 /\ coverage.disagreements = 0
    /\ coverage.resolved + coverage.carriers = expected.logical
    /\ coverage.carriers = 0 \/ kind \in {"bill", "lifecycle", "context"}
    /\ \/ coverage.surplus = 0
       \/ kind = "journal" /\ coverage.surplus = 1 /\ coverage.resolved > 0
    /\ ExpectedPages + coverage.surplus = coverage.groups

--------------------------------------------------------------------------------
(* The collectors *)

Start(k) == pc = "start" /\ kind = k /\ UNCHANGED inputs

Collected ==
    /\ pc' = "done"
    /\ rows' = [l \in Retained |-> First(scan, l)]
    /\ coverage' = Coverage
    /\ UNCHANGED <<carriers, headers, walkVars>>

\* A policy without row layout: nothing is read, and complete() is false.
CollectClosed ==
    /\ Start("closed")
    /\ pc' = "done"
    /\ coverage' = [NoCoverage EXCEPT !.result = "collected"]
    /\ UNCHANGED <<rows, carriers, headers, walkVars>>

CollectPrefix == Start("prefix") /\ Collected
CollectBill == Start("bill") /\ Collected
CollectLifecycle == Start("lifecycle") /\ Collected
CollectCheck == Start("check") /\ Collected
CollectJournal == Start("journal") /\ Collected

\* collect_enterprise24_bill_header_master_witnesses: any doubt is an error.
HeaderMasters == {First(headerScan, l).header : l \in Common(headerScan)}
HeadersFail ==
    \/ Disagreement(headerScan) # {}
    \/ \E l \in Common(headerScan) :
          \/ ~Parse(Images(headerScan, l), "header") \/ ~Agree(Images(headerScan, l), "header")
          \/ \E m \in Common(headerScan) \ {l} :
                First(headerScan, m).header = First(headerScan, l).header

RefuseHeaders ==
    /\ Start("context") /\ HeadersFail
    /\ pc' = "done"
    /\ coverage' = [NoCoverage EXCEPT !.result = "headersFailed"]
    /\ UNCHANGED <<rows, carriers, headers, walkVars>>

CollectContext ==
    /\ Start("context") /\ ~HeadersFail
    /\ pc' = "walking"
    /\ headers' = HeaderMasters
    /\ rows' = [l \in Retained |-> First(scan, l)]
    /\ carriers' = [l \in SlotsOf("carrier") |-> First(scan, l)]
    /\ coverage' = Coverage
    /\ todo' = Nodes'
    /\ UNCHANGED <<current, path, classified>>

AcceptedCarriers == {l \in DOMAIN carriers : carriers[l].prefix.target \in Accepted}

\* Each pending carrier is counted with the non-rows or the failures.
CountCarriers ==
    /\ Walked
    /\ pc' = "done"
    /\ LET n == Cardinality(AcceptedCarriers)
           lost == Cardinality(DOMAIN carriers \ AcceptedCarriers)
       IN coverage' = [coverage EXCEPT !.nonRows = @ + n, !.carriers = n,
                                      !.failures = @ + lost, !.unresolved = @ + lost]
    /\ UNCHANGED <<inputs, rows, carriers, headers, walkVars>>

Done == pc = "done" /\ UNCHANGED vars

Next ==
    \/ CollectClosed \/ CollectPrefix \/ CollectBill \/ CollectLifecycle
    \/ CollectCheck \/ CollectJournal \/ RefuseHeaders \/ CollectContext
    \/ Walk /\ UNCHANGED <<inputs, coverage>>
    \/ CountCarriers \/ Done

Spec == Init /\ [][Next]_vars

--------------------------------------------------------------------------------
\* Rows and carriers are slots of the scan that every candidate has, and a walk
\* is never elsewhere than on a node.
TypeOK ==
    /\ pc \in {"start", "walking", "done"}
    /\ DOMAIN rows \cup DOMAIN carriers \subseteq Common(scan)
    /\ DOMAIN rows \cap DOMAIN carriers = {}
    /\ todo \subseteq Nodes /\ current \in Nodes \cup {Null}
    /\ path \subseteq Nodes /\ DOMAIN classified \subseteq Nodes
    /\ pc = "start" <=> coverage = NoCoverage

\* What a collector claims to know of an image.
SameMeaning(x, y) ==
    CASE kind = "journal" -> x = y
      [] kind = "bill" -> x.posting = y.posting
      [] kind \in {"lifecycle", "context"} -> x.posting = y.posting /\ x.prefix = y.prefix
      [] kind = "check" -> x.companion = y.companion /\ (y.companion = Bad => x.prefix = y.prefix)
      [] OTHER -> x.prefix = y.prefix

\* Why an image x at slot l need not be a row.
NeedNotBeRow(l, x) ==
    \/ /\ x.forward # Nowhere /\ x.forward # l /\ x.forward \in DOMAIN rows
       /\ \A m \in Common(scan) \ DOMAIN rows :
             First(scan, m).forward = x.forward => m = l
    \/ l \in DOMAIN carriers /\ carriers[l].prefix.target \in Accepted
    \/ x.text /\ expected.external = 1 /\ coverage.texts = 1

\* Fail closed: when a table counts as complete, no image in any candidate of
\* any of its pages is lost or was chosen among several.  Every candidate has
\* it, and it is a retained row with the same meaning in all, or the only
\* forwarding to such a row, a proven carrier, or the one external text.
CompleteLosesNothing ==
    pc = "done" /\ Complete =>
        \A l \in Slots(scan) : \A c \in Candidates(scan, l) :
            Present(scan, c, l) =>
                LET x == scan[l[1]][c][l[2]]
                IN /\ \A b \in Candidates(scan, l) : Present(scan, b, l)
                   /\ \/ l \in DOMAIN rows /\ SameMeaning(x, rows[l])
                      \/ NeedNotBeRow(l, x)

\* No slot is counted twice and none is left out, whatever mixture of rows,
\* failures, refused aliases, text and carriers a scan holds.
EverySlotCounted ==
    pc = "done" /\ coverage.result = "collected" /\ kind # "closed" =>
        coverage.resolved + coverage.unresolved + coverage.aliases + coverage.texts
            + coverage.carriers = Cardinality(Common(scan))

\* No page with a record hides behind the certified empty surplus page: of a
\* complete table, at most as many pages as SYSTABLE knows have records.
SurplusIsEmpty ==
    pc = "done" /\ Complete =>
        Cardinality({l[1] : l \in {l \in Slots(scan) :
                                      \E c \in Candidates(scan, l) : Present(scan, c, l)}})
            <= ExpectedPages

\* A table called complete hides nothing, in its counts or behind its surplus page.
CountsHideNothing == EverySlotCounted /\ SurplusIsEmpty
================================================================================
