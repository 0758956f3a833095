-------------------------- MODULE JournalClassification --------------------------
(****************************************************************************)
(* How the rows of the General Journal table are classified together.  A    *)
(* row that no posting grammar takes is set aside as metadata only when the *)
(* other rows explain it: a lone terminal row or a chain of auxiliary rows  *)
(* beside a balanced entry, a source whose links lead to a row of its own   *)
(* master and date, or a header row that a witness of another table names.  *)
(*                                                                          *)
(* A row has the kind that JournalRows gives it, its target, master, date,  *)
(* view, account and next (0 for none) and the cents and lifecycle of a     *)
(* posting.  Of an auxiliary row, linked is its link flag, amount whether a *)
(* posting grammar finds an amount, token whether any place spells one and  *)
(* collision what the fixed place of the family holds; header is whether a  *)
(* source has one of the two header layouts.                                *)
(****************************************************************************)
EXTENDS Integers, Sequences, FiniteSetsExt

CONSTANT Nothing

RowsOf(rows, kinds) == {i \in DOMAIN rows : rows[i].kind \in kinds}
Postings(rows) == RowsOf(rows, {"posting"})
Zeros(rows) == RowsOf(rows, {"zero"})
Sources(rows) == RowsOf(rows, {"source"})
Auxiliaries(rows) == RowsOf(rows, {"auxiliary"})

Unique(rows, S) == \A i, j \in S : rows[i].target = rows[j].target => i = j
SameEntry(r, s) == r.master = s.master /\ r.date = s.date

\* Entries of one kind are kept by target; a posting and a zero may share one.
RowsDistinct(rows) == Unique(rows, Postings(rows)) /\ Unique(rows, Zeros(rows))

MasterCents(rows, master) ==
    MapThenSumSet(LAMBDA i : rows[i].cents, {i \in Postings(rows) : rows[i].master = master})
Balanced(rows, master) == MasterCents(rows, master) = 0

--------------------------------------------------------------------------------
(* Auxiliary rows: by master, date and view, alone or in a chain.            *)

AuxKey(r) == <<r.master, r.date, r.view>>
Group(rows, i) == {j \in Auxiliaries(rows) : AuxKey(rows[j]) = AuxKey(rows[i])}
AuxTargets(rows) == {rows[j].target : j \in Auxiliaries(rows)}

AuxiliariesDistinct(rows) ==
    /\ \A i \in Auxiliaries(rows) : rows[i].target # 0
    /\ Unique(rows, Auxiliaries(rows) \cup Postings(rows)) 

\* The one entry of its master and date whose account the lone row names.
Explains(rows, i) ==
    {j \in Postings(rows) \cup Zeros(rows) :
        SameEntry(rows[j], rows[i]) /\ rows[j].account = rows[i].next}

TerminalMetadata(rows, i) ==
    LET r == rows[i] IN
    /\ ~r.linked /\ ~r.token
    /\ 0 \notin {r.target, r.master, r.account, r.next}
    /\ r.date # Nothing
    /\ r.next \notin AuxTargets(rows)
    /\ Cardinality(Explains(rows, i)) = 1
    /\ Balanced(rows, r.master)

\* The chain: links stay inside, at most one to a row, and one row ends it.
LinkTo(rows, G, target) == {j \in G : rows[j].linked /\ rows[j].next = target}
ChainShape(rows, G) ==
    /\ Cardinality(G) \in {2, 4, 6}
    /\ \A j \in G :
        /\ rows[j].account # 0
        /\ rows[j].linked => \E k \in G : rows[k].target = rows[j].next
        /\ ~rows[j].linked => rows[j].next # 0 /\ rows[j].next \notin AuxTargets(rows)
        /\ Cardinality(LinkTo(rows, G, rows[j].target)) <= 1
        /\ ~rows[j].amount
        /\ \/ rows[j].collision = "opaque"
           \/ rows[j].collision = "none" /\ Cardinality(G) < 6 /\ ~rows[j].token
    /\ Cardinality({j \in G : ~rows[j].linked}) = 1

Heads(rows, G) == {j \in G : LinkTo(rows, G, rows[j].target) = {}}
Ender(rows, G) == CHOOSE j \in G : ~rows[j].linked

\* The walk from the head: the rows it visits until it ends or turns back.
Walk(rows, G, head) ==
    LET walk[j \in G, visited \in SUBSET G] ==
            IF j \in visited THEN {}
            ELSE IF ~rows[j].linked THEN visited \cup {j}
            ELSE walk[CHOOSE k \in G : rows[k].target = rows[j].next, visited \cup {j}]
    IN walk[head, {}]

\* What the last row of a chain names outside it.
ExternalResolved(rows, G) ==
    LET r == rows[Ender(rows, G)] IN
    \/ \E j \in Postings(rows) \cup Zeros(rows) \cup Sources(rows) :
        rows[j].target = r.next /\ SameEntry(rows[j], r)
    \/ r.next = r.master
    \/ \E j \in G : rows[j].account = r.next
    \/ \E j \in Postings(rows) \cup Zeros(rows) :
        SameEntry(rows[j], r) /\ rows[j].account = r.next

ChainCloses(rows, G) ==
    /\ ChainShape(rows, G)
    /\ Cardinality(Heads(rows, G)) = 1
    /\ \E head \in Heads(rows, G) : Walk(rows, G, head) = G
    /\ ExternalResolved(rows, G)
    /\ \A j \in G : Balanced(rows, rows[j].master)

AuxiliariesExplained(rows) ==
    /\ AuxiliariesDistinct(rows)
    /\ \A i \in Auxiliaries(rows) :
        LET G == Group(rows, i) IN
        IF G = {i} THEN TerminalMetadata(rows, i) ELSE ChainCloses(rows, G)

\* The rows of chains: sources may lead to them, not to a lone row.
ChainRows(rows) == {i \in Auxiliaries(rows) : Group(rows, i) # {i}}

--------------------------------------------------------------------------------
(* Every target is one row's; then sources are followed.                     *)

TargetsDistinct(rows) ==
    /\ \A i \in Auxiliaries(rows) :
        /\ rows[i].master # 0 /\ rows[i].date # Nothing
        /\ \A j \in Zeros(rows) : rows[j].target # rows[i].target
    /\ \A i \in Sources(rows) : \A j \in DOMAIN rows \ {i} : rows[j].target # rows[i].target

UniqueDestination(rows, r) ==
    1 = Cardinality({j \in Postings(rows) : SameEntry(rows[j], r) /\ rows[j].account = r.account})

\* From target t, with these targets behind it.  A posting hides a zero, and a
\* zero a chain row, of the same target.
EndAt(rows, t) ==
    LET at(S) == {j \in S : rows[j].target = t}
    IN IF at(Postings(rows)) # {} THEN at(Postings(rows))
       ELSE IF at(Zeros(rows)) # {} THEN at(Zeros(rows)) ELSE at(ChainRows(rows))

\* Mutant: a link may lead to an entry of another date.
LeadsAnyDate(rows, source, t, visited) == \E j \in EndAt(rows, t) : rows[j].master = source.master

Leads(rows, source, t, visited) ==
    LET T == {t} \cup {rows[j].next : j \in Sources(rows)}
        leads[u \in T, seen \in SUBSET T] ==
            /\ u \notin seen
            /\ \/ \E j \in EndAt(rows, u) : SameEntry(rows[j], source)
               \/ /\ EndAt(rows, u) = {} /\ Cardinality(seen) < Cardinality(Sources(rows))
                  /\ \E j \in Sources(rows) :
                      /\ rows[j].target = u
                      /\ SameEntry(rows[j], source)
                      /\ IF rows[j].next = 0 THEN UniqueDestination(rows, rows[j])
                         ELSE leads[rows[j].next, seen \cup {u}]
    IN leads[t, visited]

SourceResolves(rows, i) ==
    IF rows[i].next = 0 THEN UniqueDestination(rows, rows[i])
    ELSE Leads(rows, rows[i], rows[i].next, {})

\* The fallback of the two header layouts: one witness, with the next id.
HeaderResolves(rows, i, witnesses) ==
    LET r == rows[i]
        own == {j \in Postings(rows) : rows[j].master = r.master}
        matching == {w \in DOMAIN witnesses : witnesses[w].date = r.date /\ witnesses[w].group = r.next}
        named == {w \in DOMAIN witnesses : witnesses[w].id = r.master + 1}
    IN /\ Cardinality(matching) = 1 /\ Cardinality(named) = 1 /\ matching = named
       /\ own # {} /\ \A j \in own : rows[j].date = r.date
       /\ Balanced(rows, r.master)

HeaderFallback(rows, i, witnesses) ==
    rows[i].header /\ witnesses # <<>> /\ ~SourceResolves(rows, i)

SourcesResolve(rows, witnesses) ==
    \A i \in Sources(rows) :
        IF HeaderFallback(rows, i, witnesses) THEN HeaderResolves(rows, i, witnesses)
        ELSE SourceResolves(rows, i)

OneLifecycle(rows) ==
    \A i, j \in Postings(rows) :
        rows[i].master = rows[j].master => rows[i].lifecycle = rows[j].lifecycle

--------------------------------------------------------------------------------
Disposition(rows, i, witnesses) ==
    LET r == rows[i] IN
    CASE r.kind = "posting" -> "Posting"
      [] r.kind = "zero" -> "CanonicalZeroAmount"
      [] r.kind = "auxiliary" ->
           IF Group(rows, i) = {i} THEN "TerminalMetadataCarrier" ELSE "AuxiliaryLinkChain"
      [] r.kind = "source" ->
           IF HeaderFallback(rows, i, witnesses) THEN "HeaderMetadataCarrier" ELSE "SourceOrLink"

\* The classification, or the first error: the table is taken whole or not.
Refusal(rows, witnesses) ==
    IF \E i \in DOMAIN rows : rows[i].kind = "unrecognized" THEN "UnrecognizedCarrier"
    ELSE IF ~RowsDistinct(rows) THEN "DuplicateTarget"
    ELSE IF ~AuxiliariesExplained(rows) THEN "AuxiliaryMismatch"
    ELSE IF ~TargetsDistinct(rows) THEN "DuplicateTarget"
    ELSE IF ~SourcesResolve(rows, witnesses) THEN "SourceTopologyMismatch"
    ELSE IF ~OneLifecycle(rows) THEN "ConflictingLifecycle"
    ELSE Nothing
Classified(rows, witnesses) ==
    LET refused == Refusal(rows, witnesses) IN
    [refused |-> refused,
     rows |-> IF refused # Nothing THEN <<>>
              ELSE [i \in DOMAIN rows |-> Disposition(rows, i, witnesses)]]
================================================================================
