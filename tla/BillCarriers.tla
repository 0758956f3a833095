------------------------------ MODULE BillCarriers ------------------------------
(****************************************************************************)
(* attested_bill_carrier_targets of enterprise24_accounting_pipeline.rs:    *)
(* which kind-64 carriers of the Bill table are proven not to be postings.  *)
(* A carrier is, if the chain of carriers it begins ends at a monetary row  *)
(* of its own Bill, and the monetary rows of that Bill are a complete       *)
(* family.  The chains are walked in the order of the targets, and what a   *)
(* walk finds out is kept for the later ones.                               *)
(*                                                                          *)
(* A row is an image with its schema prefix and, if it is a monetary one,   *)
(* its posting.                                                             *)
(****************************************************************************)
EXTENDS Integers, FiniteSetsExt

CONSTANT Null   \* a value that a column does not have

VARIABLES
    rows,       \* retained Bill rows, by slot
    carriers,   \* kind-64 rows, by slot
    headers,    \* Bills that a header row attests
    pc,         \* "start", "walking" or "done"
    todo,       \* targets that no walk has begun at
    current,    \* where the walk is, Null between walks
    path,       \* targets the walk has passed
    classified  \* the verdicts so far

walkVars == <<todo, current, path, classified>>

\* `family` of a Bill: its retained rows.
Family(master) == {l \in DOMAIN rows : rows[l].prefix.master = master}
FamilyTargets(master) == {rows[l].posting.target : l \in Family(master)}
FamilyAccounts(master) == {rows[l].posting.account : l \in Family(master)}

\* The sum of the rows r at the slots S.
Net(r, S) == MapThenSumSet(LAMBDA l : r[l].posting.cents, S)

\* Mutant: a family need not balance.
AttestedUnbalanced(master) ==
    LET family == Family(master) IN
    /\ master # Null /\ master \in headers
    /\ Cardinality(family) >= 2
    /\ \A l \in family : rows[l].posting.cents # 0
    /\ \A k, l \in family : rows[k].prefix.context = rows[l].prefix.context
    /\ Cardinality(FamilyAccounts(master)) >= 2

\* attested_bill_carrier_family, of a Bill with a header.
Attested(master) ==
    LET family == Family(master) IN
    /\ master # Null /\ master \in headers
    /\ Cardinality(family) >= 2
    /\ \A l \in family : rows[l].posting.cents # 0
    /\ \A k, l \in family :
          /\ rows[k].prefix.context = rows[l].prefix.context
          /\ k # l => rows[k].posting.target # rows[l].posting.target
    /\ Cardinality(FamilyAccounts(master)) >= 2
    /\ Net(rows, family) = 0

--------------------------------------------------------------------------------
RowsAt(target) == {l \in DOMAIN rows : rows[l].prefix.target = target}
CarriersAt(target) == {l \in DOMAIN carriers : carriers[l].prefix.target = target}

\* bill_nonposting_carrier_identity; `nonposting` stands for the null account
\* and amount and the five flags.
HasIdentity(p) ==
    /\ p.nonposting
    /\ p.target # Null /\ p.master # Null /\ p.next # Null /\ p.sibling # Null

\* A target is a node if one carrier alone has it, and no row.
IsNode(target) ==
    /\ target # Null /\ RowsAt(target) = {}
    /\ \E l \in DOMAIN carriers :
          CarriersAt(target) = {l} /\ HasIdentity(carriers[l].prefix)

Nodes == {target \in {carriers[l].prefix.target : l \in DOMAIN carriers} : IsNode(target)}

Node(target) == carriers[CHOOSE l \in DOMAIN carriers : l \in CarriersAt(target)].prefix

LinkAttested(target) ==
    LET node == Node(target) IN
    /\ Attested(node.master)
    /\ \A l \in Family(node.master) : rows[l].prefix.context = node.context
    /\ node.sibling \in FamilyAccounts(node.master)

\* BillCarrierLink::Monetary and BillCarrierLink::Carrier; any other link is
\* Invalid.
MonetaryLink(target) ==
    /\ LinkAttested(target)
    /\ Node(target).next \in FamilyTargets(Node(target).master)
    /\ Cardinality(RowsAt(Node(target).next)) = 1

CarrierLink(target) ==
    /\ LinkAttested(target) /\ ~MonetaryLink(target)
    /\ Node(target).next \in Nodes
    /\ LET node == Node(target)
           next == Node(node.next)
       IN /\ next.master = node.master
          /\ next.sibling = node.sibling
          /\ next.context = node.context

--------------------------------------------------------------------------------
(* The walk.  path holds what `path` and `visited` of the code both hold. *)

BeginWalk ==
    /\ pc = "walking" /\ current = Null /\ todo # {}
    /\ current' = Min(todo)
    /\ todo' = todo \ {Min(todo)}
    /\ path' = {}
    /\ UNCHANGED <<rows, carriers, headers, pc, classified>>

\* The walk ends, and all it has passed gets the verdict.
EndWalk(passed, valid) ==
    /\ classified' = [t \in DOMAIN classified \cup passed |->
                        IF t \in passed THEN valid ELSE classified[t]]
    /\ current' = Null
    /\ path' = passed
    /\ UNCHANGED <<rows, carriers, headers, pc, todo>>

ReachKnown ==
    /\ pc = "walking" /\ current \in DOMAIN classified
    /\ EndWalk(path, classified[current])

AtNew == pc = "walking" /\ current # Null /\ current \notin DOMAIN classified

\* Mutant: a walk that comes back to where it was counts as an end.
CloseCycleAccepts ==
    /\ AtNew /\ current \in path
    /\ EndWalk(path, TRUE)

CloseCycle ==
    /\ AtNew /\ current \in path
    /\ EndWalk(path, FALSE)

ReachMonetary ==
    /\ AtNew /\ current \notin path
    /\ MonetaryLink(current)
    /\ EndWalk(path \cup {current}, TRUE)

ReachInvalid ==
    /\ AtNew /\ current \notin path
    /\ ~MonetaryLink(current) /\ ~CarrierLink(current)
    /\ EndWalk(path \cup {current}, FALSE)

Follow ==
    /\ AtNew /\ current \notin path
    /\ CarrierLink(current)
    /\ current' = Node(current).next
    /\ path' = path \cup {current}
    /\ UNCHANGED <<rows, carriers, headers, pc, todo, classified>>

Walk == BeginWalk \/ ReachKnown \/ CloseCycle \/ ReachMonetary \/ ReachInvalid \/ Follow

Walked == pc = "walking" /\ todo = {} /\ current = Null

Accepted == {t \in DOMAIN classified : classified[t]}

--------------------------------------------------------------------------------
\* Carriers whose chains never come to a monetary row.
Stuck(S) == \A t \in S : ~MonetaryLink(t) /\ (CarrierLink(t) => Node(t).next \in S)

\* Exactly the carriers whose chain ends at a monetary row of their Bill are
\* accepted, however the chains share suffixes or run into cycles, and whatever
\* was classified before: the memory of earlier walks changes no verdict.  And
\* no carrier is set aside for a Bill whose retained rows do not balance.
CarriersGrounded ==
    Walked =>
        /\ DOMAIN classified = Nodes
        /\ \A t \in Nodes :
              t \in Accepted <=> ~\E S \in SUBSET Nodes : t \in S /\ Stuck(S)
        /\ \A t \in Accepted :
              /\ Node(t).master \in headers
              /\ Net(rows, Family(Node(t).master)) = 0
================================================================================
