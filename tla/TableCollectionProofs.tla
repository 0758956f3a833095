------------------------- MODULE TableCollectionProofs -------------------------
(****************************************************************************)
(* Proofs about TableCollection and its walk along Bill carriers, for scans *)
(* of every size: types, and that exactly the grounded carriers are         *)
(* accepted.                                                                *)
(****************************************************************************)
EXTENDS TableCollection, WellFoundedInduction, FiniteSetTheorems, TLAPS

(****************************************************************************)
(* A set of carriers that is left by no link.  A walk that is anywhere in   *)
(* it is never seen outside of it; this replaces the order of the path.     *)
(****************************************************************************)
Closed(S) == \A t \in S : CarrierLink(t) => Node(t).next \in S

\* The path leads from carrier to carrier to where the walk is.
PathLeadsHere ==
    current # Null =>
        /\ \A t \in path : CarrierLink(t) /\ Node(t).next \in path \cup {current}
        /\ \A S \in SUBSET Nodes : Closed(S) /\ S \cap path # {} => current \in S

\* Each verdict is final: no stuck set has an accepted carrier, and each
\* refused one is in a stuck set.
VerdictsHold ==
    \A t \in DOMAIN classified :
        /\ classified[t] \in BOOLEAN
        /\ classified[t] => LinkAttested(t) /\ \A S \in SUBSET Nodes : Stuck(S) => t \notin S
        /\ ~classified[t] => \E S \in SUBSET Nodes : t \in S /\ Stuck(S)

\* No carrier is forgotten.
AllInHand ==
    pc = "walking" =>
        Nodes = todo \cup DOMAIN classified
                     \cup (IF current = Null THEN {} ELSE path \cup {current})

\* Before the walk there is nothing of it.
NothingYet ==
    pc = "start" =>
        /\ rows = <<>> /\ carriers = <<>> /\ headers = {}
        /\ todo = {} /\ current = Null /\ path = {} /\ classified = <<>>

WalkInv ==
    /\ Nodes \subseteq Nat
    /\ todo \subseteq Nodes /\ current \in Nodes \cup {Null}
    /\ path \subseteq Nodes /\ DOMAIN classified \subseteq Nodes
    /\ PathLeadsHere /\ VerdictsHold /\ AllInHand /\ NothingYet

--------------------------------------------------------------------------------
\* Null is no node.
LEMMA NodesNotNull == Null \notin Nodes
  BY DEF Nodes, IsNode

\* What a walk asks of the table depends on nothing the walk changes.
LEMMA GraphKept ==
    ASSUME UNCHANGED <<rows, carriers, headers>>
    PROVE  /\ Nodes' = Nodes
           /\ \A t : Node(t)' = Node(t)
           /\ \A t : LinkAttested(t)' <=> LinkAttested(t)
           /\ \A t : MonetaryLink(t)' <=> MonetaryLink(t)
           /\ \A t : CarrierLink(t)' <=> CarrierLink(t)
<1>1. Nodes' = Nodes
  BY DEF Nodes, IsNode, RowsAt, CarriersAt
<1>2. \A t : Node(t)' = Node(t)
  BY DEF Node, CarriersAt
<1>3. \A m : Family(m)' = Family(m) /\ FamilyAccounts(m)' = FamilyAccounts(m)
             /\ FamilyTargets(m)' = FamilyTargets(m)
  BY DEF Family, FamilyAccounts, FamilyTargets
<1>4. \A m : Attested(m)' <=> Attested(m)
  BY <1>3 DEF Attested
<1>5. \A t : LinkAttested(t)' <=> LinkAttested(t)
  BY <1>2, <1>3, <1>4 DEF LinkAttested
<1>6. \A t : MonetaryLink(t)' <=> MonetaryLink(t)
  BY <1>2, <1>3, <1>5 DEF MonetaryLink, RowsAt
<1>7. \A t : CarrierLink(t)' <=> CarrierLink(t)
  BY <1>1, <1>2, <1>5, <1>6 DEF CarrierLink
<1> QED  BY <1>1, <1>2, <1>5, <1>6, <1>7

\* The least of some numbers is one of them.
LEMMA MinIn ==
    ASSUME NEW S \in SUBSET Nat, S # {}
    PROVE  Min(S) \in S
<1> DEFINE R == OpToRel(<, Nat)
<1>1. IsWellFoundedOn(R, Nat)
  BY NatLessThanWellFounded
<1> HIDE DEF R
<1>2. PICK x \in S : \A y \in S : ~(<<y, x>> \in R)
  BY <1>1, WFMin
<1>3. \A y \in S : x <= y
  <2> SUFFICES ASSUME NEW y \in S, y < x PROVE FALSE
    OBVIOUS
  <2>1. <<y, x>> \in R  BY DEF R, OpToRel
  <2> QED  BY <1>2, <2>1
<1> QED  BY <1>3 DEF Min

--------------------------------------------------------------------------------
THEOREM StartsRight == Init => WalkInv
  BY DEF Init, WalkInv, PathLeadsHere, VerdictsHold, AllInHand, NothingYet, Nodes

\* A verdict for the whole path and where it is keeps VerdictsHold.
LEMMA Judge ==
    ASSUME WalkInv, NEW passed \in SUBSET Nodes, NEW valid \in BOOLEAN,
           EndWalk(passed, valid), pc = "walking", current # Null,
           path \cup {current} \subseteq passed \cup DOMAIN classified,
           valid => \A t \in passed :
                       LinkAttested(t) /\ \A S \in SUBSET Nodes : Stuck(S) => t \notin S,
           ~valid => \A t \in passed : \E S \in SUBSET Nodes : t \in S /\ Stuck(S)
    PROVE  WalkInv'
<1> USE DEF EndWalk
<1>1. /\ Nodes' = Nodes
      /\ \A t : LinkAttested(t)' <=> LinkAttested(t)
      /\ \A S : Stuck(S)' <=> Stuck(S)
  BY GraphKept DEF Stuck
<1>2. DOMAIN classified' = DOMAIN classified \cup passed
  OBVIOUS
<1>3. PathLeadsHere'
  BY DEF PathLeadsHere
<1>4. VerdictsHold'
  <2> SUFFICES ASSUME NEW t \in DOMAIN classified'
               PROVE  /\ classified'[t] \in BOOLEAN
                      /\ classified'[t] =>
                            LinkAttested(t) /\ \A S \in SUBSET Nodes : Stuck(S) => t \notin S
                      /\ ~classified'[t] => \E S \in SUBSET Nodes : t \in S /\ Stuck(S)
    BY <1>1 DEF VerdictsHold
  <2>1. CASE t \in passed
    <3>1. classified'[t] = valid  BY <2>1
    <3> QED  BY <2>1, <3>1
  <2>2. CASE t \notin passed
    <3>1. t \in DOMAIN classified /\ classified'[t] = classified[t]  BY <2>2, <1>2
    <3> QED  BY <3>1 DEF WalkInv, VerdictsHold
  <2> QED  BY <2>1, <2>2
<1>5. AllInHand'
  BY <1>1, <1>2 DEF WalkInv, AllInHand
<1>6. NothingYet'
  BY DEF NothingYet
<1> QED  BY <1>1, <1>2, <1>3, <1>4, <1>5, <1>6 DEF WalkInv

\* A stuck set that the path meets contains where the walk is.
LEMMA StuckReachesHere ==
    ASSUME WalkInv, current # Null, NEW S \in SUBSET Nodes, Stuck(S), NEW t \in path, t \in S
    PROVE  current \in S
  BY DEF WalkInv, PathLeadsHere, Stuck, Closed

LEMMA PathAttested ==
    ASSUME WalkInv, current # Null, NEW t \in path
    PROVE  LinkAttested(t) /\ ~MonetaryLink(t) /\ CarrierLink(t)
           /\ Node(t).next \in path \cup {current}
  BY DEF WalkInv, PathLeadsHere, CarrierLink

THEOREM WalkKeeps ==
    ASSUME WalkInv, Walk
    PROVE  WalkInv'
<1>1. CASE BeginWalk
  <2> USE <1>1 DEF BeginWalk
  <2>1. Min(todo) \in todo
    BY MinIn DEF WalkInv
  <2>2. /\ Nodes' = Nodes
        /\ \A t : LinkAttested(t)' <=> LinkAttested(t)
        /\ \A S : Stuck(S)' <=> Stuck(S)
    BY GraphKept DEF Stuck
  <2>3. PathLeadsHere'
    BY DEF PathLeadsHere
  <2>4. VerdictsHold'
    BY <2>2 DEF WalkInv, VerdictsHold
  <2>5. AllInHand'
    BY <2>1, <2>2, NodesNotNull DEF WalkInv, AllInHand
  <2>6. NothingYet'
    BY DEF NothingYet
  <2> QED  BY <2>1, <2>2, <2>3, <2>4, <2>5, <2>6 DEF WalkInv
<1>2. CASE ReachKnown
  <2> DEFINE valid == classified[current]
  <2> USE <1>2 DEF ReachKnown
  <2>1. current # Null /\ valid \in BOOLEAN
    BY NodesNotNull DEF WalkInv, VerdictsHold
  <2>2. valid => \A t \in path :
                   LinkAttested(t) /\ \A S \in SUBSET Nodes : Stuck(S) => t \notin S
    BY <2>1, StuckReachesHere, PathAttested DEF WalkInv, VerdictsHold
  <2>3. ASSUME ~valid, NEW t \in path PROVE \E S \in SUBSET Nodes : t \in S /\ Stuck(S)
    <3>1. PICK S \in SUBSET Nodes : current \in S /\ Stuck(S)
      BY <2>3 DEF WalkInv, VerdictsHold
    <3>2. Stuck(S \cup path)
      BY <3>1, <2>1, PathAttested DEF Stuck
    <3>3. S \cup path \in SUBSET Nodes  BY DEF WalkInv
    <3> QED  BY <2>3, <3>2, <3>3
  <2> QED  BY <2>1, <2>2, <2>3, Judge DEF WalkInv
<1>3. CASE CloseCycle
  <2> USE <1>3 DEF CloseCycle, AtNew
  <2>1. Stuck(path) /\ path \in SUBSET Nodes
    BY PathAttested DEF Stuck, WalkInv
  <2> QED  BY <2>1, Judge DEF WalkInv
<1>4. CASE ReachMonetary
  <2> USE <1>4 DEF ReachMonetary, AtNew
  <2>1. \A t \in path \cup {current} :
           LinkAttested(t) /\ \A S \in SUBSET Nodes : Stuck(S) => t \notin S
    <3> SUFFICES ASSUME NEW t \in path \cup {current}
                 PROVE  LinkAttested(t) /\ \A S \in SUBSET Nodes : Stuck(S) => t \notin S
      OBVIOUS
    <3>1. LinkAttested(t)  BY PathAttested DEF MonetaryLink
    <3>2. ASSUME NEW S \in SUBSET Nodes, Stuck(S), t \in S PROVE FALSE
      <4>1. current \in S  BY <3>2, StuckReachesHere
      <4> QED  BY <4>1, <3>2 DEF Stuck
    <3> QED  BY <3>1, <3>2
  <2>2. path \cup {current} \in SUBSET Nodes  BY DEF WalkInv
  <2> QED  BY <2>1, <2>2, Judge
<1>5. CASE ReachInvalid
  <2> USE <1>5 DEF ReachInvalid, AtNew
  <2>1. Stuck(path \cup {current})
    BY PathAttested DEF Stuck
  <2>2. path \cup {current} \in SUBSET Nodes  BY DEF WalkInv
  <2> QED  BY <2>1, <2>2, Judge
<1>6. CASE Follow
  <2> USE <1>6 DEF Follow, AtNew
  <2>1. /\ Nodes' = Nodes
        /\ \A t : Node(t)' = Node(t)
        /\ \A t : LinkAttested(t)' <=> LinkAttested(t)
        /\ \A t : CarrierLink(t)' <=> CarrierLink(t)
        /\ \A S : Stuck(S)' <=> Stuck(S)
        /\ \A S : Closed(S)' <=> Closed(S)
    BY GraphKept DEF Stuck, Closed
  <2>2. current \in Nodes /\ current' \in Nodes
    BY DEF WalkInv, CarrierLink
  <2>3. PathLeadsHere'
    <3>1. \A t \in path' : CarrierLink(t) /\ Node(t).next \in path' \cup {current'}
      BY PathAttested
    <3>2. ASSUME NEW S \in SUBSET Nodes, Closed(S), NEW t \in path', t \in S
          PROVE  current' \in S
      <4>1. current \in S  BY <3>2 DEF WalkInv, PathLeadsHere
      <4> QED  BY <4>1, <3>2 DEF Closed
    <3> QED  BY <2>1, <3>1, <3>2 DEF PathLeadsHere
  <2>4. VerdictsHold'
    BY <2>1 DEF WalkInv, VerdictsHold
  <2>5. AllInHand'
    BY <2>1, <2>2, NodesNotNull DEF WalkInv, AllInHand
  <2>6. NothingYet'
    BY DEF NothingYet
  <2>7. path' \subseteq Nodes  BY <2>2 DEF WalkInv
  <2> QED  BY <2>1, <2>2, <2>3, <2>4, <2>5, <2>6, <2>7 DEF WalkInv
<1> QED  BY <1>1, <1>2, <1>3, <1>4, <1>5, <1>6 DEF Walk

--------------------------------------------------------------------------------
(* The collectors *)

\* An image that a candidate has, and whose prefix parses, has a number for
\* its target or none.
LEMMA CarriersNumbered ==
    ASSUME scan \in Scans["context"], kind = "context", NEW l \in SlotsOf("carrier")
    PROVE  First(scan, l).prefix.target \in Nat \cup {Null}
<1>1. l \in Common(scan) /\ ContextOutcome(l) = "carrier"
  BY DEF SlotsOf, Outcome
<1>2. \A x \in Images(scan, l) : x.prefix # Bad
  BY <1>1 DEF ContextOutcome, Parse
<1>3. PICK p \in DOMAIN scan : l \in {p} \X Declared(scan, p)
  BY <1>1 DEF Common, Slots
<1>4. l[1] \in DOMAIN scan
  BY <1>3
<1>5. 1 \in DOMAIN scan[l[1]]
  BY <1>4, ScansAssumption
<1>6. l[2] \in DOMAIN scan[l[1]][1] /\ First(scan, l) # Absent
  BY <1>1, <1>5 DEF Common, Candidates, Present, InRange, First
<1>7. First(scan, l).prefix # Bad
  BY <1>2, <1>5 DEF Images, Candidates, First
<1> QED  BY <1>4, <1>5, <1>6, <1>7, ScansAssumption DEF First

\* The call that turned pages into a walk.
LEMMA ContextStarts ==
    ASSUME WalkInv, CollectContext, kind = "context" => scan \in Scans["context"]
    PROVE  WalkInv'
<1> USE DEF CollectContext, Start, inputs
<1>1. carriers' = [l \in SlotsOf("carrier") |-> First(scan, l)]
  OBVIOUS
<1>2. Nodes' \subseteq Nat
  <2>1. \A l \in DOMAIN carriers' : carriers'[l].prefix.target \in Nat \cup {Null}
    BY <1>1, CarriersNumbered
  <2> QED  BY <2>1 DEF Nodes, IsNode
<1>3. current' = Null /\ path' = {} /\ classified' = <<>> /\ todo' = Nodes' /\ pc' = "walking"
  BY DEF WalkInv, NothingYet
<1>4. PathLeadsHere' /\ VerdictsHold' /\ AllInHand' /\ NothingYet'
  BY <1>3 DEF PathLeadsHere, VerdictsHold, AllInHand, NothingYet
<1> QED  BY <1>2, <1>3, <1>4 DEF WalkInv

\* A collection without a walk leaves nothing of one.
LEMMA NoWalk ==
    ASSUME WalkInv, pc = "start", pc' = "done", UNCHANGED <<carriers, headers, walkVars>>
    PROVE  WalkInv'
<1>1. DOMAIN carriers' = {} /\ Nodes' = {}
  BY DEF WalkInv, NothingYet, Nodes
<1>2. todo' = {} /\ current' = Null /\ path' = {} /\ classified' = <<>>
  BY DEF WalkInv, NothingYet, walkVars
<1> QED
  BY <1>1, <1>2 DEF WalkInv, PathLeadsHere, VerdictsHold, AllInHand, NothingYet

\* The walk's verdicts outlast it.
LEMMA WalkEnds ==
    ASSUME WalkInv, pc' = "done" \/ UNCHANGED pc,
           UNCHANGED <<rows, carriers, headers, walkVars>>
    PROVE  WalkInv'
<1>1. /\ Nodes' = Nodes
      /\ \A t : Node(t)' = Node(t)
      /\ \A t : LinkAttested(t)' <=> LinkAttested(t)
      /\ \A t : CarrierLink(t)' <=> CarrierLink(t)
      /\ \A S : Stuck(S)' <=> Stuck(S)
      /\ \A S : Closed(S)' <=> Closed(S)
  BY GraphKept DEF Stuck, Closed
<1> USE DEF walkVars
<1>2. PathLeadsHere'
  BY <1>1 DEF WalkInv, PathLeadsHere
<1>3. VerdictsHold'
  BY <1>1 DEF WalkInv, VerdictsHold
<1>4. AllInHand' /\ NothingYet'
  BY <1>1 DEF WalkInv, AllInHand, NothingYet
<1> QED  BY <1>1, <1>2, <1>3, <1>4 DEF WalkInv

\* The inputs are what the collectors are called with.
InputsGiven ==
    /\ kind \in Kinds /\ scan \in Scans[kind] /\ expected \in Expectations
    /\ pc = "walking" => kind = "context"

\* The coverage is a record as soon as there is one.
CoverageKnown ==
    IF pc = "start" THEN coverage = NoCoverage
    ELSE "result" \in DOMAIN coverage /\ coverage.result # "none"

IInv == WalkInv /\ InputsGiven /\ CoverageKnown /\ TypeOK

THEOREM InitIInv == Init => IInv
<1> SUFFICES ASSUME Init PROVE IInv
  OBVIOUS
<1>1. WalkInv  BY StartsRight
<1>2. InputsGiven /\ CoverageKnown  BY DEF Init, InputsGiven, CoverageKnown
<1>3. TypeOK  BY DEF Init, TypeOK
<1> QED  BY <1>1, <1>2, <1>3 DEF IInv

THEOREM NextIInv == IInv /\ [Next]_vars => IInv'
<1> SUFFICES ASSUME IInv, [Next]_vars PROVE IInv'
  OBVIOUS
<1> DEFINE Plain ==
      \/ CollectClosed \/ CollectPrefix \/ CollectBill \/ CollectLifecycle
      \/ CollectCheck \/ CollectJournal \/ RefuseHeaders
<1>1. CASE Plain
  <2> USE <1>1 DEF Plain, CollectClosed, CollectPrefix, CollectBill, CollectLifecycle,
                   CollectCheck, CollectJournal, RefuseHeaders, Start, Collected
  <2>1. pc = "start" /\ pc' = "done" /\ UNCHANGED <<inputs, carriers, headers, walkVars>>
    OBVIOUS
  <2>2. WalkInv'
    BY <2>1, NoWalk DEF IInv
  <2>3. InputsGiven'
    BY <2>1 DEF IInv, InputsGiven, inputs
  <2>4. CoverageKnown'
    BY <2>1 DEF CoverageKnown, Coverage, NoCoverage
  <2>5. TypeOK'
    <3>1. rows = <<>> /\ carriers' = <<>>
      BY <2>1 DEF IInv, WalkInv, NothingYet
    <3>2. rows' = <<>> \/ rows' = [l \in Retained |-> First(scan, l)]
      BY <3>1
    <3>3. DOMAIN rows' \subseteq Common(scan) /\ Common(scan)' = Common(scan)
      BY <2>1, <3>2 DEF Retained, SlotsOf, Common, inputs
    <3>4. coverage' # NoCoverage
      BY <2>1, <2>4 DEF CoverageKnown, NoCoverage
    <3> QED  BY <2>1, <2>2, <3>1, <3>3, <3>4 DEF TypeOK, WalkInv
  <2> QED  BY <2>2, <2>3, <2>4, <2>5 DEF IInv
<1>2. CASE CollectContext
  <2> USE <1>2 DEF CollectContext, Start
  <2>1. WalkInv'
    BY ContextStarts DEF IInv, InputsGiven
  <2>2. InputsGiven' /\ CoverageKnown'
    BY DEF IInv, InputsGiven, inputs, CoverageKnown, Coverage
  <2>3. Retained \cap SlotsOf("carrier") = {}
    BY DEF Retained, SlotsOf
  <2>4. DOMAIN rows' = Retained /\ DOMAIN carriers' = SlotsOf("carrier")
    OBVIOUS
  <2>5. Retained \cup SlotsOf("carrier") \subseteq Common(scan) /\ Common(scan)' = Common(scan)
    BY DEF Retained, SlotsOf, Common, inputs
  <2>6. coverage' # NoCoverage
    BY <2>2 DEF CoverageKnown, NoCoverage
  <2> QED  BY <2>1, <2>2, <2>3, <2>4, <2>5, <2>6 DEF IInv, TypeOK, WalkInv
<1>3. CASE Walk /\ UNCHANGED <<inputs, coverage>>
  <2>1. WalkInv'
    BY <1>3, WalkKeeps DEF IInv
  <2>2. pc = "walking" /\ UNCHANGED <<rows, carriers, headers, pc>>
    BY <1>3 DEF Walk, BeginWalk, ReachKnown, CloseCycle, ReachMonetary, ReachInvalid,
                Follow, AtNew, EndWalk
  <2>3. InputsGiven' /\ CoverageKnown'
    BY <1>3, <2>2 DEF IInv, InputsGiven, inputs, CoverageKnown
  <2>4. Common(scan)' = Common(scan)
    BY <1>3 DEF inputs, Common
  <2> QED  BY <1>3, <2>1, <2>2, <2>3, <2>4 DEF IInv, TypeOK, WalkInv
<1>4. CASE CountCarriers
  <2> USE <1>4 DEF CountCarriers, Walked
  <2>1. WalkInv'
    BY WalkEnds DEF IInv
  <2>2. InputsGiven'
    BY DEF IInv, InputsGiven, inputs
  <2>3. CoverageKnown'
    <3>1. "result" \in DOMAIN coverage /\ coverage.result # "none"
      BY DEF IInv, CoverageKnown
    <3>2. DOMAIN coverage' = DOMAIN coverage /\ coverage'["result"] = coverage["result"]
      BY <3>1
    <3> QED  BY <3>1, <3>2 DEF CoverageKnown
  <2>4. coverage' # NoCoverage
    BY <2>3 DEF CoverageKnown, NoCoverage
  <2>5. Common(scan)' = Common(scan)
    BY DEF inputs, Common
  <2> QED  BY <2>1, <2>2, <2>3, <2>4, <2>5 DEF IInv, TypeOK, WalkInv
<1>5. CASE Done \/ UNCHANGED vars
  <2>1. UNCHANGED <<kind, scan, expected, coverage, rows, carriers, headers, pc, walkVars>>
    BY <1>5 DEF Done, vars, inputs
  <2>2. WalkInv'
    BY <2>1, WalkEnds DEF IInv
  <2>3. InputsGiven' /\ CoverageKnown'
    BY <2>1 DEF IInv, InputsGiven, CoverageKnown
  <2>4. Common(scan)' = Common(scan)
    BY <2>1 DEF Common
  <2> QED  BY <2>1, <2>2, <2>3, <2>4 DEF IInv, TypeOK, WalkInv
<1> QED
  BY <1>1, <1>2, <1>3, <1>4, <1>5 DEF Next, Plain

THEOREM Invariance == Spec => []IInv
<1> QED  BY InitIInv, NextIInv, PTL DEF Spec

--------------------------------------------------------------------------------
(****************************************************************************)
(* Types of a collection, for scans of every size.                          *)
(****************************************************************************)
THEOREM TypeCorrect == Spec => []TypeOK
<1>1. IInv => TypeOK  BY DEF IInv
<1> QED  BY <1>1, Invariance, PTL

(****************************************************************************)
(* However many carriers a Bill table has and however they are linked, the  *)
(* walk that shares its verdicts accepts exactly those whose chain ends at  *)
(* a monetary row of a balanced Bill (attested_bill_carrier_targets).       *)
(****************************************************************************)
THEOREM VerdictsGrounded == Spec => []CarriersGrounded
<1>1. ASSUME WalkInv, Walked PROVE CarriersGrounded
  <2>1. DOMAIN classified = Nodes
    BY <1>1 DEF WalkInv, AllInHand, Walked
  <2>2. ASSUME NEW t \in Nodes
        PROVE  t \in Accepted <=> ~\E S \in SUBSET Nodes : t \in S /\ Stuck(S)
    BY <1>1, <2>1 DEF WalkInv, VerdictsHold, Accepted
  <2>3. ASSUME NEW t \in Accepted
        PROVE  Node(t).master \in headers /\ Net(rows, Family(Node(t).master)) = 0
    <3>1. LinkAttested(t)
      BY <1>1, <2>3 DEF WalkInv, VerdictsHold, Accepted
    <3> QED  BY <3>1 DEF LinkAttested, Attested
  <2> QED  BY <2>1, <2>2, <2>3 DEF CarriersGrounded
<1>2. IInv => CarriersGrounded
  BY <1>1 DEF IInv, CarriersGrounded
<1> QED  BY <1>2, Invariance, PTL

--------------------------------------------------------------------------------
(* What a complete table has lost *)

LEMMA SlotsFinite ==
    ASSUME kind \in Kinds, scan \in Scans[kind]
    PROVE  IsFiniteSet(Slots(scan))
<1>1. /\ IsFiniteSet(DOMAIN scan)
      /\ \A p \in DOMAIN scan :
            /\ IsFiniteSet(DOMAIN scan[p])
            /\ \A c \in DOMAIN scan[p] : IsFiniteSet(DOMAIN scan[p][c])
  BY ScansAssumption DEF Kinds
<1>2. ASSUME NEW p \in DOMAIN scan PROVE IsFiniteSet({p} \X Declared(scan, p))
  <2> DEFINE Sets == {DOMAIN scan[p][c] : c \in DOMAIN scan[p]}
             f == [c \in DOMAIN scan[p] |-> DOMAIN scan[p][c]]
  <2>1. f \in Surjection(DOMAIN scan[p], Sets)
    BY DEF Surjection
  <2>2. IsFiniteSet(Sets)
    BY <1>1, <2>1, FS_Surjection
  <2>3. \A T \in Sets : IsFiniteSet(T)
    BY <1>1
  <2>4. IsFiniteSet(UNION Sets)
    BY <2>2, <2>3, FS_UNION
  <2>5. IsFiniteSet(Declared(scan, p))
    BY <2>4 DEF Declared
  <2> QED  BY <2>5, FS_Singleton, FS_Product
<1> DEFINE Pages == {{p} \X Declared(scan, p) : p \in DOMAIN scan}
           g == [p \in DOMAIN scan |-> {p} \X Declared(scan, p)]
<1>3. g \in Surjection(DOMAIN scan, Pages)
  BY DEF Surjection
<1>4. IsFiniteSet(Pages)
  BY <1>1, <1>3, FS_Surjection
<1>5. \A T \in Pages : IsFiniteSet(T)
  BY <1>2
<1> QED  BY <1>4, <1>5, FS_UNION DEF Slots

\* Every counter counts a finite set, and is zero only for the empty one.
LEMMA SlotSetsCounted ==
    ASSUME kind \in Kinds, scan \in Scans[kind], NEW S, S \subseteq Slots(scan)
    PROVE  Cardinality(S) \in Nat /\ (Cardinality(S) = 0 => S = {})
<1>1. IsFiniteSet(S)
  BY SlotsFinite, FS_Subset
<1> QED  BY <1>1, FS_CardinalityType, FS_EmptySet

Refused == DOMAIN carriers \ AcceptedCarriers

\* A walk begins with what its collector retained.
WalkedRows ==
    pc = "walking" =>
        /\ rows = [l \in Retained |-> First(scan, l)]
        /\ carriers = [l \in SlotsOf("carrier") |-> First(scan, l)]
        /\ coverage = Coverage

\* At the end, the counters are those of the slots and of the refused carriers.
CountedRows ==
    pc = "done" /\ coverage.result = "collected" /\ kind # "closed" =>
        /\ rows = [l \in Retained |-> First(scan, l)]
        /\ kind = "context" => DOMAIN carriers = SlotsOf("carrier")
        /\ LET lost == IF kind = "context" THEN Cardinality(Refused) ELSE 0 IN
           /\ coverage.unresolved = Coverage.unresolved + lost
           /\ coverage.failures = Coverage.failures + lost
           /\ coverage.disagreements = Coverage.disagreements
           /\ coverage.texts = Coverage.texts
        /\ coverage.groups = Coverage.groups /\ coverage.surplus = Coverage.surplus
        /\ coverage.resolved = Coverage.resolved /\ coverage.aliases = Coverage.aliases
        /\ coverage.carriers = IF kind = "context" THEN Cardinality(AcceptedCarriers) ELSE 0

CountInv == WalkedRows /\ CountedRows

\* What a collector makes of a slot depends on its inputs alone.
LEMMA OutcomeKept ==
    ASSUME UNCHANGED inputs
    PROVE  /\ Retained' = Retained
           /\ \A o : SlotsOf(o)' = SlotsOf(o)
           /\ Coverage' = Coverage
<1> USE DEF inputs
<1>1. \A l : Outcome(l)' = Outcome(l)
  BY DEF Outcome, PrefixOutcome, BillOutcome, ContextOutcome, CheckOutcome, JournalOutcome
<1>2. \A o : SlotsOf(o)' = SlotsOf(o)
  BY <1>1 DEF SlotsOf
<1>3. Retained' = Retained
  BY <1>2 DEF Retained
<1>4. AliasesValid' = AliasesValid
  BY <1>2, <1>3 DEF AliasesValid, Destination
<1>5. AliasLosses' = AliasLosses
  BY <1>2, <1>4 DEF AliasLosses
<1>6. Losses' = Losses /\ ExpectedPages' = ExpectedPages
  BY <1>2, <1>5 DEF Losses, ExpectedPages
<1>7. TextAccepted' = TextAccepted
  BY <1>2, <1>3, <1>6 DEF TextAccepted
<1>8. TextLosses' = TextLosses /\ Surplus' = Surplus
  BY <1>2, <1>3, <1>6, <1>7 DEF TextLosses, Surplus, ZeroSlotGroups
<1>9. Coverage' = Coverage
  BY <1>2, <1>3, <1>4, <1>5, <1>6, <1>7, <1>8 DEF Coverage
<1> QED  BY <1>2, <1>3, <1>9

\* A count of slots is no smaller than nothing.
LEMMA CoverageCounts ==
    ASSUME kind \in Kinds, scan \in Scans[kind]
    PROVE  /\ Coverage.unresolved \in Nat /\ Coverage.failures \in Nat
           /\ Coverage.disagreements \in Nat
           /\ Coverage.unresolved = 0 => Losses = {} /\ TextLosses = {}
           /\ Coverage.disagreements = 0 => Disagreement(scan) = {}
<1>1. \A o : SlotsOf(o) \subseteq Slots(scan)
  BY DEF SlotsOf, Common
<1>2. /\ AliasLosses \subseteq Slots(scan) /\ Losses \subseteq Slots(scan)
      /\ TextLosses \subseteq Slots(scan) /\ Disagreement(scan) \subseteq Slots(scan)
  BY <1>1 DEF AliasLosses, Losses, TextLosses, Disagreement
<1>3. /\ Cardinality(Losses) \in Nat /\ (Cardinality(Losses) = 0 => Losses = {})
      /\ Cardinality(TextLosses) \in Nat /\ (Cardinality(TextLosses) = 0 => TextLosses = {})
  BY <1>2, SlotSetsCounted
<1>4. /\ Cardinality(AliasLosses) \in Nat /\ Cardinality(SlotsOf("failure")) \in Nat
      /\ Cardinality(Disagreement(scan)) \in Nat
      /\ Cardinality(Disagreement(scan)) = 0 => Disagreement(scan) = {}
  BY <1>1, <1>2, SlotSetsCounted
<1>5. /\ Coverage.unresolved = Cardinality(Losses) + Cardinality(TextLosses)
      /\ Coverage.failures = Cardinality(SlotsOf("failure")) + Cardinality(AliasLosses)
                               + Cardinality(TextLosses)
      /\ Coverage.disagreements = Cardinality(Disagreement(scan))
  BY DEF Coverage
<1> QED  BY <1>3, <1>4, <1>5

THEOREM InitCounts == Init => CountInv
  BY DEF Init, CountInv, WalkedRows, CountedRows, NoCoverage

THEOREM NextCounts == IInv /\ CountInv /\ [Next]_vars => CountInv'
<1> SUFFICES ASSUME IInv, CountInv, [Next]_vars PROVE CountInv'
  OBVIOUS
<1> DEFINE Plain ==
      CollectPrefix \/ CollectBill \/ CollectLifecycle \/ CollectCheck \/ CollectJournal
<1>1. CASE Plain
  <2> USE <1>1 DEF Plain, CollectPrefix, CollectBill, CollectLifecycle, CollectCheck,
                   CollectJournal, Start, Collected
  <2>1. UNCHANGED inputs /\ pc' = "done" /\ kind' # "context"
    BY DEF inputs
  <2>2. rows' = [l \in Retained |-> First(scan, l)] /\ coverage' = Coverage
    OBVIOUS
  <2>3. scan' = scan  BY <2>1 DEF inputs
  <2>4. /\ Coverage.unresolved \in Nat /\ Coverage.failures \in Nat
    BY CoverageCounts DEF IInv, InputsGiven
  <2>5. WalkedRows'
    BY <2>1 DEF WalkedRows
  <2>6. rows' = [l \in Retained' |-> First(scan', l)]
    BY <2>1, <2>2, <2>3, OutcomeKept
  <2>7. CountedRows'
    <3>1. Coverage.carriers = 0  BY DEF Coverage
    <3> QED  BY <2>1, <2>2, <2>4, <2>6, <3>1, OutcomeKept DEF CountedRows
  <2> QED  BY <2>5, <2>7 DEF CountInv
<1>2. CASE CollectClosed \/ RefuseHeaders
  <2> USE <1>2 DEF CollectClosed, RefuseHeaders, Start, inputs, NoCoverage
  <2>1. WalkedRows'
    BY DEF WalkedRows
  <2>2. kind' = "closed" \/ coverage'.result = "headersFailed"
    OBVIOUS
  <2>3. CountedRows'
    BY <2>2 DEF CountedRows
  <2> QED  BY <2>1, <2>3 DEF CountInv
<1>3. CASE CollectContext
  <2> USE <1>3 DEF CollectContext, Start
  <2>1. UNCHANGED inputs /\ scan' = scan /\ pc' = "walking"
    BY DEF inputs
  <2>2. WalkedRows'
    BY <2>1, OutcomeKept DEF WalkedRows
  <2>3. CountedRows'
    BY <2>1 DEF CountedRows
  <2> QED  BY <2>2, <2>3 DEF CountInv
<1>4. CASE Walk /\ UNCHANGED <<inputs, coverage>>
  <2>1. pc = "walking" /\ UNCHANGED <<rows, carriers, headers, pc>>
    BY <1>4 DEF Walk, BeginWalk, ReachKnown, CloseCycle, ReachMonetary, ReachInvalid,
                Follow, AtNew, EndWalk
  <2>2. scan' = scan  BY <1>4 DEF inputs
  <2>3. WalkedRows'
    BY <1>4, <2>1, <2>2, OutcomeKept DEF CountInv, WalkedRows
  <2>4. CountedRows'
    BY <2>1 DEF CountedRows
  <2> QED  BY <2>3, <2>4 DEF CountInv
<1>5. CASE CountCarriers
  <2> USE <1>5 DEF CountCarriers, Walked
  <2>1. UNCHANGED <<inputs, rows, carriers, headers, walkVars>> /\ pc' = "done"
        /\ kind = "context"
    BY DEF IInv, InputsGiven
  <2>2. scan' = scan /\ kind' = kind  BY <2>1 DEF inputs
  <2>3. /\ rows = [l \in Retained |-> First(scan, l)]
        /\ DOMAIN carriers = SlotsOf("carrier")
        /\ coverage = Coverage
    BY DEF CountInv, WalkedRows
  <2>4. Refused' = Refused /\ AcceptedCarriers' = AcceptedCarriers
    BY <2>1 DEF Refused, AcceptedCarriers, Accepted, walkVars
  <2>5. /\ coverage'.unresolved = Coverage.unresolved + Cardinality(Refused)
        /\ coverage'.failures = Coverage.failures + Cardinality(Refused)
        /\ coverage'.disagreements = Coverage.disagreements
        /\ coverage'.texts = Coverage.texts
        /\ coverage'.groups = Coverage.groups /\ coverage'.surplus = Coverage.surplus
        /\ coverage'.resolved = Coverage.resolved /\ coverage'.aliases = Coverage.aliases
        /\ coverage'.carriers = Cardinality(AcceptedCarriers)
    BY <2>3 DEF Refused, Coverage
  <2>6. WalkedRows'
    BY <2>1 DEF WalkedRows
  <2>7. CountedRows'
    BY <2>1, <2>2, <2>3, <2>4, <2>5, OutcomeKept DEF CountedRows
  <2> QED  BY <2>6, <2>7 DEF CountInv
<1>6. CASE Done \/ UNCHANGED vars
  <2>1. UNCHANGED <<inputs, coverage, rows, carriers, headers, pc, walkVars>>
    BY <1>6 DEF Done, vars
  <2>2. scan' = scan /\ kind' = kind  BY <2>1 DEF inputs
  <2>3. Refused' = Refused /\ AcceptedCarriers' = AcceptedCarriers
    BY <2>1 DEF Refused, AcceptedCarriers, Accepted, walkVars
  <2>4. WalkedRows'
    BY <2>1, <2>2, OutcomeKept DEF CountInv, WalkedRows
  <2>5. CountedRows'
    BY <2>1, <2>2, <2>3, OutcomeKept DEF CountInv, CountedRows
  <2> QED  BY <2>4, <2>5 DEF CountInv
<1> QED
  BY <1>1, <1>2, <1>3, <1>4, <1>5, <1>6 DEF Next, Plain

THEOREM CountInvariance == Spec => []CountInv
<1> QED  BY InitCounts, NextCounts, Invariance, PTL DEF Spec

\* Of an image at a slot that all candidates have: it is one of the slot's, as
\* is the first, and the only one if the page has one candidate.
LEMMA ImagesAt ==
    ASSUME InputsGiven, NEW l \in Slots(scan), NEW c \in Candidates(scan, l)
    PROVE  /\ scan[l[1]][c][l[2]] \in Images(scan, l)
           /\ First(scan, l) \in Images(scan, l)
           /\ DOMAIN scan[l[1]] = {1} => scan[l[1]][c][l[2]] = First(scan, l)
<1>1. l[1] \in DOMAIN scan
  BY DEF Slots
<1>2. 1 \in DOMAIN scan[l[1]]
  BY <1>1, ScansAssumption DEF InputsGiven, Kinds
<1> QED  BY <1>2 DEF Images, First, Candidates

\* The candidates agree about what a retained row means.
LEMMA RowsAgree ==
    ASSUME InputsGiven, NEW l \in Retained, NEW x \in Images(scan, l), kind # "closed",
           First(scan, l) \in Images(scan, l)
    PROVE  SameMeaning(x, First(scan, l))
<1>1. Outcome(l) \in {"row", "companion"}
  BY DEF Retained, SlotsOf
<1>2. kind \in {"prefix", "bill", "lifecycle", "context", "check", "journal"}
  BY DEF InputsGiven, Kinds
<1>3. CASE kind = "prefix"
  BY <1>1, <1>3 DEF Outcome, PrefixOutcome, Agree, SameMeaning
<1>4. CASE kind \in {"bill", "lifecycle"}
  BY <1>1, <1>4 DEF Outcome, BillOutcome, Agree, SameMeaning
<1>5. CASE kind = "context"
  BY <1>1, <1>5 DEF Outcome, ContextOutcome, Agree, SameMeaning
<1>6. CASE kind = "check"
  BY <1>1, <1>6 DEF Outcome, CheckOutcome, Agree, SameMeaning
<1>7. CASE kind = "journal"
  BY <1>1, <1>7 DEF Outcome, JournalOutcome, SameMeaning
<1> QED  BY <1>2, <1>3, <1>4, <1>5, <1>6, <1>7

\* What an alias leads to, no other slot without a row leads to.
LEMMA AliasesLead ==
    ASSUME InputsGiven, kind # "closed", AliasesValid, Losses = {},
           NEW l \in SlotsOf("alias"), NEW x \in Images(scan, l)
    PROVE  /\ x.forward # Nowhere /\ x.forward # l /\ x.forward \in Retained
           /\ \A m \in Common(scan) \ Retained :
                 First(scan, m).forward = x.forward => m = l
<1>1. l \in Common(scan) /\ l \in Slots(scan) /\ Outcome(l) = "alias"
  BY DEF SlotsOf, Common
<1>2. kind \in {"bill", "lifecycle", "journal"}
  BY <1>1 DEF Outcome, PrefixOutcome, ContextOutcome, CheckOutcome, InputsGiven, Kinds
<1>3. First(scan, l) \in Images(scan, l)
  <2>1. \A c \in Candidates(scan, l) : First(scan, l) \in Images(scan, l)
    BY <1>1, ImagesAt
  <2> QED  BY <2>1 DEF Images
<1>4. x.forward = Destination(l) /\ x.forward # Nowhere
  <2>1. CASE kind = "journal"
    BY <1>1, <1>3, <2>1 DEF Outcome, JournalOutcome, Destination
  <2>2. CASE kind # "journal"
    BY <1>1, <1>2, <1>3, <2>2 DEF Outcome, BillOutcome, Agree, Destination
  <2> QED  BY <2>1, <2>2
<1>5. ASSUME NEW m \in Common(scan) \ Retained, First(scan, m).forward = x.forward
      PROVE  m \in SlotsOf("alias")
  <2>1. m \in Slots(scan) /\ Outcome(m) \notin {"row", "companion", "failure", "unresolved"}
    BY <1>5 DEF Losses, Retained, SlotsOf, Common
  <2>2. CASE kind = "journal"
    BY <1>5, <2>1, <2>2 DEF Outcome, JournalOutcome, SlotsOf
  <2>3. CASE kind # "journal" /\ Outcome(m) # "alias"
    <3>1. Outcome(m) = BillOutcome(m)
      BY <1>2, <2>3 DEF Outcome
    <3>2. DOMAIN scan[m[1]] = {1} /\ ~Agree(Images(scan, m), "forward")
      BY <1>4, <1>5, <2>1, <2>3, <3>1 DEF BillOutcome
    <3>3. \A y \in Images(scan, m) : y = First(scan, m)
      BY <2>1, <3>2, ImagesAt DEF Images
    <3> QED  BY <3>2, <3>3 DEF Agree
  <2> QED  BY <1>5, <2>2, <2>3 DEF SlotsOf
<1>6. \A m \in SlotsOf("alias") : Destination(m) = Destination(l) => m = l
  BY DEF AliasesValid
<1>7. Destination(l) # l /\ Destination(l) \in Retained
  BY DEF AliasesValid
<1> QED  BY <1>4, <1>5, <1>6, <1>7 DEF Destination

(****************************************************************************)
(* For scans with any number of pages, candidates and slots: a table that   *)
(* counts as complete (Enterprise24PartialTableCoverage::complete) has lost *)
(* no image of any candidate, and chosen none among several.                *)
(****************************************************************************)
THEOREM NothingLost == Spec => []CompleteLosesNothing
<1>1. ASSUME IInv, CountInv PROVE CompleteLosesNothing
  <2> SUFFICES ASSUME pc = "done", Complete,
                      NEW l \in Slots(scan), NEW c \in Candidates(scan, l), Present(scan, c, l)
               PROVE  LET x == scan[l[1]][c][l[2]]
                      IN /\ \A b \in Candidates(scan, l) : Present(scan, b, l)
                         /\ \/ l \in DOMAIN rows /\ SameMeaning(x, rows[l])
                            \/ NeedNotBeRow(l, x)
    BY DEF CompleteLosesNothing
  <2> DEFINE x == scan[l[1]][c][l[2]]
  <2>a. InputsGiven /\ kind # "closed"
    BY <1>1 DEF IInv, Complete
  <2>1. /\ rows = [k \in Retained |-> First(scan, k)]
        /\ kind = "context" => DOMAIN carriers = SlotsOf("carrier")
        /\ coverage.texts = Coverage.texts
    BY <1>1 DEF CountInv, CountedRows, Complete
  <2>b. kind = "context" => Cardinality(Refused) \in Nat /\ (Cardinality(Refused) = 0 => Refused = {})
    <3>1. SlotsOf("carrier") \subseteq Slots(scan)
      BY DEF SlotsOf, Common
    <3> QED  BY <2>1, <2>a, <3>1, SlotSetsCounted DEF Refused, InputsGiven
  <2>2. /\ Coverage.unresolved = 0 /\ Coverage.disagreements = 0
        /\ kind = "context" => Refused = {}
    <3> DEFINE lost == IF kind = "context" THEN Cardinality(Refused) ELSE 0
    <3>1. coverage.unresolved = Coverage.unresolved + lost /\ coverage.unresolved = 0
          /\ coverage.disagreements = Coverage.disagreements /\ coverage.disagreements = 0
      BY <1>1 DEF CountInv, CountedRows, Complete
    <3>2. Coverage.unresolved \in Nat /\ lost \in Nat
      BY <2>a, <2>b, CoverageCounts DEF InputsGiven
    <3>3. Coverage.unresolved = 0 /\ lost = 0
      BY <3>1, <3>2
    <3> QED  BY <2>b, <3>1, <3>3
  <2>3. Losses = {} /\ TextLosses = {} /\ Disagreement(scan) = {}
    BY <2>2, <2>a, CoverageCounts DEF InputsGiven
  <2>4. \A b \in Candidates(scan, l) : Present(scan, b, l)
    BY <2>3 DEF Disagreement, Present
  <2>5. l \in Common(scan) /\ x \in Images(scan, l) /\ First(scan, l) \in Images(scan, l)
    BY <2>4, <2>a, ImagesAt DEF Common
  <2>6. Outcome(l) \in {"row", "companion", "alias", "text", "carrier"}
    <3>1. Outcome(l) \notin {"failure", "unresolved"}
      BY <2>3, <2>5 DEF Losses, SlotsOf
    <3> QED
      BY <3>1, <2>a DEF Outcome, PrefixOutcome, BillOutcome, ContextOutcome, CheckOutcome,
                        JournalOutcome, InputsGiven, Kinds
  <2>7. CASE Outcome(l) \in {"row", "companion"}
    <3>1. l \in Retained  BY <2>5, <2>7 DEF Retained, SlotsOf
    <3>2. SameMeaning(x, First(scan, l))  BY <3>1, <2>5, <2>a, RowsAgree
    <3> QED  BY <2>1, <2>4, <3>1, <3>2
  <2>8. CASE Outcome(l) = "alias"
    <3>1. l \in SlotsOf("alias")  BY <2>5, <2>8 DEF SlotsOf
    <3>2. AliasesValid  BY <2>3, <3>1 DEF Losses, AliasLosses
    <3>3. DOMAIN rows = Retained  BY <2>1
    <3>4. NeedNotBeRow(l, x)
      BY <2>3, <2>5, <2>a, <3>1, <3>2, <3>3, AliasesLead DEF NeedNotBeRow
    <3> QED  BY <2>4, <3>4
  <2>9. CASE Outcome(l) = "text"
    <3>1. l \in SlotsOf("text")  BY <2>5, <2>9 DEF SlotsOf
    <3>2. TextAccepted  BY <2>3, <3>1 DEF TextLosses
    <3>3. coverage.texts = 1 /\ expected.external = 1
      BY <2>1, <3>2 DEF TextAccepted, Coverage
    <3>4. DOMAIN scan[l[1]] = {1} /\ First(scan, l).text
      BY <2>9, <2>a DEF Outcome, PrefixOutcome, BillOutcome, ContextOutcome, CheckOutcome,
                        JournalOutcome, InputsGiven, Kinds
    <3>5. x = First(scan, l)  BY <3>4, <2>a, ImagesAt
    <3>6. NeedNotBeRow(l, x)  BY <3>3, <3>4, <3>5 DEF NeedNotBeRow
    <3> QED  BY <2>4, <3>6
  <2>10. CASE Outcome(l) = "carrier"
    <3>1. kind = "context"
      BY <2>10, <2>a DEF Outcome, PrefixOutcome, BillOutcome, CheckOutcome, JournalOutcome,
                         InputsGiven, Kinds
    <3>2. l \in DOMAIN carriers  BY <2>1, <2>5, <2>10, <3>1 DEF SlotsOf
    <3>3. l \in AcceptedCarriers  BY <2>2, <3>1, <3>2 DEF Refused
    <3>4. NeedNotBeRow(l, x)  BY <3>2, <3>3 DEF AcceptedCarriers, NeedNotBeRow
    <3> QED  BY <2>4, <3>4
  <2> QED  BY <2>6, <2>7, <2>8, <2>9, <2>10
<1> QED  BY <1>1, Invariance, CountInvariance, PTL
--------------------------------------------------------------------------------
(* What the counters say *)

\* Slots of two kinds are counted one by one.
LEMMA SlotSetsAdd ==
    ASSUME InputsGiven, NEW S, S \subseteq Slots(scan), NEW T, T \subseteq Slots(scan), S \cap T = {}
    PROVE  Cardinality(S \cup T) = Cardinality(S) + Cardinality(T)
<1>1. IsFiniteSet(S) /\ IsFiniteSet(T)
  BY SlotsFinite, FS_Subset DEF InputsGiven
<1>2. Cardinality(S \cup T) = Cardinality(S) + Cardinality(T) - Cardinality({})
  BY <1>1, FS_Union
<1>3. Cardinality(S) \in Nat /\ Cardinality(T) \in Nat /\ Cardinality({}) = 0
  BY <1>1, FS_CardinalityType, FS_EmptySet
<1> QED  BY <1>2, <1>3

\* The outcomes of a scan are kinds that share no slot: rows, losses, and what
\* need not be a row.
LEMMA OutcomesApart ==
    ASSUME InputsGiven, kind # "closed",
           NEW A, A = IF AliasesValid THEN SlotsOf("alias") ELSE {},
           NEW T, T = IF TextAccepted THEN SlotsOf("text") ELSE {}
    PROVE  /\ Common(scan) = ((((Retained \cup Losses) \cup TextLosses) \cup A) \cup T) \cup SlotsOf("carrier")
           /\ Retained \cap Losses = {}
           /\ (Retained \cup Losses) \cap TextLosses = {}
           /\ ((Retained \cup Losses) \cup TextLosses) \cap A = {}
           /\ (((Retained \cup Losses) \cup TextLosses) \cup A) \cap T = {}
           /\ ((((Retained \cup Losses) \cup TextLosses) \cup A) \cup T) \cap SlotsOf("carrier") = {}
<1>1. \A l \in Common(scan) :
          Outcome(l) \in {"row", "companion", "failure", "unresolved", "alias", "text", "carrier"}
  <2>1. CASE kind \in {"prefix", "journal"}
    BY <2>1 DEF Outcome, PrefixOutcome, JournalOutcome
  <2>2. CASE kind \in {"bill", "lifecycle"}
    BY <2>2 DEF Outcome, BillOutcome
  <2>3. CASE kind = "context"
    BY <2>3 DEF Outcome, ContextOutcome
  <2>4. CASE kind = "check"
    BY <2>4 DEF Outcome, CheckOutcome
  <2> QED  BY <2>1, <2>2, <2>3, <2>4 DEF InputsGiven, Kinds
<1>2. Retained = {l \in Common(scan) : Outcome(l) \in {"row", "companion"}}
  BY DEF Retained, SlotsOf
<1>3. Losses = {l \in Common(scan) : Outcome(l) \in {"failure", "unresolved"}
                                        \/ (Outcome(l) = "alias" /\ ~AliasesValid)}
  <2>1. CASE AliasesValid
    BY <2>1 DEF Losses, AliasLosses, SlotsOf
  <2>2. CASE ~AliasesValid
    BY <2>2 DEF Losses, AliasLosses, SlotsOf
  <2> QED  BY <2>1, <2>2
<1>4. TextLosses = {l \in Common(scan) : Outcome(l) = "text" /\ ~TextAccepted}
  BY DEF TextLosses, SlotsOf
<1>5. /\ A = {l \in Common(scan) : Outcome(l) = "alias" /\ AliasesValid}
      /\ T = {l \in Common(scan) : Outcome(l) = "text" /\ TextAccepted}
      /\ SlotsOf("carrier") = {l \in Common(scan) : Outcome(l) = "carrier"}
  BY DEF SlotsOf
<1> QED  BY <1>1, <1>2, <1>3, <1>4, <1>5

\* Of a collection that has ended, the counters add up to the slots.
LEMMA SlotsCounted ==
    ASSUME IInv, CountInv
    PROVE  EverySlotCounted
<1> SUFFICES ASSUME pc = "done", coverage.result = "collected", kind # "closed"
             PROVE  coverage.resolved + coverage.unresolved + coverage.aliases + coverage.texts
                        + coverage.carriers = Cardinality(Common(scan))
  BY DEF EverySlotCounted
<1> DEFINE A == IF AliasesValid THEN SlotsOf("alias") ELSE {}
           T == IF TextAccepted THEN SlotsOf("text") ELSE {}
           C == SlotsOf("carrier")
           U == Retained \cup Losses
           lost == IF kind = "context" THEN Cardinality(Refused) ELSE 0
           linked == IF kind = "context" THEN Cardinality(AcceptedCarriers) ELSE 0
<1>1. InputsGiven
  BY DEF IInv
<1>2. /\ kind = "context" => DOMAIN carriers = C
      /\ coverage.unresolved = Coverage.unresolved + lost
      /\ coverage.texts = Coverage.texts /\ coverage.resolved = Coverage.resolved
      /\ coverage.aliases = Coverage.aliases /\ coverage.carriers = linked
  BY DEF CountInv, CountedRows
<1>3. \A o : SlotsOf(o) \subseteq Slots(scan)
  BY DEF SlotsOf, Common
<1>4. /\ Retained \subseteq Slots(scan) /\ Losses \subseteq Slots(scan) /\ U \subseteq Slots(scan)
      /\ TextLosses \subseteq Slots(scan) /\ A \subseteq Slots(scan) /\ T \subseteq Slots(scan)
      /\ C \subseteq Slots(scan)
  BY <1>3 DEF Retained, Losses, AliasLosses, TextLosses
<1>5. /\ Cardinality(A) = Coverage.aliases /\ Cardinality(T) = Coverage.texts
      /\ Cardinality(Retained) = Coverage.resolved
      /\ Cardinality(Losses) + Cardinality(TextLosses) = Coverage.unresolved
  BY FS_EmptySet DEF Coverage, TextAccepted
<1>6. /\ Cardinality(A) \in Nat /\ Cardinality(T) \in Nat /\ Cardinality(Retained) \in Nat
      /\ Cardinality(Losses) \in Nat /\ Cardinality(TextLosses) \in Nat /\ Cardinality(C) \in Nat
  BY <1>1, <1>4, SlotSetsCounted DEF InputsGiven
<1>7. Cardinality(C) = linked + lost /\ linked \in Nat /\ lost \in Nat
  <2>1. CASE kind = "context"
    <3>1. /\ AcceptedCarriers \cup Refused = C /\ AcceptedCarriers \cap Refused = {}
          /\ AcceptedCarriers \subseteq Slots(scan) /\ Refused \subseteq Slots(scan)
      BY <1>2, <1>4, <2>1 DEF AcceptedCarriers, Refused
    <3>2. Cardinality(C) = Cardinality(AcceptedCarriers) + Cardinality(Refused)
      BY <1>1, <3>1, SlotSetsAdd
    <3>3. Cardinality(AcceptedCarriers) \in Nat /\ Cardinality(Refused) \in Nat
      BY <1>1, <3>1, SlotSetsCounted DEF InputsGiven
    <3> QED  BY <2>1, <3>2, <3>3
  <2>2. CASE kind # "context"
    <3>1. C = {}
      BY <1>1, <2>2 DEF SlotsOf, Outcome, PrefixOutcome, BillOutcome, CheckOutcome,
                        JournalOutcome, InputsGiven, Kinds
    <3> QED  BY <2>2, <3>1, FS_EmptySet
  <2> QED  BY <2>1, <2>2
<1>8. /\ Common(scan) = (((U \cup TextLosses) \cup A) \cup T) \cup C
      /\ Retained \cap Losses = {} /\ U \cap TextLosses = {} /\ (U \cup TextLosses) \cap A = {}
      /\ ((U \cup TextLosses) \cup A) \cap T = {} /\ (((U \cup TextLosses) \cup A) \cup T) \cap C = {}
  BY <1>1, OutcomesApart
<1>9. Cardinality(U) = Cardinality(Retained) + Cardinality(Losses)
  BY <1>1, <1>4, <1>8, SlotSetsAdd
<1> HIDE DEF A, T, C, U, lost, linked
<1>10. Cardinality(U \cup TextLosses) = Cardinality(U) + Cardinality(TextLosses)
  BY <1>1, <1>4, <1>8, SlotSetsAdd
<1>11. Cardinality((U \cup TextLosses) \cup A) = Cardinality(U \cup TextLosses) + Cardinality(A)
  BY <1>1, <1>4, <1>8, SlotSetsAdd
<1>12. Cardinality(((U \cup TextLosses) \cup A) \cup T)
           = Cardinality((U \cup TextLosses) \cup A) + Cardinality(T)
  BY <1>1, <1>4, <1>8, SlotSetsAdd
<1>13. Cardinality(Common(scan)) = Cardinality(((U \cup TextLosses) \cup A) \cup T) + Cardinality(C)
  BY <1>1, <1>4, <1>8, SlotSetsAdd
<1> QED  BY <1>2, <1>5, <1>6, <1>7, <1>9, <1>10, <1>11, <1>12, <1>13

\* The certified surplus page of a complete table is one of those without
\* records, so the pages that have some are at most those of SYSTABLE.
LEMMA PagesCounted ==
    ASSUME IInv, CountInv
    PROVE  SurplusIsEmpty
<1> DEFINE Filled == {l[1] : l \in {l \in Slots(scan) : \E c \in Candidates(scan, l) : Present(scan, c, l)}}
<1> SUFFICES ASSUME pc = "done", Complete
             PROVE  Cardinality(Filled) <= ExpectedPages
  BY DEF SurplusIsEmpty
<1>1. InputsGiven /\ kind # "closed" /\ coverage.result = "collected"
  BY DEF IInv, Complete
<1>2. /\ coverage.groups = Cardinality(DOMAIN scan)
      /\ coverage.surplus = IF Surplus THEN 1 ELSE 0
  BY <1>1 DEF CountInv, CountedRows, Coverage
<1>3. ExpectedPages + coverage.surplus = coverage.groups /\ ExpectedPages \in Nat
  BY <1>1, ExpectationsAssumption DEF Complete, ExpectedPages, InputsGiven
<1>4. IsFiniteSet(DOMAIN scan)
  BY <1>1, ScansAssumption DEF InputsGiven, Kinds
<1>5. Filled \subseteq DOMAIN scan /\ Filled \cap ZeroSlotGroups = {}
  <2>1. \A l \in Slots(scan) : l[1] \in DOMAIN scan /\ l[2] \in Declared(scan, l[1])
    BY DEF Slots
  <2> QED  BY <2>1 DEF ZeroSlotGroups
<1>6. CASE ~Surplus
  <2>1. Cardinality(Filled) <= Cardinality(DOMAIN scan)
    BY <1>4, <1>5, FS_Subset
  <2> QED  BY <1>2, <1>3, <1>6, <2>1
<1>7. CASE Surplus
  <2>1. PICK p : p \in ZeroSlotGroups
    BY <1>7 DEF Surplus
  <2>2. p \in DOMAIN scan /\ Filled \subseteq DOMAIN scan \ {p}
    BY <1>5, <2>1 DEF ZeroSlotGroups
  <2>3. /\ IsFiniteSet(DOMAIN scan \ {p})
        /\ Cardinality(DOMAIN scan \ {p}) = Cardinality(DOMAIN scan) - 1
    BY <1>4, <2>2, FS_RemoveElement
  <2>4. Cardinality(Filled) <= Cardinality(DOMAIN scan \ {p})
    BY <2>2, <2>3, FS_Subset
  <2>5. Cardinality(Filled) \in Nat
    BY <2>2, <2>3, FS_Subset, FS_CardinalityType
  <2> QED  BY <1>2, <1>3, <1>7, <2>3, <2>4, <2>5
<1> QED  BY <1>6, <1>7

(****************************************************************************)
(* For scans of any size: the counters of a table leave no slot out and     *)
(* count none twice, and a complete table has no page that is passed over.  *)
(****************************************************************************)
THEOREM CountsAreWhole == Spec => []CountsHideNothing
<1>1. IInv /\ CountInv => CountsHideNothing
  BY SlotsCounted, PagesCounted DEF CountsHideNothing
<1> QED  BY <1>1, Invariance, CountInvariance, PTL
================================================================================
