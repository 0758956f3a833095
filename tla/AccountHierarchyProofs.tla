------------------------- MODULE AccountHierarchyProofs -------------------------
(****************************************************************************)
(* The verdict of the hierarchy check is exact, for charts of any size.     *)
(****************************************************************************)
EXTENDS AccountHierarchy, TLAPS

\* The accounts already checked: no walk from them is without end.
CheckedEnds ==
    \A S \in SUBSET Accounts : Closed(S) =>
        \A a \in S : a >= current

CheckedParents ==
    \A a \in Accounts : a < current => parent[a] # Missing

\* The walk from the current account: whatever set it could not leave holds the
\* cursor, and what it has visited leads to the cursor.
WalkInside ==
    pc = "walk" =>
        /\ parent[current] \in Accounts \ {current}
        /\ \A S \in SUBSET Accounts : Closed(S) /\ current \in S => cursor \in S

VisitedLeadOn ==
    pc = "walk" =>
        /\ \A v \in visited : parent[v] \in visited \cup {cursor}
        /\ current \in visited \cup {cursor}

IInv ==
    /\ TypeOK
    /\ pc = "outer" => CheckedEnds /\ CheckedParents
    /\ pc = "walk" => CheckedEnds /\ CheckedParents
    /\ WalkInside
    /\ VisitedLeadOn
    /\ AcceptsOnlyWellFormed
    /\ RefusalsJustified

--------------------------------------------------------------------------------
\* At the start no account is checked and nothing is known of any.
LEMMA InitIInv == Init => IInv
<1> SUFFICES ASSUME Init PROVE IInv
  OBVIOUS
<1>1. TypeOK
  BY NAssumption DEF Init, TypeOK, Verdicts, Accounts
<1>2. CheckedEnds /\ CheckedParents
  BY NAssumption DEF Init, CheckedEnds, CheckedParents, Accounts
<1>3. QED
  BY <1>1, <1>2
  DEF Init, IInv, WalkInside, VisitedLeadOn, AcceptsOnlyWellFormed, RefusalsJustified

\* Moving on to the next account keeps the facts about the checked ones.
LEMMA NextAccountIInv ==
    ASSUME IInv, pc \in {"outer", "walk"}, current \in Accounts, NextAccount,
           UNCHANGED <<parent, cursor, visited>>,
           parent[current] # Missing,
           \A S \in SUBSET Accounts : Closed(S) => current \notin S
    PROVE  IInv'
<1>1. TypeOK'
  BY NAssumption DEF IInv, TypeOK, NextAccount, Accounts, Verdicts
<1>2. CheckedEnds'
  <2>1. ASSUME NEW S \in SUBSET Accounts, Closed(S), NEW a \in S
        PROVE  a >= current + 1
    <3>1. a >= current /\ a # current /\ a \in Nat /\ current \in Nat
      BY <2>1, NAssumption DEF IInv, CheckedEnds, Accounts
    <3>2. QED  BY <3>1
  <2>2. QED  BY <2>1 DEF CheckedEnds, NextAccount, Closed
<1>3. CheckedParents'
  BY NAssumption DEF IInv, CheckedParents, NextAccount, Accounts
<1>4. pc' = "outer" /\ verdict' = "none"
  BY DEF NextAccount, IInv, TypeOK
<1>5. QED
  BY <1>1, <1>2, <1>3, <1>4
  DEF IInv, WalkInside, VisitedLeadOn, AcceptsOnlyWellFormed, RefusalsJustified

--------------------------------------------------------------------------------
\* Every step of the walk keeps the inductive invariant.
LEMMA NextIInv == IInv /\ [Next]_vars => IInv'
<1> SUFFICES ASSUME IInv, [Next]_vars PROVE IInv'
  OBVIOUS
<1> USE NAssumption
<1>1. CASE Finish
  <2>1. UNCHANGED <<parent, current, cursor, visited>> /\ pc' = "done" /\ verdict' = "ok"
    BY <1>1 DEF Finish, Decide
  <2>2. WellFormed
    <3>1. \A a \in Accounts : parent[a] # Missing
      BY <1>1 DEF Finish, IInv, CheckedParents, Accounts
    <3>2. ASSUME NEW S \in SUBSET Accounts, Closed(S), NEW a \in S
          PROVE  FALSE
      BY <1>1, <3>2 DEF Finish, IInv, CheckedEnds, Accounts
    <3>3. QED  BY <3>1, <3>2 DEF WellFormed
  <2>3. WellFormed'
    BY <2>1, <2>2 DEF WellFormed, Closed
  <2>4. TypeOK'
    BY <2>1 DEF IInv, TypeOK, Verdicts
  <2>5. QED
    BY <2>1, <2>3, <2>4
    DEF IInv, WalkInside, VisitedLeadOn, AcceptsOnlyWellFormed, RefusalsJustified
<1>2. CASE SkipRoot
  <2>1. \A S \in SUBSET Accounts : Closed(S) => current \notin S
    BY <1>2 DEF SkipRoot, Closed, NoParent, Accounts
  <2>2. parent[current] # Missing
    BY <1>2 DEF SkipRoot, NoParent, Missing
  <2>3. QED
    BY <1>2, <2>1, <2>2, NextAccountIInv DEF SkipRoot
<1>3. CASE RejectParent
  <2>1. /\ UNCHANGED <<parent, current, cursor, visited>> /\ pc' = "done"
        /\ \/ parent[current] = current /\ verdict' = "selfParent"
           \/ parent[current] = Missing /\ verdict' = "unknownParent"
    BY <1>3 DEF RejectParent, Decide
  <2>2. TypeOK'
    BY <2>1 DEF IInv, TypeOK, Verdicts
  <2>3. QED
    BY <2>1, <2>2
    DEF IInv, WalkInside, VisitedLeadOn, AcceptsOnlyWellFormed, RefusalsJustified
<1>4. CASE StartWalk
  <2>1. /\ UNCHANGED <<parent, current, verdict>> /\ pc' = "walk" /\ cursor' = current
        /\ visited' = {} /\ pc = "outer" /\ current \in Accounts
        /\ parent[current] \in Accounts \ {current}
    BY <1>4 DEF StartWalk
  <2>2. TypeOK'
    BY <2>1 DEF IInv, TypeOK, Accounts
  <2>3. WalkInside' /\ VisitedLeadOn'
    BY <2>1 DEF WalkInside, VisitedLeadOn
  <2>4. (CheckedEnds /\ CheckedParents)'
    BY <2>1 DEF IInv, CheckedEnds, CheckedParents, Closed
  <2>5. verdict' = "none"
    BY <2>1 DEF IInv, TypeOK
  <2>6. QED
    BY <2>1, <2>2, <2>3, <2>4, <2>5 DEF IInv, AcceptsOnlyWellFormed, RefusalsJustified
<1>5. CASE WalkOffChart
  <2>1. /\ UNCHANGED <<parent, current, cursor, visited>> /\ pc' = "done"
        /\ verdict' = "panic" /\ pc = "walk" /\ cursor = Missing
    BY <1>5 DEF WalkOffChart, Decide
  <2>2. TypeOK'
    BY <2>1 DEF IInv, TypeOK, Verdicts
  <2>3. \E a \in Accounts : parent[a] = Missing
    <3>1. current # Missing /\ current \in Accounts
      BY <2>1 DEF IInv, TypeOK, Accounts, Missing
    <3>2. CASE visited = {}
      BY <2>1, <3>1, <3>2 DEF IInv, VisitedLeadOn
    <3>3. CASE \A v \in visited : parent[v] \in visited
      <4>1. Closed(visited) /\ visited \in SUBSET Accounts /\ current \in visited
        BY <2>1, <3>1, <3>3 DEF Closed, IInv, VisitedLeadOn, TypeOK
      <4>2. cursor \in visited
        BY <2>1, <4>1 DEF IInv, WalkInside
      <4>3. QED  BY <2>1, <4>1, <4>2 DEF Missing, Accounts
    <3>4. CASE \E v \in visited : parent[v] = cursor
      BY <2>1, <3>4 DEF IInv, TypeOK
    <3>5. QED  BY <2>1, <3>2, <3>3, <3>4 DEF IInv, VisitedLeadOn
  <2>4. QED
    BY <2>1, <2>2, <2>3
    DEF IInv, WalkInside, VisitedLeadOn, AcceptsOnlyWellFormed, RefusalsJustified
<1>6. CASE WalkReachesRoot
  <2>1. \A S \in SUBSET Accounts : Closed(S) => current \notin S
    BY <1>6 DEF WalkReachesRoot, Closed, NoParent, Accounts, IInv, WalkInside
  <2>2. current \in Accounts /\ parent[current] # Missing
    BY <1>6 DEF WalkReachesRoot, IInv, WalkInside, TypeOK, Accounts, Missing
  <2>3. QED
    BY <1>6, <2>1, <2>2, NextAccountIInv DEF WalkReachesRoot
<1>7. CASE WalkFindsCycle
  <2>1. /\ UNCHANGED <<parent, current, cursor>> /\ pc' = "done" /\ verdict' = "cycle"
        /\ pc = "walk" /\ cursor \in Accounts /\ visited' = visited \cup {cursor}
        /\ cursor \in visited \/ parent[cursor] = current
    BY <1>7 DEF WalkFindsCycle, Decide
  <2> DEFINE S == visited \cup {cursor}
  <2>2. S \in SUBSET Accounts /\ current \in S
    BY <2>1 DEF IInv, TypeOK, VisitedLeadOn
  <2>3. Closed(S)
    BY <2>1, <2>2 DEF Closed, IInv, VisitedLeadOn
  <2>4. \E T \in SUBSET Accounts : Closed(T)' /\ current' \in T
    BY <2>1, <2>2, <2>3 DEF Closed
  <2>5. TypeOK'
    BY <2>1 DEF IInv, TypeOK, Verdicts
  <2>6. QED
    BY <2>1, <2>4, <2>5
    DEF IInv, WalkInside, VisitedLeadOn, AcceptsOnlyWellFormed, RefusalsJustified
<1>8. CASE WalkUp
  <2>1. /\ UNCHANGED <<parent, current, pc, verdict>> /\ pc = "walk"
        /\ cursor \in Accounts /\ cursor' = parent[cursor]
        /\ parent[cursor] # NoParent /\ visited' = visited \cup {cursor}
    BY <1>8 DEF WalkUp
  <2>2. TypeOK'
    BY <2>1 DEF IInv, TypeOK, Accounts, ParentIds, NoParent
  <2>3. WalkInside'
    BY <2>1 DEF IInv, WalkInside, Closed
  <2>4. VisitedLeadOn'
    BY <2>1 DEF IInv, VisitedLeadOn
  <2>5. (CheckedEnds /\ CheckedParents)'
    BY <2>1 DEF IInv, CheckedEnds, CheckedParents, Closed
  <2>6. verdict = "none"
    BY <2>1 DEF IInv, TypeOK
  <2>7. QED
    BY <2>1, <2>2, <2>3, <2>4, <2>5, <2>6
    DEF IInv, AcceptsOnlyWellFormed, RefusalsJustified
<1>9. CASE UNCHANGED vars
  BY <1>9
  DEF vars, IInv, TypeOK, CheckedEnds, CheckedParents, WalkInside, VisitedLeadOn,
      AcceptsOnlyWellFormed, RefusalsJustified, WellFormed, Closed
<1>10. QED
  BY <1>1, <1>2, <1>3, <1>4, <1>5, <1>6, <1>7, <1>8, <1>9 DEF Next, Done

\* The inductive invariant holds in every state, for a chart of any size.
THEOREM Invariance == Spec => []IInv
  BY InitIInv, NextIInv, PTL DEF Spec

\* A ledger is never built over a chart with a missing parent or a cycle.
THEOREM AcceptanceIsSound == Spec => []AcceptsOnlyWellFormed
<1>1. IInv => AcceptsOnlyWellFormed  BY DEF IInv
<1>2. QED  BY <1>1, Invariance, PTL

\* No well-formed chart is refused, and none makes the walk panic.
THEOREM RefusalIsSound == Spec => []RefusalsJustified
<1>1. IInv => RefusalsJustified  BY DEF IInv
<1>2. QED  BY <1>1, Invariance, PTL

\* The types of the walk over a chart of any number of accounts.
THEOREM TypeCorrect == Spec => []TypeOK
<1>1. IInv => TypeOK
  BY DEF IInv
<1>2. QED  BY <1>1, Invariance, PTL
================================================================================
