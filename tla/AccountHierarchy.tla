---------------------------- MODULE AccountHierarchy ----------------------------
(****************************************************************************)
(* validate_account_hierarchy of accounting.rs: the accounts of a chart, in *)
(* identifier order, each followed up its chain of parents.  Accounts are   *)
(* numbered in that order.                                                  *)
(****************************************************************************)
EXTENDS Naturals, FiniteSets

CONSTANT N   \* the number of accounts in the chart

ASSUME NAssumption == N \in Nat

Accounts == 1..N
NoParent == 0
Missing == N + 1   \* a parent identifier that is not in the chart
ParentIds == 0..(N + 1)

VARIABLES
    parent,    \* parent_account_id of every account
    current,   \* the account of the outer loop
    cursor,    \* where the walk up from it has come to
    visited,   \* accounts the walk has left
    pc,        \* "outer", "walk" or "done"
    verdict    \* what Ledger::new gets

vars == <<parent, current, cursor, visited, pc, verdict>>

Verdicts == {"none", "ok", "selfParent", "unknownParent", "cycle", "panic"}

\* The walk never leaves the chart before the lookup that fails.
TypeOK ==
    /\ parent \in [Accounts -> ParentIds]
    /\ current \in 1..(N + 1)
    /\ cursor \in 1..(N + 1)
    /\ visited \subseteq Accounts
    /\ pc \in {"outer", "walk", "done"}
    /\ verdict \in Verdicts
    /\ pc = "walk" => current \in Accounts
    /\ pc = "done" <=> verdict # "none"

\* Every chart may be given to Ledger::new: Account::with_hierarchy checks no
\* parent.
Init ==
    /\ parent \in [Accounts -> ParentIds]
    /\ current = 1
    /\ cursor = 1
    /\ visited = {}
    /\ pc = "outer"
    /\ verdict = "none"

Decide(v) == pc' = "done" /\ verdict' = v

NextAccount == current' = current + 1 /\ pc' = "outer" /\ UNCHANGED verdict

--------------------------------------------------------------------------------
Finish ==
    /\ pc = "outer" /\ current = N + 1
    /\ Decide("ok")
    /\ UNCHANGED <<parent, current, cursor, visited>>

SkipRoot ==
    /\ pc = "outer" /\ current \in Accounts
    /\ parent[current] = NoParent
    /\ NextAccount
    /\ UNCHANGED <<parent, cursor, visited>>

RejectParent ==
    /\ pc = "outer" /\ current \in Accounts
    /\ \/ parent[current] = current /\ Decide("selfParent")
       \/ parent[current] = Missing /\ Decide("unknownParent")
    /\ UNCHANGED <<parent, current, cursor, visited>>

\* Mutants: only the direct parent is looked at; the visited set of the
\* previous account is kept.
StartWalkDirectOnly ==
    /\ pc = "outer" /\ current \in Accounts
    /\ parent[current] \in Accounts \ {current}
    /\ NextAccount
    /\ UNCHANGED <<parent, cursor, visited>>

StartWalkKeepsVisited ==
    /\ pc = "outer" /\ current \in Accounts
    /\ parent[current] \in Accounts \ {current}
    /\ pc' = "walk"
    /\ cursor' = current
    /\ UNCHANGED <<parent, current, visited, verdict>>

StartWalk ==
    /\ pc = "outer" /\ current \in Accounts
    /\ parent[current] \in Accounts \ {current}
    /\ pc' = "walk"
    /\ cursor' = current
    /\ visited' = {}
    /\ UNCHANGED <<parent, current, verdict>>

\* accounts[&cursor] indexes a map: an ancestor that is not in it panics.
WalkOffChart ==
    /\ pc = "walk" /\ cursor = Missing
    /\ Decide("panic")
    /\ UNCHANGED <<parent, current, cursor, visited>>

WalkReachesRoot ==
    /\ pc = "walk" /\ cursor \in Accounts
    /\ parent[cursor] = NoParent
    /\ NextAccount
    /\ UNCHANGED <<parent, cursor, visited>>

WalkFindsCycle ==
    /\ pc = "walk" /\ cursor \in Accounts
    /\ parent[cursor] # NoParent
    /\ cursor \in visited \/ parent[cursor] = current
    /\ Decide("cycle")
    /\ visited' = visited \cup {cursor}
    /\ UNCHANGED <<parent, current, cursor>>

\* Mutant: the visited set is not consulted, only the start of the walk.
WalkUpUnvisited ==
    /\ pc = "walk" /\ cursor \in Accounts
    /\ parent[cursor] \notin {NoParent, current}
    /\ visited' = visited \cup {cursor}
    /\ cursor' = parent[cursor]
    /\ UNCHANGED <<parent, current, pc, verdict>>

WalkUp ==
    /\ pc = "walk" /\ cursor \in Accounts
    /\ parent[cursor] \notin {NoParent, current}
    /\ cursor \notin visited
    /\ visited' = visited \cup {cursor}
    /\ cursor' = parent[cursor]
    /\ UNCHANGED <<parent, current, pc, verdict>>

Done == pc = "done" /\ UNCHANGED vars

Next ==
    \/ Finish \/ SkipRoot \/ RejectParent \/ StartWalk
    \/ WalkOffChart \/ WalkReachesRoot \/ WalkFindsCycle \/ WalkUp
    \/ Done

Spec == Init /\ [][Next]_vars

\* The validation is one sequential call: it keeps running until it returns.
FairSpec == Spec /\ WF_vars(Next)

--------------------------------------------------------------------------------
\* A set of accounts that no walk can leave: it contains a cycle.
Closed(S) == \A a \in S : parent[a] \in S

WellFormed ==
    /\ \A a \in Accounts : parent[a] # Missing
    /\ \A S \in SUBSET Accounts : Closed(S) => S = {}

\* A chart is accepted only if every parent exists and no chain of parents runs
\* into a cycle, also one that the account the walk began at is not part of.
AcceptsOnlyWellFormed == verdict = "ok" => WellFormed

\* Every refusal names a real fault of the account it is about: no chart is
\* refused for what an earlier account's walk left behind.
RefusalsJustified ==
    /\ verdict = "selfParent" => parent[current] = current
    /\ verdict = "unknownParent" => parent[current] = Missing
    /\ verdict = "cycle" => \E S \in SUBSET Accounts : Closed(S) /\ current \in S
    /\ verdict = "panic" => \E a \in Accounts : parent[a] = Missing

\* The walk ends on every chart.
AlwaysDecides == <>(pc = "done")

\* Ledger::new: "Structural issues are rejected immediately" (accounting.rs:450)
\* and, of parent existence, "performed by Ledger::new" (accounting.rs:253):
\* a missing ancestor is an error value.  The lookup of the walk panics instead
\* when the missing ancestor is met above an account of smaller identifier.
FaultsAreRejected == verdict # "panic"
================================================================================
