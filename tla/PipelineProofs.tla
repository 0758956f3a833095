----------------------------- MODULE PipelineProofs -----------------------------
(****************************************************************************)
(* What a ledger of the pipeline rests on, for any inputs.  The inductive   *)
(* invariant Sound says of the call so far:                                 *)
(*   Answered       the dispositions are those of rows of the tables done,  *)
(*                  and no row of these is without one or a blocker;        *)
(*   CompleteSoFar  without a blocker the tables are complete;              *)
(*   Charted        without a blocker every account row is accounted for;   *)
(*   Settled        without a blocker each table that is done was proven in *)
(*                  one reading, and disposed of row by row as it reads;    *)
(*   BuiltFrom      a ledger is made of these, with no blocker.             *)
(* A reading of a table is what one decoder sees in its rows: Check has two *)
(* of them.                                                                 *)
(****************************************************************************)
EXTENDS Pipeline, SequenceTheorems, FiniteSetTheorems, TLAPS

\* What sums are, of which no ledger is needed.
Sums == INSTANCE LedgerProofs WITH
    Charts <- {}, PostingStreams <- {}, Dates <- {}, MaxAmount <- 0,
    chart <- <<>>, postings <- <<>>, completeness <- "Complete", report <- Null, ledger <- Null

\* That one is of no chart and no postings, and its finite sets are finite sets.
LEMMA SumsAssumed == Sums!LedgerAssumption /\ \A S : IsFiniteSet(S) <=> Sums!IsFiniteSet(S)
  BY DEF Sums!LedgerAssumption, IsFiniteSet, Sums!IsFiniteSet

--------------------------------------------------------------------------------
(* Complete tables *)

\* The account table and the posting tables are one sequence.
LEMMA TablesAreSequence ==
    ASSUME input \in Inputs PROVE DOMAIN AllTables \subseteq Nat \ {0}
<1> DEFINE S == Range(input.tables) \cup {input.accounts}
<1>1. input.tables \in Seq(S) /\ <<input.accounts>> \in Seq(S)
  <2>1. input.tables \in Seq(Range(input.tables))
    BY InputsAssumption
  <2> QED  BY <2>1, SeqDef
<1>2. AllTables \in Seq(S)
  BY <1>1, ConcatProperties DEF AllTables
<1> QED  BY <1>2

\* Tables of which nothing was noted are the six, each once and complete.
LEMMA NothingNoted ==
    ASSUME input \in Inputs, Mismatched = {}, DOMAIN AllTables \subseteq Counted, TableBlockers = {}
    PROVE  TablesComplete
<1>1. ASSUME NEW t \in Policies PROVE t \in DOMAIN Coverage /\ Coverage[t]
  BY <1>1 DEF TableBlockers
<1>2. ASSUME NEW t \in Policies
      PROVE  \E i \in Counted : AllTables[i].table = t /\ AllTables[i].complete
  <2>1. \E i \in Counted : AllTables[i].table = t
    BY <1>1 DEF Coverage
  <2>2. Coverage[t] = AllTables[CHOOSE i \in Counted : AllTables[i].table = t].complete
    BY <1>1 DEF Coverage
  <2> QED  BY <1>1, <2>1, <2>2
<1>3. \A i \in DOMAIN AllTables : AllTables[i].policy = AllTables[i].table
  BY DEF Mismatched
<1>4. ASSUME NEW i \in DOMAIN AllTables, NEW j \in DOMAIN AllTables, j # i
      PROVE  AllTables[i].table # AllTables[j].table
  <2>1. FirstOf(i) /\ FirstOf(j)
    BY DEF Counted
  <2>2. i \in 1..(j - 1) \/ j \in 1..(i - 1)
    BY <1>4, TablesAreSequence
  <2> QED  BY <2>1, <2>2 DEF FirstOf
<1> QED  BY <1>2, <1>3, <1>4 DEF TablesComplete, Counted

\* While nothing keeps the ledger back, and once there is one, the tables are
\* complete.
CompleteSoFar ==
    /\ input \in Inputs
    /\ pc # "tables" /\ blockers = {} => TablesComplete
    /\ ledger # Null => TablesComplete

\* A step that changes neither the input nor the ledger and takes no blocker
\* away does not disturb this.
LEMMA KeepsBlockers ==
    ASSUME CompleteSoFar, pc # "tables", input' = input, ledger' = ledger, blockers \subseteq blockers'
    PROVE  CompleteSoFar'
  BY DEF CompleteSoFar, TablesComplete, AllTables

\* It holds before the first table.
LEMMA CompleteStarts == Init => CompleteSoFar
  BY DEF Init, CompleteSoFar

\* And no step disturbs it.
LEMMA CompleteStays ==
    ASSUME CompleteSoFar, [Next]_vars
    PROVE  CompleteSoFar'
<1>1. CASE CheckTables
  <2>1. input' = input /\ ledger' = ledger
    BY <1>1 DEF CheckTables
  <2>2. ASSUME blockers' = {} PROVE TablesComplete
    <3>1. Mismatched = {} /\ DOMAIN AllTables \ (Mismatched \cup Counted) = {} /\ TableBlockers = {}
      BY <1>1, <2>2 DEF CheckTables
    <3> QED  BY <3>1, NothingNoted DEF CompleteSoFar
  <2>3. TablesComplete' = TablesComplete
    BY <2>1 DEF TablesComplete, AllTables
  <2> QED  BY <2>1, <2>2, <2>3 DEF CompleteSoFar
<1>2. CASE NoAccountSchema \/ MapIdentities \/ NormalizeAccounts
  BY <1>2, KeepsBlockers DEF NoAccountSchema, MapIdentities, NormalizeAccounts
<1>3. ASSUME NEW kind, pc = "postings", Stop(kind) PROVE CompleteSoFar'
  BY <1>3, KeepsBlockers DEF Stop
<1>4. ASSUME NEW r, NEW noted, pc = "postings", Dispose(r, noted) PROVE CompleteSoFar'
  BY <1>4, KeepsBlockers DEF Dispose
<1>5. CASE SkipTable
  BY <1>5, KeepsBlockers DEF SkipTable
<1>6. CASE NormalizeJournal
  BY <1>3, <1>4, <1>6 DEF NormalizeJournal, InHand
<1>7. CASE NormalizeCheck
  BY <1>3, <1>4, <1>7 DEF NormalizeCheck, InHand
<1>8. CASE NormalizeBill
  BY <1>3, <1>4, <1>8 DEF NormalizeBill, InHand
<1>9. CASE NormalizeBillPayment
  BY <1>3, <1>4, <1>9 DEF NormalizeBillPayment, InHand
<1>10. CASE NormalizeDeposit
  BY <1>3, <1>4, <1>10 DEF NormalizeDeposit, InHand
<1>11. CASE Refuse
  BY <1>11, KeepsBlockers DEF Refuse, AtEnd
<1>12. CASE Build
  <2>1. input' = input /\ TablesComplete
    BY <1>12 DEF Build, AtEnd, CompleteSoFar
  <2>2. TablesComplete'
    BY <2>1 DEF TablesComplete, AllTables
  <2> QED  BY <2>1, <2>2 DEF CompleteSoFar
<1>13. CASE UNCHANGED vars
  BY <1>13 DEF vars, CompleteSoFar, TablesComplete, AllTables
<1> QED
  BY <1>1, <1>2, <1>5, <1>6, <1>7, <1>8, <1>9, <1>10, <1>11, <1>12, <1>13 DEF Next, Done

\* Of any inputs, a ledger is built only if each of the six tables was given
\* once, under its own name, and collected completely.
THEOREM LedgerFromCompleteTables == Spec => [](ledger # Null => TablesComplete)
<1>1. CompleteSoFar => (ledger # Null => TablesComplete)
  BY DEF CompleteSoFar
<1> QED  BY <1>1, CompleteStarts, CompleteStays, PTL DEF Spec

--------------------------------------------------------------------------------
(* The positions that a loop keeps *)

\* The elements of K up to k, and the element of K with n of them.
UpTo(K, k) == {j \in K : j <= k}
Rank(K, k) == Cardinality(UpTo(K, k))
Nth(K, n) == CHOOSE k \in K : Rank(K, k) = n

\* A strict part of a finite set is smaller than it.
LEMMA PartIsSmaller ==
    ASSUME NEW S, IsFiniteSet(S), NEW R \in SUBSET S, R # S
    PROVE  Cardinality(R) < Cardinality(S)
<1>1. IsFiniteSet(R) /\ Cardinality(R) <= Cardinality(S) /\ (Cardinality(R) = Cardinality(S) => R = S)
  BY FS_Subset
<1>2. Cardinality(R) \in Nat /\ Cardinality(S) \in Nat
  BY <1>1, FS_CardinalityType
<1> QED  BY <1>1, <1>2

\* Each of the numbers up to the size of K is the rank of one element of K.
LEMMA NthIsElement ==
    ASSUME NEW K, IsFiniteSet(K), K \subseteq Int
    PROVE  /\ Cardinality(K) \in Nat
           /\ \A n \in 1..Cardinality(K) : Nth(K, n) \in K
           /\ \A m, n \in 1..Cardinality(K) : Nth(K, m) = Nth(K, n) => m = n
           /\ \A k \in K : \E n \in 1..Cardinality(K) : Nth(K, n) = k
<1> DEFINE c == Cardinality(K)
<1>1. c \in Nat
  BY FS_CardinalityType
<1>2. ASSUME NEW k \in K PROVE Rank(K, k) \in 1..c
  <2>1. UpTo(K, k) \in SUBSET K /\ k \in UpTo(K, k)
    BY DEF UpTo
  <2>2. IsFiniteSet(UpTo(K, k)) /\ Rank(K, k) <= c
    BY <2>1, FS_Subset DEF Rank
  <2>3. Rank(K, k) \in Nat /\ Rank(K, k) # 0
    BY <2>1, <2>2, FS_CardinalityType, FS_EmptySet DEF Rank
  <2> QED  BY <2>2, <2>3, <1>1
<1>3. ASSUME NEW j \in K, NEW k \in K, j < k PROVE Rank(K, j) < Rank(K, k)
  <2> DEFINE A == UpTo(K, j)
             B == UpTo(K, k)
  <2>0. \A i \in K : (i <= j => i <= k) /\ ~(k <= j) /\ k <= k
    BY <1>3
  <2>1. A \subseteq B /\ k \in B /\ k \notin A
    BY <2>0 DEF UpTo
  <2>2. IsFiniteSet(B)
    BY FS_Subset DEF UpTo
  <2>3. Rank(K, j) = Cardinality(A) /\ Rank(K, k) = Cardinality(B)
    BY DEF Rank
  <2> HIDE DEF A, B
  <2> QED  BY <2>1, <2>2, <2>3, PartIsSmaller
<1>4. \A j, k \in K : Rank(K, j) = Rank(K, k) => j = k
  <2> SUFFICES ASSUME NEW j \in K, NEW k \in K, j # k PROVE Rank(K, j) # Rank(K, k)
    OBVIOUS
  <2>1. j < k \/ k < j
    OBVIOUS
  <2>2. Rank(K, j) \in Int /\ Rank(K, k) \in Int
    BY <1>2
  <2> QED  BY <2>1, <2>2, <1>3
<1>5. ASSUME NEW n \in 1..c PROVE \E k \in K : Rank(K, k) = n
  <2> SUFFICES ASSUME \A k \in K : Rank(K, k) # n PROVE FALSE
    OBVIOUS
  <2> DEFINE T == (1..c) \ {n}
             f == [k \in K |-> Rank(K, k)]
  <2>1. IsFiniteSet(1..c) /\ Cardinality(1..c) = c
    BY <1>1, FS_Interval
  <2>2. IsFiniteSet(T) /\ Cardinality(T) = c - 1 /\ c - 1 < c
    <3> DEFINE I == 1..c
    <3> HIDE DEF I, c
    <3>1. IsFiniteSet(I) /\ Cardinality(I) = c /\ n \in I
      BY <2>1 DEF I
    <3>2. IsFiniteSet(I \ {n}) /\ Cardinality(I \ {n}) = c - 1
      BY <3>1, FS_RemoveElement
    <3> QED  BY <3>2, <1>1 DEF I
  <2>3. f \in [K -> T]
    BY <1>2
  <2>4. \E x, y \in K : x # y /\ f[x] = f[y]
    <3>1. Cardinality(T) < Cardinality(K)
      BY <2>2
    <3> HIDE DEF f, T
    <3> QED  BY <2>2, <2>3, <3>1, FS_PigeonHole
  <2> QED  BY <2>4, <1>4
<1>6. ASSUME NEW n \in 1..c PROVE Nth(K, n) \in K /\ Rank(K, Nth(K, n)) = n
  BY <1>5 DEF Nth
<1>7. ASSUME NEW k \in K PROVE Nth(K, Rank(K, k)) = k
  BY <1>2, <1>4, <1>6
<1> QED  BY <1>1, <1>2, <1>6, <1>7

\* What a loop pushes that takes the elements at the positions K of s.
LEMMA KeptIs ==
    ASSUME NEW s, NEW K, IsFiniteSet(K), K \subseteq Int
    PROVE  /\ DOMAIN Kept(s, K) = 1..Cardinality(K) /\ Cardinality(K) \in Nat
           /\ \A n \in 1..Cardinality(K) : Kept(s, K)[n] = s[Nth(K, n)]
           /\ Kept(s, K) = [n \in 1..Cardinality(K) |-> Kept(s, K)[n]]
<1> DEFINE u == [n \in 1..Cardinality(K) |-> s[Nth(K, n)]]
<1>1. Kept(s, K) = u
  BY DEF Kept, Nth, Rank, UpTo
<1>2. /\ DOMAIN u = 1..Cardinality(K) /\ u = [n \in 1..Cardinality(K) |-> u[n]]
      /\ \A n \in 1..Cardinality(K) : u[n] = s[Nth(K, n)]
  OBVIOUS
<1> HIDE DEF u
<1>3. Cardinality(K) \in Nat
  BY FS_CardinalityType
<1> QED  BY <1>1, <1>2, <1>3

--------------------------------------------------------------------------------
(* The invariant *)

RowsOf(i) == input.tables[i].rows
PolicyOf(i) == input.tables[i].policy
LinesOf(i) == {k \in InputRows(i) : RowsOf(i)[k].form = "line"}
AsMaterialized(row) ==
    IF row.opaqueZero /\ row.prefix.kind = "zero" THEN row.prefix ELSE row.physical

\* What the rows of a table may be taken for: check lines are what either
\* decoder sees in them.
Readings(i) ==
    IF PolicyOf(i) = "Check"
    THEN {[k \in LinesOf(i) |-> AsMaterialized(RowsOf(i)[k])],
          [k \in LinesOf(i) |-> RowsOf(i)[k].prefix]}
    ELSE {RowsOf(i)}

\* The rows of table i that O sees a posting in, and no rule excludes.
LiveIn(i, O) ==
    {k \in InputRows(i) :
        IF PolicyOf(i) = "Check" THEN k \in LinesOf(i) /\ O[k].kind = "posting"
        ELSE Live(PolicyOf(i), RowsOf(i)[k])}

CentsOf(O) == [k \in DOMAIN O |-> O[k].cents]
MasterIn(i, O, m) == {k \in LiveIn(i, O) : O[k].master = m}

\* The table in this reading is one that could be settled.
Proven(i, O) ==
    /\ \A k \in LiveIn(i, O) : O[k].cents \in Int
    /\ PolicyOf(i) \in {"Journal", "Bill", "Check", "Deposit"} =>
          \A m \in {O[k].master : k \in LiveIn(i, O)} : Sums!SumOf(CentsOf(O), MasterIn(i, O, m)) = 0
    /\ PolicyOf(i) = "Check" => \A k \in LinesOf(i) : O[k].kind # "failed"

\* d disposes of row k of the table t, live if it is a posting of o.
Says(t, k, live, o, d) ==
    /\ d.row = <<t, k>>
    /\ live <=> IsPosted(d)
    /\ live => d.posting.amount = o.cents /\ d.posting.txn = o.master

\* Each row of table i was disposed of as O reads it.
Told(i, O) ==
    \A k \in InputRows(i) : \E d \in DOMAIN dispositions :
        Says(PolicyOf(i), k, k \in LiveIn(i, O), O[k], dispositions[d])

\* As long as there is no blocker, each table that is done was proven, and told.
Settled == blockers = {} =>
    \A i \in 1..(next - 1) : PolicyOf(i) \in PostingTables =>
        \E O \in Readings(i) : Proven(i, O) /\ Told(i, O)

IsSeq(s) == s \in Seq(Range(s))

\* A disposition is one of a row of a table that is done.
Grounded(x) ==
    /\ \E i \in 1..(next - 1) : \E k \in InputRows(i) :
          PolicyOf(i) \in PostingTables /\ x.row = <<PolicyOf(i), k>>
    /\ IsPosted(x) => x.posting.row = x.row /\ x.posting.account \in {identity[n] : n \in DOMAIN identity}

\* Each disposition is grounded, and each row of a table that is done answered.
Answered ==
    /\ input \in Inputs
    /\ pc \in {"tables", "identities", "accounts", "postings", "done"}
    /\ next \in 1..(Len(input.tables) + 1)
    /\ pc \in {"tables", "identities", "accounts"} => next = 1 /\ dispositions = <<>> /\ candidates = 0
    /\ DOMAIN identity = {} \/ DOMAIN identity = Numbers
    /\ IsSeq(dispositions)
    /\ \A d \in DOMAIN dispositions : Grounded(dispositions[d])
    /\ candidates \in Nat /\ Len(dispositions) <= candidates
    /\ ledger # Null => pc = "done"
    /\ GapsAreNamed

\* As long as there is no blocker, no account row is lost.
Charted ==
    /\ pc = "accounts" /\ blockers = {} => Identified = DOMAIN AccountRows
    /\ pc = "postings" /\ blockers = {} =>
          \A k \in DOMAIN AccountRows :
              \/ AccountRows[k].state = "excluded"
              \/ \E a \in DOMAIN accounts : accounts[a].id = AccountRows[k].listId

OneRowEach == \A i, j \in DOMAIN dispositions : dispositions[i].row = dispositions[j].row => i = j

\* What a ledger is made of.
BuiltFrom == ledger # Null =>
    /\ pc = "done" /\ blockers = {} /\ TablesComplete /\ OneRowEach
    /\ next = Len(input.tables) + 1
    /\ ledger = [accounts |-> accounts, postings |-> LedgerPostings]
    /\ \A k \in DOMAIN AccountRows :
              \/ AccountRows[k].state = "excluded"
              \/ \E a \in DOMAIN accounts : accounts[a].id = AccountRows[k].listId

--------------------------------------------------------------------------------
(* Sequences *)

\* A sequence is a function on the numbers up to its length.
LEMMA SeqIs ==
    ASSUME NEW s, IsSeq(s)
    PROVE  Len(s) \in Nat /\ DOMAIN s = 1..Len(s) /\ s = [i \in 1..Len(s) |-> s[i]]
  BY DEF IsSeq

\* And such a function is a sequence.
LEMMA IsSeqOf ==
    ASSUME NEW n \in Nat, NEW s, DOMAIN s = 1..n, s = [i \in 1..n |-> s[i]]
    PROVE  IsSeq(s) /\ Len(s) = n
<1> DEFINE R == Range(s)
<1>1. \A i \in 1..n : s[i] \in R
  BY DEF Range
<1> HIDE DEF R
<1>2. s \in [1..n -> R]
  BY <1>1
<1>3. s \in Seq(R)
  BY <1>2, SeqDef
<1> QED  BY <1>3 DEF IsSeq, R

\* One sequence after another.
LEMMA Joined ==
    ASSUME NEW s, IsSeq(s), NEW t, IsSeq(t)
    PROVE  /\ IsSeq(s \o t) /\ Len(s \o t) = Len(s) + Len(t)
           /\ DOMAIN s \subseteq DOMAIN (s \o t) /\ \A i \in DOMAIN s : (s \o t)[i] = s[i]
           /\ Range(s \o t) = Range(s) \cup Range(t)
<1> DEFINE S == Range(s) \cup Range(t)
           u == s \o t
<1>1. s \in Seq(S) /\ t \in Seq(S)
  <2>1. s \in Seq(Range(s)) /\ t \in Seq(Range(t))
    BY DEF IsSeq
  <2> QED  BY <2>1, SeqDef
<1>2. /\ u \in Seq(S) /\ Len(u) = Len(s) + Len(t)
      /\ \A i \in 1..Len(s) + Len(t) : u[i] = IF i <= Len(s) THEN s[i] ELSE t[i - Len(s)]
  <2> HIDE DEF S
  <2> QED  BY <1>1, ConcatProperties
<1>3. /\ Len(s) \in Nat /\ DOMAIN s = 1..Len(s)
      /\ Len(t) \in Nat /\ DOMAIN t = 1..Len(t)
  BY SeqIs
<1>4. Len(u) \in Nat /\ DOMAIN u = 1..Len(u) /\ u = [i \in 1..Len(u) |-> u[i]]
  <2> HIDE DEF S, u
  <2> QED  BY <1>2
<1> HIDE DEF u, S
<1>5. IsSeq(u)
  BY <1>4, IsSeqOf
<1>6. ASSUME NEW i \in DOMAIN s PROVE i \in DOMAIN u /\ u[i] = s[i]
  BY <1>2, <1>3, <1>4
<1>7. ASSUME NEW j \in DOMAIN t PROVE \E i \in DOMAIN u : u[i] = t[j]
  <2>1. Len(s) + j \in DOMAIN u /\ ~(Len(s) + j <= Len(s)) /\ (Len(s) + j) - Len(s) = j
    BY <1>2, <1>3, <1>4
  <2>2. u[Len(s) + j] = t[j]
    BY <1>2, <1>4, <2>1
  <2> QED  BY <2>1, <2>2
<1>8. ASSUME NEW i \in DOMAIN u, i \notin DOMAIN s PROVE \E j \in DOMAIN t : u[i] = t[j]
  <2>1. i - Len(s) \in DOMAIN t /\ ~(i <= Len(s))
    BY <1>2, <1>3, <1>4, <1>8
  <2>2. u[i] = t[i - Len(s)]
    BY <1>2, <1>4, <2>1
  <2> QED  BY <2>1, <2>2
<1>9. Range(u) = Range(s) \cup Range(t)
  BY <1>6, <1>7, <1>8 DEF Range
<1> QED  BY <1>2, <1>5, <1>6, <1>9 DEF u

\* The elements of s at K.
Taken(s, K) == {s[k] : k \in K}

\* What is kept of s is a sequence of its elements at K, of each one.
LEMMA KeptHas ==
    ASSUME NEW s, NEW K, IsFiniteSet(K), K \subseteq Int
    PROVE  /\ IsSeq(Kept(s, K)) /\ Len(Kept(s, K)) = Cardinality(K)
           /\ Range(Kept(s, K)) = Taken(s, K)
<1> DEFINE u == Kept(s, K)
           c == Cardinality(K)
<1>1. /\ DOMAIN u = 1..c /\ c \in Nat /\ u = [n \in 1..c |-> u[n]]
      /\ \A n \in 1..c : u[n] = s[Nth(K, n)]
  BY KeptIs
<1>2. \A n \in 1..c : Nth(K, n) \in K
  BY NthIsElement
<1>3. \A k \in K : \E n \in 1..c : Nth(K, n) = k
  BY NthIsElement
<1> HIDE DEF u, c
<1>6. IsSeq(u) /\ Len(u) = c
  BY <1>1, IsSeqOf
<1>7. Range(u) = Taken(s, K)
  BY <1>1, <1>2, <1>3 DEF Range, Taken
<1> QED  BY <1>6, <1>7 DEF u, c

\* A part of a sequence has no more positions.
LEMMA KeptFits ==
    ASSUME NEW n \in Nat, NEW K \in SUBSET (1..n)
    PROVE  /\ IsFiniteSet(K) /\ K \subseteq Int
           /\ Cardinality(K) \in Nat /\ Cardinality(K) <= n
           /\ K = 1..n => Cardinality(K) = n
<1>1. IsFiniteSet(1..n) /\ Cardinality(1..n) = n
  BY FS_Interval
<1>2. IsFiniteSet(K) /\ Cardinality(K) <= Cardinality(1..n)
  BY <1>1, FS_Subset
<1>3. Cardinality(K) \in Nat
  BY <1>2, FS_CardinalityType
<1> QED  BY <1>1, <1>2, <1>3

--------------------------------------------------------------------------------
(* Rows and their answers *)

\* The rows of a table of the input.
LEMMA RowsAreThere ==
    ASSUME input \in Inputs, NEW i \in DOMAIN input.tables
    PROVE  /\ IsSeq(RowsOf(i)) /\ InputRows(i) = 1..Len(RowsOf(i)) /\ Len(RowsOf(i)) \in Nat
           /\ PolicyOf(i) \in PostingTables => \A k \in InputRows(i) : IsRow(PolicyOf(i), RowsOf(i)[k])
<1>1. input.tables[i] \in Range(input.tables)
  BY DEF Range
<1>2. /\ IsSeq(RowsOf(i))
      /\ PolicyOf(i) \in PostingTables =>
            \A row \in Range(RowsOf(i)) : IsRow(PolicyOf(i), row)
  BY <1>1, InputsAssumption DEF IsSeq, RowsOf, PolicyOf
<1>3. InputRows(i) = DOMAIN RowsOf(i)
  BY DEF InputRows, RowsOf
<1>4. \A k \in InputRows(i) : RowsOf(i)[k] \in Range(RowsOf(i))
  BY <1>3 DEF Range
<1> QED  BY <1>2, <1>3, <1>4, SeqIs

\* The tables of the input.
LEMMA TablesAreThere ==
    ASSUME input \in Inputs
    PROVE  DOMAIN input.tables = 1..Len(input.tables) /\ Len(input.tables) \in Nat
<1>1. IsSeq(input.tables)
  BY InputsAssumption DEF IsSeq
<1> QED  BY <1>1, SeqIs

Identities == {identity[n] : n \in DOMAIN identity}

\* x is the disposition of row k of the table in hand, or the blocker for it.
IsAnswer(k, x) ==
    \/ /\ "row" \in DOMAIN x /\ "blocker" \notin DOMAIN x
       /\ x.row = <<Table.policy, k>>
       /\ IsPosted(x) => x.posting.row = x.row /\ x.posting.account \in Identities
    \/ "row" \notin DOMAIN x /\ "blocker" \in DOMAIN x

\* An exclusion is a disposition, without a posting.
LEMMA ExcludedIs ==
    ASSUME NEW k
    PROVE  /\ IsAnswer(k, Excluded(k)) /\ "row" \in DOMAIN Excluded(k)
           /\ \A o : Says(Table.policy, k, FALSE, o, Excluded(k))
  BY DEF IsAnswer, Excluded, Says, IsPosted

\* A failure is not.
LEMMA FailsIs ==
    ASSUME NEW k, NEW kind
    PROVE  IsAnswer(k, Fails(kind)) /\ "row" \notin DOMAIN Fails(kind)
  BY DEF IsAnswer, Fails

\* What an observation comes to: a disposition only if it is decoded, and with
\* a posting of it only if it is one.
LEMMA NormalizedIs ==
    ASSUME NEW k, NEW o
    PROVE  /\ IsAnswer(k, Normalized(k, o))
           /\ IsObservation(o) /\ "row" \in DOMAIN Normalized(k, o) =>
                 /\ o.kind # "failed"
                 /\ Says(Table.policy, k, o.kind = "posting", o, Normalized(k, o))
<1> DEFINE p == [row |-> <<Table.policy, k>>, id |-> <<Table.policy, o.target>>,
                 txn |-> o.master, account |-> identity[o.account],
                 date |-> o.date, amount |-> o.cents]
           x == [row |-> <<Table.policy, k>>, posting |-> p]
<1>1. o.account \in DOMAIN identity =>
        IsAnswer(k, x) /\ Says(Table.policy, k, TRUE, o, x)
  BY DEF IsAnswer, Says, IsPosted, Identities
<1>2. \/ o.kind = "failed" /\ \E kind : Normalized(k, o) = Fails(kind)
      \/ o.kind \in {"neutral", "zero"} /\ Normalized(k, o) = Excluded(k)
      \/ o.kind # "failed" /\ \E kind : Normalized(k, o) = Fails(kind)
      \/ /\ o.account \in DOMAIN identity /\ o.kind \notin {"failed", "neutral", "zero"}
         /\ Normalized(k, o) = x
  BY DEF Normalized
<1> HIDE DEF x, p
<1>3. CASE \E kind : Normalized(k, o) = Fails(kind)
  BY <1>3, FailsIs
<1>4. CASE o.kind \in {"neutral", "zero"} /\ Normalized(k, o) = Excluded(k)
  <2>1. Says(Table.policy, k, FALSE, o, Excluded(k)) /\ IsAnswer(k, Excluded(k))
    BY ExcludedIs
  <2>2. o.kind # "failed" /\ (o.kind = "posting") = FALSE
    BY <1>4
  <2> QED  BY <1>4, <2>1, <2>2
<1>5. CASE /\ o.account \in DOMAIN identity /\ o.kind \notin {"failed", "neutral", "zero"}
           /\ Normalized(k, o) = x
  <2>1. IsObservation(o) => o.kind = "posting"
    BY <1>5 DEF IsObservation, Kinds
  <2> QED  BY <1>1, <1>5, <2>1
<1> QED  BY <1>2, <1>3, <1>4, <1>5

\* r gives every row of the table in hand its answer.
Gives(r) ==
    /\ r = [k \in DOMAIN Rows |-> r[k]]
    /\ \A k \in DOMAIN Rows : IsAnswer(k, r[k])

\* The rows whose result is a disposition.
RowsAt(r) == {k \in DOMAIN r : "row" \in DOMAIN r[k]}

Widens(new, old, S) == Range(new) = Range(old) \cup S

\* What is pushed after old, of the elements of r at K.
LEMMA Pushed ==
    ASSUME NEW old, IsSeq(old), NEW n \in Nat, NEW K \in SUBSET (1..n), NEW r,
           NEW new, new = old \o Kept(r, K)
    PROVE  /\ IsSeq(new) /\ DOMAIN old \subseteq DOMAIN new
           /\ Len(old) \in Nat /\ Len(new) \in Nat /\ Len(new) <= Len(old) + n
           /\ K = 1..n => Len(new) = Len(old) + n
           /\ \A d \in DOMAIN old : new[d] = old[d]
           /\ Widens(new, old, Taken(r, K))
<1> DEFINE t == Kept(r, K)
<1>1. /\ IsFiniteSet(K) /\ K \subseteq Int /\ Cardinality(K) \in Nat /\ Cardinality(K) <= n
      /\ K = 1..n => Cardinality(K) = n
  BY KeptFits
<1>2. IsSeq(t) /\ Len(t) = Cardinality(K) /\ Range(t) = Taken(r, K)
  BY <1>1, KeptHas
<1> HIDE DEF t
<1>3. new = old \o t
  BY DEF t
<1>4. /\ IsSeq(new) /\ Len(new) = Len(old) + Len(t) /\ DOMAIN old \subseteq DOMAIN new
      /\ \A d \in DOMAIN old : new[d] = old[d]
      /\ Range(new) = Range(old) \cup Range(t)
  <2>1. IsSeq(new)
    BY <1>2, <1>3, Joined
  <2>2. Len(new) = Len(old) + Len(t)
    BY <1>2, <1>3, Joined
  <2>3. DOMAIN old \subseteq DOMAIN new
    BY <1>2, <1>3, Joined
  <2>4. \A d \in DOMAIN old : new[d] = old[d]
    BY <1>2, <1>3, Joined
  <2>5. Range(new) = Range(old) \cup Range(t)
    BY <1>2, <1>3, Joined
  <2> QED  BY <2>1, <2>2, <2>3, <2>4, <2>5
<1>5. Len(old) \in Nat
  BY SeqIs
<1>6. /\ Len(new) \in Nat /\ Len(new) <= Len(old) + n
      /\ K = 1..n => Len(new) = Len(old) + n
  BY <1>1, <1>2, <1>4, <1>5
<1> QED  BY <1>2, <1>4, <1>5, <1>6 DEF Widens

\* What a table adds to the dispositions.
LEMMA DisposeAdds ==
    ASSUME Answered, next \in DOMAIN input.tables,
           NEW r, Gives(r), NEW noted, Dispose(r, noted)
    PROVE  /\ IsSeq(dispositions') /\ DOMAIN r = DOMAIN Rows
           /\ DOMAIN dispositions \subseteq DOMAIN dispositions'
           /\ \A d \in DOMAIN dispositions : dispositions'[d] = dispositions[d]
           /\ Range(dispositions') = Range(dispositions) \cup Taken(r, RowsAt(r))
           /\ candidates' \in Nat /\ Len(dispositions') <= candidates'
           /\ RowsAt(r) = DOMAIN r /\ Len(dispositions) = candidates => Len(dispositions') = candidates'
<1> DEFINE n == Len(RowsOf(next))
<1>1. DOMAIN Rows = 1..n /\ n \in Nat
  BY RowsAreThere DEF Answered, Rows, Table, RowsOf, InputRows
<1>2. DOMAIN r = 1..n /\ Len(r) = n
  <2>1. DOMAIN r = 1..n /\ r = [i \in 1..n |-> r[i]]
    BY <1>1 DEF Gives
  <2> HIDE DEF n
  <2> QED  BY <1>1, <2>1, IsSeqOf
<1>3. RowsAt(r) \in SUBSET (1..n)
  BY <1>2 DEF RowsAt
<1>4. dispositions' = dispositions \o Kept(r, RowsAt(r)) /\ candidates' = candidates + n
  BY <1>2 DEF Dispose, RowsAt
<1>5. IsSeq(dispositions) /\ candidates \in Nat /\ Len(dispositions) <= candidates
  BY DEF Answered
<1> HIDE DEF n
<1> DEFINE D == dispositions'
           C == candidates'
           K == RowsAt(r)
<1> HIDE DEF D, C, K
<1>6. n \in Nat /\ K \in SUBSET (1..n) /\ D = dispositions \o Kept(r, K) /\ IsSeq(dispositions)
  BY <1>1, <1>3, <1>4, <1>5 DEF D, K
<1>7. IsSeq(D)
  BY <1>6, Pushed
<1>8. DOMAIN dispositions \subseteq DOMAIN D
  BY <1>6, Pushed
<1>9. \A d \in DOMAIN dispositions : D[d] = dispositions[d]
  BY <1>6, Pushed
<1>10. Widens(D, dispositions, Taken(r, K))
  BY <1>6, Pushed
<1>11. Len(dispositions) \in Nat /\ Len(D) \in Nat
  BY <1>6, <1>7, SeqIs
<1>12. Len(D) <= Len(dispositions) + n
  BY <1>6, Pushed
<1>13. K = 1..n => Len(D) = Len(dispositions) + n
  BY <1>6, Pushed
<1>14. C \in Nat /\ C = candidates + n
  BY <1>1, <1>4, <1>5 DEF C
<1>15. Len(D) <= C
  BY <1>1, <1>5, <1>11, <1>12, <1>14
<1>16. K = 1..n /\ Len(dispositions) = candidates => Len(D) = C
  BY <1>13, <1>14
<1> QED  BY <1>1, <1>2, <1>7, <1>8, <1>9, <1>10, <1>14, <1>15, <1>16 DEF D, C, K, Widens

\* What a table that gives every row its answer leaves of the blockers.
LEMMA DisposeBlocks ==
    ASSUME NEW r, Gives(r), NEW noted, Dispose(r, noted)
    PROVE  /\ blockers \subseteq blockers'
           /\ blockers' = {} => noted = {} /\ RowsAt(r) = DOMAIN Rows
           /\ \A k \in DOMAIN Rows \ RowsAt(r) : \E b \in blockers' : b[2] = Table.policy
<1>1. blockers' = blockers
         \cup {<<kind, Table.policy>> : kind \in noted}
         \cup {<<r[k].blocker, Table.policy>> : k \in {k \in DOMAIN r : "blocker" \in DOMAIN r[k]}}
  BY DEF Dispose
<1>2. DOMAIN r = DOMAIN Rows
  BY DEF Gives
<1>3. ASSUME NEW k \in DOMAIN Rows \ RowsAt(r)
      PROVE  \E b \in blockers' : b[2] = Table.policy
  <2>1. "blocker" \in DOMAIN r[k]
    BY <1>2 DEF Gives, IsAnswer, RowsAt
  <2>2. <<r[k].blocker, Table.policy>> \in blockers'
    BY <1>1, <1>2, <2>1
  <2> QED  BY <2>2
<1>4. RowsAt(r) \subseteq DOMAIN Rows
  BY <1>2 DEF RowsAt
<1> QED  BY <1>1, <1>3, <1>4

\* A table that gives each of its rows an answer.
LEMMA DisposeKeeps ==
    ASSUME Answered, pc = "postings", next \in DOMAIN input.tables, Table.policy \in PostingTables,
           NEW r, Gives(r), NEW noted, Dispose(r, noted)
    PROVE  Answered'
<1>0. /\ input' = input /\ pc' = pc /\ next' = next + 1 /\ identity' = identity /\ ledger' = ledger
  BY DEF Dispose
<1>1. /\ next \in Nat /\ next' \in 1..(Len(input.tables) + 1) /\ next \in 1..(next' - 1)
      /\ \A i \in 1..(next - 1) : i \in 1..(next' - 1)
      /\ \A i \in 1..(next' - 1) : i = next \/ i \in 1..(next - 1)
  BY <1>0, TablesAreThere DEF Answered
<1>2. /\ PolicyOf(next) = Table.policy /\ InputRows(next) = DOMAIN Rows
      /\ \A i : PolicyOf(i)' = PolicyOf(i) /\ InputRows(i)' = InputRows(i)
      /\ Numbers' = Numbers /\ Identities' = Identities
  BY <1>0 DEF PolicyOf, Table, InputRows, Rows, Numbers, Identified, Parsed, AccountRows, Identities
<1>3. \A d \in DOMAIN dispositions : Grounded(dispositions[d])
  BY DEF Answered
<1>4. ASSUME NEW d \in DOMAIN dispositions' PROVE Grounded(dispositions[d])'
  <2>0. dispositions'[d] \in Range(dispositions) \/ \E k \in RowsAt(r) : dispositions'[d] = r[k]
    <3>1. dispositions'[d] \in Range(dispositions')
      BY DEF Range
    <3>2. Range(dispositions') = Range(dispositions) \cup Taken(r, RowsAt(r))
      BY DisposeAdds
    <3> QED  BY <3>1, <3>2 DEF Taken
  <2>1. CASE dispositions'[d] \in Range(dispositions)
    <3>1. Grounded(dispositions'[d])
      BY <2>1, <1>3 DEF Range
    <3> QED  BY <3>1, <1>0, <1>1, <1>2 DEF Grounded
  <2>2. ASSUME NEW k \in RowsAt(r), dispositions'[d] = r[k] PROVE Grounded(dispositions[d])'
    <3>1. k \in InputRows(next) /\ IsAnswer(k, r[k]) /\ "row" \in DOMAIN r[k]
      BY <1>2 DEF RowsAt, Gives
    <3>2. /\ r[k].row = <<PolicyOf(next), k>>
          /\ IsPosted(r[k]) => r[k].posting.row = r[k].row /\ r[k].posting.account \in Identities
      BY <3>1, <1>2 DEF IsAnswer
    <3> QED  BY <3>1, <3>2, <2>2, <1>0, <1>1, <1>2 DEF Grounded, Identities
  <2> QED  BY <2>0, <2>1, <2>2
<1>5. ASSUME NEW i \in 1..(next' - 1), NEW k \in InputRows(i), PolicyOf(i) \in PostingTables
      PROVE  IsDisposed(i, k)' \/ \E b \in blockers' : b[2] = PolicyOf(i)
  <2>1. CASE i = next
    <3>1. CASE k \in RowsAt(r)
      <4>0. r[k] \in Range(dispositions')
        <5>1. Range(dispositions') = Range(dispositions) \cup Taken(r, RowsAt(r))
          BY DisposeAdds
        <5> QED  BY <3>1, <5>1 DEF Taken
      <4>1. PICK d \in DOMAIN dispositions' : dispositions'[d] = r[k]
        BY <4>0 DEF Range
      <4>2. r[k].row = <<Table.policy, k>>
        BY <3>1 DEF RowsAt, Gives, IsAnswer
      <4> QED  BY <4>1, <4>2, <2>1, <1>0 DEF IsDisposed, Table
    <3>2. CASE k \notin RowsAt(r)
      BY <3>2, <2>1, <1>2, DisposeBlocks
    <3> QED  BY <3>1, <3>2
  <2>2. CASE i \in 1..(next - 1)
    <3>1. IsDisposed(i, k) \/ \E b \in blockers : b[2] = PolicyOf(i)
      BY <2>2, <1>5 DEF Answered, GapsAreNamed, PolicyOf
    <3>2. IsDisposed(i, k) => IsDisposed(i, k)'
      BY <1>0, DisposeAdds DEF IsDisposed
    <3>3. blockers \subseteq blockers'
      BY DisposeBlocks
    <3>4. CASE IsDisposed(i, k)
      BY <3>2, <3>4
    <3>5. CASE \E b \in blockers : b[2] = PolicyOf(i)
      BY <3>3, <3>5
    <3> QED  BY <3>1, <3>4, <3>5
  <2>3. i = next \/ i \in 1..(next - 1)
    BY <1>1
  <2> QED  BY <2>1, <2>2, <2>3
<1>6. GapsAreNamed'
  <2>1. blockers' = {} => Len(dispositions') = candidates'
    <3>1. blockers' = {} => blockers = {} /\ RowsAt(r) = DOMAIN r
      BY DisposeBlocks, DisposeAdds
    <3> QED  BY <3>1, DisposeAdds DEF Answered, GapsAreNamed
  <2>2. \A i \in 1..(next' - 1) : \A k \in InputRows(i)' :
          LET t == input'.tables[i].policy IN
          t \in PostingTables => IsDisposed(i, k)' \/ \E b \in blockers' : b[2] = t
    BY <1>5, <1>0, <1>2 DEF PolicyOf
  <2> QED  BY <2>1, <2>2 DEF GapsAreNamed
<1>7. /\ IsSeq(dispositions') /\ candidates' \in Nat /\ Len(dispositions') <= candidates'
  BY DisposeAdds
<1> QED  BY <1>0, <1>1, <1>2, <1>4, <1>6, <1>7 DEF Answered, IsSeq

\* The results of each table.
JournalResults ==
    [k \in DOMAIN Rows |->
        IF Rows[k].kind # "posting" \/ Rows[k].off THEN Excluded(k)
        ELSE IF Rows[k].date = Null \/ Rows[k].account \notin DOMAIN identity
        THEN Fails("PostingAdaptationFailed")
        ELSE Normalized(k, Rows[k])]

BillResults ==
    [k \in DOMAIN Rows |->
        IF Rows[k].date = Null \/ Rows[k].account \notin DOMAIN identity
        THEN Fails("PostingAdaptationFailed")
        ELSE IF Rows[k].noPost \/ Rows[k].memorized THEN Excluded(k)
        ELSE Normalized(k, Rows[k])]

PaymentResults == [k \in DOMAIN Rows |-> Normalized(k, Rows[k])]

DepositResults ==
    [k \in DOMAIN Rows |-> IF k \in Headers THEN Excluded(k) ELSE Normalized(k, Rows[k])]

NoResults == [k \in DOMAIN Rows |-> Fails("PostingAdaptationFailed")]

\* Whatever a table's rows come to, each has its answer.
LEMMA EachGives ==
    /\ Gives(JournalResults) /\ Gives(BillResults) /\ Gives(PaymentResults)
    /\ Gives(DepositResults) /\ Gives(NoResults)
    /\ \A O : Gives(CheckResults(O))
<1>1. \A k, o : IsAnswer(k, Normalized(k, o))
  BY NormalizedIs
<1>2. \A k : IsAnswer(k, Excluded(k))
  BY ExcludedIs
<1>3. \A k, kind : IsAnswer(k, Fails(kind))
  BY FailsIs
<1>4. Gives(JournalResults)
  BY <1>1, <1>2, <1>3 DEF Gives, JournalResults
<1>5. Gives(BillResults)
  BY <1>1, <1>2, <1>3 DEF Gives, BillResults
<1>6. Gives(PaymentResults)
  BY <1>1 DEF Gives, PaymentResults
<1>7. Gives(DepositResults)
  BY <1>1, <1>2 DEF Gives, DepositResults
<1>8. Gives(NoResults)
  BY <1>3 DEF Gives, NoResults
<1>9. \A O : Gives(CheckResults(O))
  BY <1>1, <1>2 DEF Gives, CheckResults
<1> QED  BY <1>4, <1>5, <1>6, <1>7, <1>8, <1>9

\* A posting table ends with a blocker of its own or with its results.
TableEnds ==
    \/ \E kind : Stop(kind)
    \/ \E r, noted : Gives(r) /\ Dispose(r, noted)

\* A posting table ends in one of three ways.
LEMMA TablesEnd ==
    ASSUME NormalizeJournal \/ NormalizeCheck \/ NormalizeBill \/ NormalizeBillPayment \/ NormalizeDeposit
    PROVE  /\ pc = "postings" /\ next \in DOMAIN input.tables /\ Table.policy \in PostingTables
           /\ TableEnds
<1>1. ASSUME NormalizeJournal PROVE (\E kind : Stop(kind)) \/ \E noted : Dispose(JournalResults, noted)
  BY <1>1 DEF NormalizeJournal, JournalResults
<1>2. ASSUME NormalizeBill PROVE (\E kind : Stop(kind)) \/ \E noted : Dispose(BillResults, noted)
  BY <1>2 DEF NormalizeBill, BillResults
<1>3. ASSUME NormalizeBillPayment PROVE (\E kind : Stop(kind)) \/ \E noted : Dispose(PaymentResults, noted)
  BY <1>3 DEF NormalizeBillPayment, PaymentResults
<1>4. ASSUME NormalizeDeposit PROVE (\E kind : Stop(kind)) \/ \E noted : Dispose(DepositResults, noted)
  BY <1>4 DEF NormalizeDeposit, DepositResults
<1>5. ASSUME NormalizeCheck
      PROVE  \E noted : Dispose(NoResults, noted) \/ \E O : Dispose(CheckResults(O), noted)
  BY <1>5 DEF NormalizeCheck, NoResults
<1>6. TableEnds
  BY <1>1, <1>2, <1>3, <1>4, <1>5, EachGives DEF TableEnds
<1>7. pc = "postings" /\ next \in DOMAIN input.tables /\ Table.policy \in PostingTables
  BY DEF NormalizeJournal, NormalizeCheck, NormalizeBill, NormalizeBillPayment, NormalizeDeposit,
         InHand, PostingTables, Policies
<1> QED  BY <1>6, <1>7

\* A step that leaves the tables, the accounts and the dispositions as they are
\* and names nothing less.
LEMMA StaysAnswered ==
    ASSUME Answered, input' = input, next' = next, identity' = identity,
           dispositions' = dispositions, candidates' = candidates,
           pc' \in {"tables", "identities", "accounts", "postings", "done"},
           pc' \in {"tables", "identities", "accounts"} => pc \in {"tables", "identities", "accounts"},
           ledger' # Null => pc' = "done",
           blockers \subseteq blockers' \/ blockers = {},
           blockers' = {} => blockers = {} \/ pc = "tables"
    PROVE  Answered'
<1>1. \A i : PolicyOf(i)' = PolicyOf(i) /\ InputRows(i)' = InputRows(i)
  BY DEF PolicyOf, InputRows
<1>2. Numbers' = Numbers
  BY DEF Numbers, Identified, Parsed, AccountRows
<1>3. \A x : Grounded(x)' = Grounded(x)
  BY <1>1 DEF Grounded, IsPosted
<1>4. \A i, k : IsDisposed(i, k)' = IsDisposed(i, k)
  BY DEF IsDisposed
<1>5. blockers' = {} => Len(dispositions') = candidates'
  <2>1. Len(<<>>) = 0
    OBVIOUS
  <2> QED  BY <2>1 DEF Answered, GapsAreNamed
<1>6. ASSUME NEW i \in 1..(next - 1), NEW k \in InputRows(i), PolicyOf(i) \in PostingTables
      PROVE  IsDisposed(i, k) \/ \E b \in blockers' : b[2] = PolicyOf(i)
  <2>1. IsDisposed(i, k) \/ \E b \in blockers : b[2] = PolicyOf(i)
    BY <1>6 DEF Answered, GapsAreNamed, PolicyOf
  <2> QED  BY <2>1
<1>7. GapsAreNamed'
  BY <1>1, <1>4, <1>5, <1>6 DEF GapsAreNamed, PolicyOf
<1> QED  BY <1>1, <1>2, <1>3, <1>7 DEF Answered, IsSeq, Grounded, IsPosted

\* A table that ends with a blocker of its own, or is none of postings.
LEMMA PassKeeps ==
    ASSUME Answered, pc = "postings", next \in DOMAIN input.tables,
           input' = input, pc' = pc, identity' = identity, dispositions' = dispositions,
           candidates' = candidates, ledger' = ledger, next' = next + 1,
           blockers \subseteq blockers', blockers' = {} => blockers = {},
           Table.policy \in PostingTables => \E b \in blockers' : b[2] = Table.policy
    PROVE  Answered'
<1>1. /\ next' \in 1..(Len(input.tables) + 1)
      /\ \A i \in 1..(next - 1) : i \in 1..(next' - 1)
      /\ \A i \in 1..(next' - 1) : i = next \/ i \in 1..(next - 1)
  BY TablesAreThere DEF Answered
<1>2. \A i : PolicyOf(i)' = PolicyOf(i) /\ InputRows(i)' = InputRows(i)
  BY DEF PolicyOf, InputRows
<1>3. Numbers' = Numbers
  BY DEF Numbers, Identified, Parsed, AccountRows
<1>4. \A x : Grounded(x) => Grounded(x)'
  BY <1>1, <1>2 DEF Grounded, IsPosted
<1>5. \A i, k : IsDisposed(i, k)' = IsDisposed(i, k)
  BY DEF IsDisposed
<1>6. ASSUME NEW i \in 1..(next' - 1), NEW k \in InputRows(i), PolicyOf(i) \in PostingTables
      PROVE  IsDisposed(i, k) \/ \E b \in blockers' : b[2] = PolicyOf(i)
  <2>1. CASE i = next
    BY <2>1, <1>6 DEF PolicyOf, Table
  <2>2. CASE i \in 1..(next - 1)
    <3>1. IsDisposed(i, k) \/ \E b \in blockers : b[2] = PolicyOf(i)
      BY <2>2, <1>6 DEF Answered, GapsAreNamed, PolicyOf
    <3> QED  BY <3>1
  <2>3. i = next \/ i \in 1..(next - 1)
    BY <1>1
  <2> QED  BY <2>1, <2>2, <2>3
<1>7. GapsAreNamed'
  <2>1. blockers' = {} => Len(dispositions') = candidates'
    BY DEF Answered, GapsAreNamed
  <2> QED  BY <2>1, <1>2, <1>5, <1>6 DEF GapsAreNamed, PolicyOf
<1> QED  BY <1>1, <1>3, <1>4, <1>7 DEF Answered, IsSeq

\* Before the posting tables there is nothing to answer for.
LEMMA NothingYet ==
    ASSUME Answered, pc \in {"tables", "identities", "accounts"},
           input' = input, next' = next, dispositions' = dispositions, candidates' = candidates,
           ledger' = ledger, DOMAIN identity' = {} \/ DOMAIN identity' = Numbers,
           pc' \in {"tables", "identities", "accounts", "postings", "done"}
    PROVE  Answered'
<1>1. next = 1 /\ dispositions = <<>> /\ candidates = 0 /\ Len(<<>>) = 0 /\ DOMAIN <<>> = {}
  BY DEF Answered
<1>2. Numbers' = Numbers
  BY DEF Numbers, Identified, Parsed, AccountRows
<1>3. GapsAreNamed'
  BY <1>1 DEF GapsAreNamed
<1> QED  BY <1>1, <1>2, <1>3 DEF Answered, IsSeq

\* It holds before the first table.
LEMMA AnsweredStarts == Init => Answered
<1> SUFFICES ASSUME Init PROVE Answered
  OBVIOUS
<1>1. Len(input.tables) \in Nat
  BY TablesAreThere DEF Init
<1>2. IsSeq(<<>>) /\ Len(<<>>) = 0 /\ DOMAIN <<>> = {}
  BY DEF IsSeq
<1>3. GapsAreNamed
  BY <1>2 DEF Init, GapsAreNamed
<1> QED  BY <1>1, <1>2, <1>3 DEF Init, Answered

\* Every row stays answered.
LEMMA AnsweredStays ==
    ASSUME Answered, [Next]_vars
    PROVE  Answered'
<1>1. CASE CheckTables
  BY <1>1, NothingYet DEF CheckTables, Answered
<1>2. CASE NoAccountSchema
  BY <1>2, NothingYet DEF NoAccountSchema, Answered
<1>3. CASE MapIdentities
  <2>1. DOMAIN identity' = Numbers
    BY <1>3 DEF MapIdentities
  <2> QED  BY <1>3, <2>1, NothingYet DEF MapIdentities
<1>4. CASE NormalizeAccounts
  BY <1>4, NothingYet DEF NormalizeAccounts, Answered
<1>5. CASE SkipTable
  BY <1>5, PassKeeps DEF SkipTable
<1>6. CASE NormalizeJournal \/ NormalizeCheck \/ NormalizeBill \/ NormalizeBillPayment \/ NormalizeDeposit
  <2>1. /\ pc = "postings" /\ next \in DOMAIN input.tables /\ Table.policy \in PostingTables
        /\ TableEnds
    BY <1>6, TablesEnd
  <2>2. ASSUME NEW kind, Stop(kind) PROVE Answered'
    <3>1. <<kind, Table.policy>> \in blockers'
      BY <2>2 DEF Stop
    <3>2. \E b \in blockers' : b[2] = Table.policy
      BY <3>1
    <3> QED  BY <2>1, <2>2, <3>2, PassKeeps DEF Stop
  <2>3. ASSUME NEW r, NEW noted, Gives(r), Dispose(r, noted) PROVE Answered'
    BY <2>1, <2>3, DisposeKeeps
  <2> QED  BY <2>1, <2>2, <2>3 DEF TableEnds
<1>7. CASE Refuse
  BY <1>7, StaysAnswered DEF Refuse, AtEnd, Answered
<1>8. CASE Build
  <2>1. ledger' # Null => pc' = "done"
    BY <1>8 DEF Build
  <2> QED  BY <1>8, <2>1, StaysAnswered DEF Build, AtEnd
<1>9. CASE UNCHANGED vars
  BY <1>9, StaysAnswered DEF vars, Answered
<1> QED
  BY <1>1, <1>2, <1>3, <1>4, <1>5, <1>6, <1>7, <1>8, <1>9 DEF Next, Done

\* Every row of every posting table is disposed of under its own table and to an
\* identified account, or the table has a blocker; as long as there is none, the
\* count of the dispositions is that of the candidates.
THEOREM RowsAnswered == Spec => []EveryRowAnswered
<1>1. Answered => EveryRowAnswered
  <2> SUFFICES ASSUME Answered PROVE TypeOK
    BY DEF Answered, EveryRowAnswered
  <2>1. ASSUME NEW d \in DOMAIN dispositions
        PROVE  /\ dispositions[d].row[1] \in PostingTables
               /\ IsPosted(dispositions[d]) =>
                     \E n \in Numbers : dispositions[d].posting.account = identity[n]
    <3>1. Grounded(dispositions[d])
      BY DEF Answered
    <3>2. dispositions[d].row[1] \in PostingTables
      BY <3>1 DEF Grounded
    <3>3. IsPosted(dispositions[d]) => \E n \in DOMAIN identity : dispositions[d].posting.account = identity[n]
      BY <3>1 DEF Grounded
    <3> QED  BY <3>2, <3>3 DEF Answered
  <2> QED  BY <2>1 DEF Answered, TypeOK
<1> QED  BY <1>1, AnsweredStarts, AnsweredStays, PTL DEF Spec

--------------------------------------------------------------------------------
(* What a table proves *)

\* The cents of the rows S, as the model adds them.
CentsTotal(O, S) == MapThenSumSet(LAMBDA k : O[k].cents, S)

\* The sums of the tables are those of LedgerProofs.
LEMMA CentsTotalIs ==
    ASSUME NEW O, NEW S \in SUBSET DOMAIN O, IsFiniteSet(S)
    PROVE  CentsTotal(O, S) = Sums!SumOf(CentsOf(O), S)
<1> DEFINE Iter(i) == i = [s \in SUBSET S |->
                             IF s = {} THEN 0 ELSE O[Sums!Pick(s)].cents + i[s \ {Sums!Pick(s)}]]
<1>1. ASSUME NEW i PROVE Iter(i) <=> Sums!Adds(i, CentsOf(O), S)
  <2>1. \A s \in SUBSET S : s # {} => CentsOf(O)[Sums!Pick(s)] = O[Sums!Pick(s)].cents
    BY Sums!PickIn DEF CentsOf
  <2>2. [s \in SUBSET S |-> IF s = {} THEN 0 ELSE O[Sums!Pick(s)].cents + i[s \ {Sums!Pick(s)}]]
        = [s \in SUBSET S |-> IF s = {} THEN 0 ELSE CentsOf(O)[Sums!Pick(s)] + i[s \ {Sums!Pick(s)}]]
    BY <2>1
  <2> QED  BY <2>2 DEF Sums!Adds
<1>2. CentsTotal(O, S) = (CHOOSE i : Iter(i))[S]
  BY DEF CentsTotal, MapThenSumSet, MapThenFoldSet, Sums!Pick
<1> DEFINE j == CHOOSE i : Iter(i)
<1>3. Iter(j)
  <2>1. \E i : Iter(i)
    BY <1>1, SumsAssumed, Sums!AddsExists
  <2> HIDE DEF Iter
  <2> QED  BY <2>1
<1>4. CentsTotal(O, S) = j[S]
  BY <1>2
<1>5. Sums!Adds(j, CentsOf(O), S)
  BY <1>1, <1>3
<1> HIDE DEF j
<1> QED  BY <1>4, <1>5, SumsAssumed, Sums!SumIs

\* The rows of the table in hand.
InHandRows ==
    /\ input \in Inputs /\ next \in DOMAIN input.tables
    /\ Table.policy \in PostingTables

\* They are finitely many, and each is as its table has it.
LEMMA RowsInHand ==
    ASSUME InHandRows
    PROVE  /\ Rows = RowsOf(next) /\ Table.policy = PolicyOf(next) /\ DOMAIN Rows = InputRows(next)
           /\ \A S \in SUBSET DOMAIN Rows : IsFiniteSet(S)
           /\ \A k \in DOMAIN Rows : IsRow(Table.policy, Rows[k])
<1>1. /\ Rows = RowsOf(next) /\ Table.policy = PolicyOf(next) /\ DOMAIN Rows = InputRows(next)
  BY DEF Rows, Table, RowsOf, PolicyOf, InputRows
<1>2. DOMAIN Rows = 1..Len(RowsOf(next)) /\ Len(RowsOf(next)) \in Nat
  BY <1>1, RowsAreThere DEF InHandRows
<1>3. IsFiniteSet(DOMAIN Rows)
  BY <1>2, FS_Interval
<1>4. \A S \in SUBSET DOMAIN Rows : IsFiniteSet(S)
  BY <1>3, FS_Subset
<1>5. \A k \in DOMAIN Rows : IsRow(Table.policy, Rows[k])
  BY <1>1, RowsAreThere DEF InHandRows
<1> QED  BY <1>1, <1>4, <1>5

\* What a balanced set of rows is.
LEMMA BalancedIs ==
    ASSUME InHandRows, NEW S \in SUBSET DOMAIN Rows, Balanced(S), NEW k \in S
    PROVE  Sums!SumOf(CentsOf(Rows), OfMaster(S, Rows[k].master)) = 0
<1> DEFINE F == OfMaster(S, Rows[k].master)
<1>1. F \in SUBSET DOMAIN Rows /\ IsFiniteSet(F)
  BY RowsInHand DEF OfMaster
<1>2. Net(F) = 0
  BY DEF Balanced, Masters
<1>3. Net(F) = CentsTotal(Rows, F)
  BY DEF Net, CentsTotal
<1> HIDE DEF F
<1>4. CentsTotal(Rows, F) = Sums!SumOf(CentsOf(Rows), F)
  BY <1>1, CentsTotalIs
<1> QED  BY <1>2, <1>3, <1>4 DEF F

\* r says of each row of the table in hand what the reading O sees in it.
SaysAll(O, r) ==
    \A k \in DOMAIN Rows : Says(Table.policy, k, k \in LiveIn(next, O), O[k], r[k])

\* The results of a General Journal table without blockers.
LEMMA JournalIsProven ==
    ASSUME InHandRows, Table.policy = "Journal", JournalClassified,
           RowsAt(JournalResults) = DOMAIN Rows, Balanced(Observed({"posting"}))
    PROVE  Rows \in Readings(next) /\ Proven(next, Rows) /\ SaysAll(Rows, JournalResults)
<1> DEFINE P == Observed({"posting"})
           L == LiveIn(next, Rows)
<1>1. Rows \in Readings(next) /\ L = {k \in P : ~Rows[k].off}
  BY RowsInHand DEF Readings, LiveIn, Live, Observed
<1>2. \A k \in DOMAIN Rows : IsObservation(Rows[k])
  BY RowsInHand DEF IsRow
<1>3. ASSUME NEW k \in DOMAIN Rows
      PROVE  Says(Table.policy, k, k \in L, Rows[k], JournalResults[k])
  <2>0. k \in L <=> Rows[k].kind = "posting" /\ ~Rows[k].off
    BY <1>1 DEF Observed
  <2> HIDE DEF L
  <2>1. "row" \in DOMAIN JournalResults[k]
    BY DEF RowsAt
  <2>2. CASE Rows[k].kind # "posting" \/ Rows[k].off
    <3>1. JournalResults[k] = Excluded(k)
      BY <2>2 DEF JournalResults
    <3>2. (k \in L) = FALSE
      BY <2>0, <2>2
    <3> QED  BY <3>1, <3>2, ExcludedIs
  <2>3. CASE Rows[k].kind = "posting" /\ ~Rows[k].off
    <3>1. JournalResults[k] = Normalized(k, Rows[k]) \/ \E kind : JournalResults[k] = Fails(kind)
      BY <2>3 DEF JournalResults
    <3>2. JournalResults[k] = Normalized(k, Rows[k])
      BY <3>1, <2>1, FailsIs
    <3>3. (k \in L) = (Rows[k].kind = "posting")
      BY <2>0, <2>3
    <3> QED  BY <3>2, <3>3, <2>1, <1>2, NormalizedIs
  <2> QED  BY <2>2, <2>3
<1>4. ASSUME NEW k \in L PROVE Sums!SumOf(CentsOf(Rows), MasterIn(next, Rows, Rows[k].master)) = 0
  <2>1. k \in P /\ P \in SUBSET DOMAIN Rows
    BY <1>1 DEF Observed
  <2>2. MasterIn(next, Rows, Rows[k].master) = OfMaster(P, Rows[k].master)
    BY <1>1, <1>4 DEF MasterIn, OfMaster, JournalClassified
  <2> QED  BY <2>1, <2>2, BalancedIs
<1>5. Proven(next, Rows)
  <2>1. \A k \in L : Rows[k].cents \in Int
    BY <1>1, <1>2 DEF Observed, IsObservation
  <2>2. PolicyOf(next) = "Journal"
    BY RowsInHand
  <2> QED  BY <2>1, <2>2, <1>4 DEF Proven
<1> QED  BY <1>1, <1>3, <1>5 DEF SaysAll

\* The results of a bill table without blockers.
LEMMA BillIsProven ==
    ASSUME InHandRows, Table.policy = "Bill", BillLifecycleHolds,
           RowsAt(BillResults) = DOMAIN Rows, Balanced(Observed({"posting"}))
    PROVE  Rows \in Readings(next) /\ Proven(next, Rows) /\ SaysAll(Rows, BillResults)
<1> DEFINE P == Observed({"posting"})
           L == LiveIn(next, Rows)
<1>1. Rows \in Readings(next) /\ L = {k \in P : ~Rows[k].noPost /\ ~Rows[k].memorized}
  BY RowsInHand DEF Readings, LiveIn, Live, Observed
<1>2. \A k \in DOMAIN Rows : IsObservation(Rows[k]) /\ Rows[k].kind # "failed"
  BY RowsInHand DEF IsRow, BillLifecycleHolds
<1>3. ASSUME NEW k \in DOMAIN Rows
      PROVE  Says(Table.policy, k, k \in L, Rows[k], BillResults[k])
  <2>0. k \in L <=> Rows[k].kind = "posting" /\ ~Rows[k].noPost /\ ~Rows[k].memorized
    BY <1>1 DEF Observed
  <2> HIDE DEF L
  <2>1. "row" \in DOMAIN BillResults[k]
    BY DEF RowsAt
  <2>2. CASE Rows[k].noPost \/ Rows[k].memorized
    <3>1. BillResults[k] = Excluded(k) \/ \E kind : BillResults[k] = Fails(kind)
      BY <2>2 DEF BillResults
    <3>2. BillResults[k] = Excluded(k)
      BY <3>1, <2>1, FailsIs
    <3>3. (k \in L) = FALSE
      BY <2>0, <2>2
    <3> QED  BY <3>2, <3>3, ExcludedIs
  <2>3. CASE ~(Rows[k].noPost \/ Rows[k].memorized)
    <3>1. BillResults[k] = Normalized(k, Rows[k]) \/ \E kind : BillResults[k] = Fails(kind)
      BY <2>3 DEF BillResults
    <3>2. BillResults[k] = Normalized(k, Rows[k])
      BY <3>1, <2>1, FailsIs
    <3>3. (k \in L) = (Rows[k].kind = "posting")
      BY <2>0, <2>3
    <3> QED  BY <3>2, <3>3, <2>1, <1>2, NormalizedIs
  <2> QED  BY <2>2, <2>3
<1>4. ASSUME NEW k \in L PROVE Sums!SumOf(CentsOf(Rows), MasterIn(next, Rows, Rows[k].master)) = 0
  <2>1. k \in P /\ P \in SUBSET DOMAIN Rows /\ Rows # <<>>
    BY <1>1 DEF Observed
  <2>2. \A j \in P : Rows[j].master = Rows[k].master =>
            Rows[j].noPost = Rows[k].noPost /\ Rows[j].memorized = Rows[k].memorized
    BY <2>1 DEF BillLifecycleHolds
  <2>3. MasterIn(next, Rows, Rows[k].master) = OfMaster(P, Rows[k].master)
    BY <1>1, <1>4, <2>2 DEF MasterIn, OfMaster
  <2> QED  BY <2>1, <2>3, BalancedIs
<1>5. Proven(next, Rows)
  <2>1. \A k \in L : Rows[k].cents \in Int
    BY <1>1, <1>2 DEF Observed, IsObservation
  <2>2. PolicyOf(next) = "Bill"
    BY RowsInHand
  <2> QED  BY <2>1, <2>2, <1>4 DEF Proven
<1> QED  BY <1>1, <1>3, <1>5 DEF SaysAll

\* The results of a bill payment table without blockers.
LEMMA PaymentIsProven ==
    ASSUME InHandRows, Table.policy = "BillPayment", RowsAt(PaymentResults) = DOMAIN Rows
    PROVE  Rows \in Readings(next) /\ Proven(next, Rows) /\ SaysAll(Rows, PaymentResults)
<1> DEFINE L == LiveIn(next, Rows)
<1>1. Rows \in Readings(next) /\ L = {k \in DOMAIN Rows : Rows[k].kind = "posting"}
  BY RowsInHand DEF Readings, LiveIn, Live
<1>2. \A k \in DOMAIN Rows : IsObservation(Rows[k])
  BY RowsInHand DEF IsRow
<1>3. ASSUME NEW k \in DOMAIN Rows
      PROVE  Says(Table.policy, k, k \in L, Rows[k], PaymentResults[k])
  <2>1. "row" \in DOMAIN PaymentResults[k] /\ PaymentResults[k] = Normalized(k, Rows[k])
    BY DEF RowsAt, PaymentResults
  <2>2. (k \in L) = (Rows[k].kind = "posting")
    BY <1>1
  <2> HIDE DEF L
  <2> QED  BY <2>1, <2>2, <1>2, NormalizedIs
<1>4. Proven(next, Rows)
  <2>1. \A k \in L : Rows[k].cents \in Int
    BY <1>1, <1>2 DEF IsObservation
  <2>2. PolicyOf(next) = "BillPayment"
    BY RowsInHand
  <2> QED  BY <2>1, <2>2 DEF Proven
<1> QED  BY <1>1, <1>3, <1>4 DEF SaysAll

\* The results of a deposit table without blockers.
LEMMA DepositIsProven ==
    ASSUME InHandRows, Table.policy = "Deposit", HeadersHold,
           RowsAt(DepositResults) = DOMAIN Rows, Balanced(Observed({"posting"}) \ Headers)
    PROVE  Rows \in Readings(next) /\ Proven(next, Rows) /\ SaysAll(Rows, DepositResults)
<1> DEFINE P == Observed({"posting"}) \ Headers
           L == LiveIn(next, Rows)
<1>1. Rows \in Readings(next) /\ L = {k \in DOMAIN Rows : Rows[k].kind = "posting"}
  BY RowsInHand DEF Readings, LiveIn, Live
<1>2. \A k \in DOMAIN Rows :
          /\ IsObservation(Rows[k])
          /\ Rows[k].role \in {"header70", "header71"} => Rows[k].kind # "posting"
  BY RowsInHand DEF IsRow
<1>3. \A k \in Headers : Rows[k].kind # "posting"
  <2>1. \A h \in Headers : h \in DOMAIN Rows /\ Rows[h].role \in {"header70", "header71"}
    BY DEF HeadersHold, HeaderHolds, Headers
  <2> QED  BY <1>2, <2>1
<1>4. L = P
  BY <1>1, <1>3 DEF Observed
<1>5. ASSUME NEW k \in DOMAIN Rows
      PROVE  Says(Table.policy, k, k \in L, Rows[k], DepositResults[k])
  <2>1. "row" \in DOMAIN DepositResults[k]
    BY DEF RowsAt
  <2>2. (k \in L) = (Rows[k].kind = "posting")
    BY <1>1
  <2> HIDE DEF L
  <2>3. CASE k \in Headers
    <3>1. DepositResults[k] = Excluded(k) /\ (k \in L) = FALSE
      BY <2>2, <2>3, <1>3 DEF DepositResults
    <3> QED  BY <3>1, ExcludedIs
  <2>4. CASE k \notin Headers
    <3>1. DepositResults[k] = Normalized(k, Rows[k])
      BY <2>4 DEF DepositResults
    <3> QED  BY <3>1, <2>1, <2>2, <1>2, NormalizedIs
  <2> QED  BY <2>3, <2>4
<1>6. ASSUME NEW k \in L PROVE Sums!SumOf(CentsOf(Rows), MasterIn(next, Rows, Rows[k].master)) = 0
  <2>1. k \in P /\ P \in SUBSET DOMAIN Rows
    BY <1>4 DEF Observed
  <2>2. MasterIn(next, Rows, Rows[k].master) = OfMaster(P, Rows[k].master)
    BY <1>4 DEF MasterIn, OfMaster
  <2> QED  BY <2>1, <2>2, BalancedIs
<1>7. Proven(next, Rows)
  <2>1. \A k \in L : Rows[k].cents \in Int
    BY <1>1, <1>2 DEF IsObservation
  <2>2. PolicyOf(next) = "Deposit"
    BY RowsInHand
  <2> QED  BY <2>1, <2>2, <1>6 DEF Proven
<1> QED  BY <1>1, <1>5, <1>7 DEF SaysAll

\* The results of a check table, taken from one of the decoders as a whole.
LEMMA CheckIsProven ==
    ASSUME InHandRows, Table.policy = "Check",
           NEW s \in DOMAIN Strategies, Accepts(Strategies[s])
    PROVE  LET O == Strategies[s] IN
           O \in Readings(next) /\ Proven(next, O) /\ SaysAll(O, CheckResults(O))
<1> DEFINE O == Strategies[s]
           L == LiveIn(next, O)
<1>1. PolicyOf(next) = "Check" /\ Lines = LinesOf(next) /\ Lines \subseteq DOMAIN Rows
  BY RowsInHand DEF Lines, LinesOf
<1>2. O \in Readings(next)
  <2>1. O = [k \in Lines |-> Materialized(k)] \/ O = [k \in Lines |-> Rows[k].prefix]
    BY DEF Strategies
  <2>2. \A k \in Lines : Materialized(k) = AsMaterialized(RowsOf(next)[k]) /\ Rows[k] = RowsOf(next)[k]
    BY RowsInHand DEF Materialized, AsMaterialized
  <2> QED  BY <1>1, <2>1, <2>2 DEF Readings
<1>3. DOMAIN O = Lines /\ \A k \in Lines : IsObservation(O[k])
  <2>1. \A k \in Lines : IsObservation(Rows[k].physical) /\ IsObservation(Rows[k].prefix)
    BY RowsInHand DEF IsRow, Lines
  <2>2. \A k \in Lines : IsObservation(Materialized(k))
    BY <2>1 DEF Materialized
  <2>3. O = [k \in Lines |-> Materialized(k)] \/ O = [k \in Lines |-> Rows[k].prefix]
    BY DEF Strategies
  <2> QED  BY <2>1, <2>2, <2>3
<1> HIDE DEF O
<1>4. CheckHolds(O) /\ \A k \in DOMAIN Rows : "row" \in DOMAIN CheckResults(O)[k]
  BY DEF Accepts, O
<1>5. L = {k \in Lines : O[k].kind = "posting"}
  BY <1>1, RowsInHand DEF LiveIn
<1>6. ASSUME NEW k \in DOMAIN Rows
      PROVE  Says(Table.policy, k, k \in L, O[k], CheckResults(O)[k])
  <2>1. CASE k \in Lines
    <3>1. CheckResults(O)[k] = Normalized(k, O[k])
      BY <2>1 DEF CheckResults
    <3>2. (k \in L) = (O[k].kind = "posting")
      BY <2>1, <1>5
    <3> HIDE DEF L
    <3> QED  BY <3>1, <3>2, <2>1, <1>3, <1>4, NormalizedIs
  <2>2. CASE k \notin Lines
    <3>1. CheckResults(O)[k] = Excluded(k) /\ (k \in L) = FALSE
      BY <2>2, <1>5 DEF CheckResults
    <3> HIDE DEF L
    <3> QED  BY <3>1, ExcludedIs
  <2> QED  BY <2>1, <2>2
<1>7. ASSUME NEW k \in L PROVE Sums!SumOf(CentsOf(O), MasterIn(next, O, O[k].master)) = 0
  <2> DEFINE M == {j \in Lines : O[j].kind = "posting" /\ O[j].master = O[k].master}
  <2>1. k \in Lines /\ M = MasterIn(next, O, O[k].master)
    BY <1>5 DEF MasterIn
  <2>2. CentsTotal(O, M) = 0
    <3>1. \A m \in {O[j].master : j \in Lines} :
              CentsTotal(O, {j \in Lines : O[j].kind = "posting" /\ O[j].master = m}) = 0
      BY <1>4 DEF CheckHolds, CentsTotal
    <3>2. O[k].master \in {O[j].master : j \in Lines}
      BY <2>1
    <3> QED  BY <3>1, <3>2
  <2>3. M \in SUBSET DOMAIN O /\ IsFiniteSet(M)
    BY <1>1, <1>3, RowsInHand
  <2> HIDE DEF M
  <2> QED  BY <2>1, <2>2, <2>3, CentsTotalIs
<1>8. Proven(next, O)
  <2>1. \A k \in L : O[k].cents \in Int
    BY <1>3, <1>5 DEF IsObservation
  <2>2. \A k \in Lines : O[k].kind # "failed"
    BY <1>4 DEF CheckHolds
  <2> QED  BY <2>1, <2>2, <1>1, <1>7 DEF Proven
<1> QED  BY <1>2, <1>6, <1>8 DEF SaysAll, O

--------------------------------------------------------------------------------
(* Settled tables *)

\* What is said of a table rests on the input alone.
LEMMA InputStays ==
    ASSUME input' = input
    PROVE  \A i : /\ PolicyOf(i)' = PolicyOf(i) /\ InputRows(i)' = InputRows(i)
                  /\ Readings(i)' = Readings(i)
                  /\ \A O : LiveIn(i, O)' = LiveIn(i, O) /\ Proven(i, O)' = Proven(i, O)
<1>1. \A i : /\ PolicyOf(i)' = PolicyOf(i) /\ InputRows(i)' = InputRows(i)
             /\ RowsOf(i)' = RowsOf(i) /\ LinesOf(i)' = LinesOf(i)
  BY DEF PolicyOf, InputRows, RowsOf, LinesOf
<1>2. \A i : Readings(i)' = Readings(i)
  BY <1>1 DEF Readings
<1>3. \A i, O : LiveIn(i, O)' = LiveIn(i, O)
  BY <1>1 DEF LiveIn
<1>4. \A i, O, m : MasterIn(i, O, m)' = MasterIn(i, O, m)
  BY <1>3 DEF MasterIn
<1>5. \A i, O : Proven(i, O)' = Proven(i, O)
  BY <1>1, <1>3, <1>4 DEF Proven
<1> QED  BY <1>1, <1>2, <1>3, <1>5

\* And what was told stays told, when dispositions are only added.
LEMMA ToldStays ==
    ASSUME input' = input, DOMAIN dispositions \subseteq DOMAIN dispositions',
           \A d \in DOMAIN dispositions : dispositions'[d] = dispositions[d]
    PROVE  \A i, O : Told(i, O) => Told(i, O)'
<1>1. \A i, O : PolicyOf(i)' = PolicyOf(i) /\ InputRows(i)' = InputRows(i) /\ LiveIn(i, O)' = LiveIn(i, O)
  BY InputStays
<1> QED  BY <1>1 DEF Told, Says, IsPosted

\* A posting table that adds no blocker is settled as a whole.
LEMMA TableIsProven ==
    ASSUME Answered, blockers' = {},
           NormalizeJournal \/ NormalizeCheck \/ NormalizeBill \/ NormalizeBillPayment \/ NormalizeDeposit
    PROVE  \E r, noted, O :
              /\ Gives(r) /\ Dispose(r, noted) /\ RowsAt(r) = DOMAIN Rows
              /\ O \in Readings(next) /\ Proven(next, O) /\ SaysAll(O, r)
<1>1. InHandRows
  BY TablesEnd DEF InHandRows, Answered
<1>2. ASSUME NEW kind, Stop(kind) PROVE FALSE
  BY <1>2 DEF Stop
<1>3. ASSUME NEW r, NEW noted, Gives(r), Dispose(r, noted)
      PROVE  noted = {} /\ RowsAt(r) = DOMAIN Rows
  BY <1>3, DisposeBlocks
<1>4. CASE NormalizeJournal
  <2>1. JournalClassified /\ Table.policy = "Journal"
        /\ Dispose(JournalResults,
                   IF Balanced(Observed({"posting"})) THEN {} ELSE {"UnbalancedPostingMasters"})
    BY <1>2, <1>4 DEF NormalizeJournal, JournalResults, InHand
  <2>2. Balanced(Observed({"posting"})) /\ RowsAt(JournalResults) = DOMAIN Rows /\ Gives(JournalResults)
    BY <1>3, <2>1, EachGives
  <2> QED  BY <1>1, <2>1, <2>2, JournalIsProven
<1>5. CASE NormalizeBill
  <2>1. BillLifecycleHolds /\ Table.policy = "Bill"
        /\ Dispose(BillResults,
                   IF Balanced(Observed({"posting"})) THEN {} ELSE {"UnbalancedPostingMasters"})
    BY <1>2, <1>5 DEF NormalizeBill, BillResults, InHand
  <2>2. Balanced(Observed({"posting"})) /\ RowsAt(BillResults) = DOMAIN Rows /\ Gives(BillResults)
    BY <1>3, <2>1, EachGives
  <2> QED  BY <1>1, <2>1, <2>2, BillIsProven
<1>6. CASE NormalizeBillPayment
  <2>1. Table.policy = "BillPayment" /\ Dispose(PaymentResults, {})
    BY <1>2, <1>6 DEF NormalizeBillPayment, PaymentResults, InHand
  <2>2. RowsAt(PaymentResults) = DOMAIN Rows /\ Gives(PaymentResults)
    BY <1>3, <2>1, EachGives
  <2> QED  BY <1>1, <2>1, <2>2, PaymentIsProven
<1>7. CASE NormalizeDeposit
  <2>1. /\ Table.policy = "Deposit" /\ Dispose(DepositResults, {})
        /\ HeadersHold /\ Balanced(Observed({"posting"}) \ Headers)
    BY <1>2, <1>7 DEF NormalizeDeposit, DepositResults, InHand
  <2>2. RowsAt(DepositResults) = DOMAIN Rows /\ Gives(DepositResults)
    BY <1>3, <2>1, EachGives
  <2> QED  BY <1>1, <2>1, <2>2, DepositIsProven
<1>8. CASE NormalizeCheck
  <2> DEFINE good == {s \in DOMAIN Strategies : Accepts(Strategies[s])}
  <2>1. Table.policy = "Check"
    BY <1>8 DEF NormalizeCheck, InHand
  <2>2. \/ good # {} /\ Dispose(CheckResults(Strategies[Min(good)]), {})
        \/ Dispose(NoResults, {"PostingStrategyRejected"})
    BY <1>8 DEF NormalizeCheck, NoResults
  <2>3. ~Dispose(NoResults, {"PostingStrategyRejected"})
    BY <1>3, EachGives
  <2>4. Min(good) \in good
    <3>1. good \in SUBSET {1, 2}
      BY DEF Strategies
    <3>2. \E x \in good : \A y \in good : x <= y
      BY <2>2, <2>3, <3>1
    <3> HIDE DEF good
    <3> QED  BY <3>2 DEF Min
  <2> DEFINE O == Strategies[Min(good)]
  <2>5. O \in Readings(next) /\ Proven(next, O) /\ SaysAll(O, CheckResults(O))
    BY <1>1, <2>1, <2>4, CheckIsProven
  <2>6. Dispose(CheckResults(O), {})
    BY <2>2, <2>3
  <2> HIDE DEF O
  <2>7. Gives(CheckResults(O))
    BY EachGives
  <2>8. RowsAt(CheckResults(O)) = DOMAIN Rows
    BY <1>3, <2>6, <2>7
  <2> QED  BY <2>5, <2>6, <2>7, <2>8
<1> QED  BY <1>4, <1>5, <1>6, <1>7, <1>8

\* A table that is settled is told of by the dispositions it adds.
LEMMA TableIsTold ==
    ASSUME Answered, next \in DOMAIN input.tables,
           NEW r, NEW noted, NEW O, Gives(r), Dispose(r, noted), RowsAt(r) = DOMAIN Rows, SaysAll(O, r)
    PROVE  (\A i : i = next => Told(i, O)') /\ (\A i, Q : Told(i, Q) => Told(i, Q)')
<1>1. input' = input
  BY DEF Dispose
<1>2. /\ PolicyOf(next) = Table.policy /\ InputRows(next) = DOMAIN Rows
  BY DEF PolicyOf, Table, InputRows, Rows
<1>3. DOMAIN dispositions \subseteq DOMAIN dispositions'
  BY DisposeAdds
<1>4. \A d \in DOMAIN dispositions : dispositions'[d] = dispositions[d]
  BY DisposeAdds
<1>5. ASSUME NEW k \in DOMAIN Rows PROVE \E d \in DOMAIN dispositions' : dispositions'[d] = r[k]
  <2>1. Range(dispositions') = Range(dispositions) \cup Taken(r, RowsAt(r))
    BY DisposeAdds
  <2>2. r[k] \in Range(dispositions')
    BY <2>1 DEF Taken
  <2> QED  BY <2>2 DEF Range
<1>6. \A k \in DOMAIN Rows : \E d \in DOMAIN dispositions' :
          Says(Table.policy, k, k \in LiveIn(next, O), O[k], dispositions'[d])
  BY <1>5 DEF SaysAll
<1>7. \A k \in InputRows(next) : \E d \in DOMAIN dispositions' :
          Says(PolicyOf(next), k, k \in LiveIn(next, O), O[k], dispositions'[d])
  BY <1>2, <1>6
<1>8. \A i : i = next => Told(i, O)'
  <2>1. \A i : /\ PolicyOf(i)' = PolicyOf(i) /\ InputRows(i)' = InputRows(i)
               /\ LiveIn(i, O)' = LiveIn(i, O)
    BY <1>1, InputStays
  <2> QED  BY <1>7, <2>1 DEF Told, Says, IsPosted
<1>9. \A i, Q : Told(i, Q) => Told(i, Q)'
  BY <1>1, <1>3, <1>4, ToldStays
<1> QED  BY <1>8, <1>9

\* A step that leaves the tables in hand and the dispositions as they are.
LEMMA StaysSettled ==
    ASSUME Answered, Settled, input' = input, dispositions' = dispositions, next' = next,
           blockers' = {} => blockers = {} \/ next = 1
    PROVE  Settled'
<1>1. \A i : PolicyOf(i)' = PolicyOf(i) /\ Readings(i)' = Readings(i)
  BY InputStays
<1>2. \A i, O : Proven(i, O)' = Proven(i, O)
  BY InputStays
<1>3. \A i, O : Told(i, O) => Told(i, O)'
  BY ToldStays
<1> QED  BY <1>1, <1>2, <1>3 DEF Settled

\* A posting table that is done.
LEMMA TableSettles ==
    ASSUME Answered, Settled,
           NormalizeJournal \/ NormalizeCheck \/ NormalizeBill \/ NormalizeBillPayment \/ NormalizeDeposit
    PROVE  Settled'
<1> SUFFICES ASSUME blockers' = {} PROVE Settled'
  BY DEF Settled
<1>1. PICK r, noted, O :
         /\ Gives(r) /\ Dispose(r, noted) /\ RowsAt(r) = DOMAIN Rows
         /\ O \in Readings(next) /\ Proven(next, O) /\ SaysAll(O, r)
  BY TableIsProven
<1>2. next \in DOMAIN input.tables
  BY TablesEnd
<1>3. input' = input /\ next' = next + 1 /\ blockers = {}
  BY <1>1 DEF Dispose
<1>4. (\A i : i = next => Told(i, O)') /\ (\A i, Q : Told(i, Q) => Told(i, Q)')
  BY <1>1, <1>2, TableIsTold
<1>5. \A i : PolicyOf(i)' = PolicyOf(i) /\ Readings(i)' = Readings(i)
  BY <1>3, InputStays
<1>6. \A i, Q : Proven(i, Q)' = Proven(i, Q)
  BY <1>3, InputStays
<1>7. \A i \in 1..(next' - 1) : i = next \/ i \in 1..(next - 1)
  BY <1>3 DEF Answered
<1>8. ASSUME NEW i \in 1..(next' - 1), PolicyOf(i) \in PostingTables
      PROVE  \E Q \in Readings(i) : Proven(i, Q) /\ Told(i, Q)'
  <2>1. CASE i = next
    BY <2>1, <1>1, <1>4
  <2>2. CASE i \in 1..(next - 1)
    <3>1. \E Q \in Readings(i) : Proven(i, Q) /\ Told(i, Q)
      BY <2>2, <1>3, <1>8 DEF Settled
    <3> QED  BY <3>1, <1>4
  <2> QED  BY <2>1, <2>2, <1>7
<1> QED  BY <1>5, <1>6, <1>8 DEF Settled

\* What is not a posting table is passed over.
LEMMA SkipSettles ==
    ASSUME Answered, Settled, SkipTable
    PROVE  Settled'
<1>1. input' = input /\ next' = next + 1 /\ blockers' = blockers /\ dispositions' = dispositions
  BY DEF SkipTable
<1>2. \A i : PolicyOf(i)' = PolicyOf(i) /\ Readings(i)' = Readings(i)
  BY <1>1, InputStays
<1>3. \A i, Q : Proven(i, Q)' = Proven(i, Q)
  BY <1>1, InputStays
<1>4. \A i, Q : Told(i, Q) => Told(i, Q)'
  BY <1>1, ToldStays
<1>5. \A i \in 1..(next' - 1) : i = next \/ i \in 1..(next - 1)
  BY <1>1 DEF Answered
<1>6. PolicyOf(next) \notin PostingTables
  BY DEF SkipTable, PolicyOf, Table
<1> QED  BY <1>1, <1>2, <1>3, <1>4, <1>5, <1>6 DEF Settled

--------------------------------------------------------------------------------
(* Accounts and the ledger *)

\* While there is no blocker, every account row is hidden or normalized.
LEMMA AccountsChart ==
    ASSUME Answered, Charted, NormalizeAccounts
    PROVE  Charted'
<1> SUFFICES ASSUME blockers' = {} PROVE Charted'
  BY DEF Charted, NormalizeAccounts
<1> DEFINE chosen == Kept(AccountRows, Chosen)
<1>1. /\ blockers = {} /\ pc = "accounts" /\ pc' = "postings" /\ input' = input
      /\ \A k \in Parsed : ~AccountFails(k)
      /\ accounts' = [i \in DOMAIN chosen |->
                        [id |-> chosen[i].listId,
                         parent |-> IF chosen[i].parent = Null THEN Root ELSE identity[chosen[i].parent]]]
  BY DEF NormalizeAccounts
<1>2. /\ IsSeq(AccountRows)
      /\ \A k \in DOMAIN AccountRows :
            AccountRows[k].state \in {"unparsed", "failed", "excluded", "selected"}
  <2>1. \A k \in DOMAIN AccountRows : AccountRows[k] \in Range(AccountRows)
    BY DEF Range
  <2> QED  BY <2>1, InputsAssumption DEF Answered, IsSeq, AccountRows
<1>3. Range(chosen) = Taken(AccountRows, Chosen)
  <2>1. DOMAIN AccountRows = 1..Len(AccountRows) /\ Len(AccountRows) \in Nat
    BY <1>2, SeqIs
  <2>2. Chosen \in SUBSET (1..Len(AccountRows))
    BY <2>1 DEF Chosen, Parsed
  <2>3. IsFiniteSet(Chosen) /\ Chosen \subseteq Int
    BY <2>1, <2>2, KeptFits
  <2> QED  BY <2>3, KeptHas
<1> HIDE DEF chosen
<1>4. ASSUME NEW k \in DOMAIN AccountRows, AccountRows[k].state # "excluded"
      PROVE  \E a \in DOMAIN accounts' : accounts'[a].id = AccountRows[k].listId
  <2>1. k \in Identified /\ k \in Parsed
    BY <1>1 DEF Charted, Identified
  <2>2. AccountRows[k].state = "selected"
    BY <1>1, <1>2, <1>4, <2>1 DEF AccountFails, Parsed
  <2>3. k \in Chosen
    BY <1>1, <2>1, <2>2 DEF Chosen
  <2>4. \E a \in DOMAIN chosen : chosen[a] = AccountRows[k]
    BY <1>3, <2>3 DEF Range, Taken
  <2> QED  BY <1>1, <2>4
<1> QED  BY <1>1, <1>4 DEF Charted, AccountRows

\* Afterwards neither the rows nor the accounts change.
LEMMA StaysCharted ==
    ASSUME Charted, input' = input, accounts' = accounts,
           pc' = pc \/ pc' \notin {"accounts", "postings"}, blockers' = {} => blockers = {}
    PROVE  Charted'
<1>1. AccountRows' = AccountRows /\ Identified' = Identified
  BY DEF AccountRows, Identified, Parsed
<1> QED  BY <1>1 DEF Charted

\* Every account row stays accounted for.
LEMMA ChartedStays ==
    ASSUME Answered, Charted, [Next]_vars
    PROVE  Charted'
<1>1. CASE CheckTables \/ NoAccountSchema
  BY <1>1 DEF CheckTables, NoAccountSchema, Charted
<1>2. CASE MapIdentities
  <2>1. blockers' = {} => DOMAIN AccountRows \ Identified = {}
    BY <1>2 DEF MapIdentities
  <2>2. Identified \subseteq DOMAIN AccountRows
    BY DEF Identified, Parsed
  <2>3. AccountRows' = AccountRows /\ Identified' = Identified /\ pc' = "accounts"
    BY <1>2 DEF MapIdentities, AccountRows, Identified, Parsed
  <2> QED  BY <2>1, <2>2, <2>3 DEF Charted
<1>3. CASE NormalizeAccounts
  BY <1>3, AccountsChart
<1>4. CASE SkipTable
  BY <1>4, StaysCharted DEF SkipTable
<1>5. CASE NormalizeJournal \/ NormalizeCheck \/ NormalizeBill \/ NormalizeBillPayment \/ NormalizeDeposit
  <2>1. TableEnds
    BY <1>5, TablesEnd
  <2>2. ASSUME NEW kind, Stop(kind) PROVE Charted'
    BY <2>2, StaysCharted DEF Stop
  <2>3. ASSUME NEW r, NEW noted, Dispose(r, noted) PROVE Charted'
    BY <2>3, StaysCharted DEF Dispose
  <2> QED  BY <2>1, <2>2, <2>3 DEF TableEnds
<1>6. CASE Refuse \/ Build
  BY <1>6, StaysCharted DEF Refuse, Build
<1>7. CASE UNCHANGED vars
  BY <1>7, StaysCharted DEF vars
<1> QED  BY <1>1, <1>2, <1>3, <1>4, <1>5, <1>6, <1>7 DEF Next, Done

\* Every table that is done stays settled.
LEMMA SettledStays ==
    ASSUME Answered, Settled, [Next]_vars
    PROVE  Settled'
<1>1. pc = "tables" => next = 1
  BY DEF Answered
<1>2. CASE CheckTables
  BY <1>1, <1>2, StaysSettled DEF CheckTables
<1>3. CASE NoAccountSchema \/ MapIdentities \/ NormalizeAccounts
  BY <1>3, StaysSettled DEF NoAccountSchema, MapIdentities, NormalizeAccounts
<1>4. CASE SkipTable
  BY <1>4, SkipSettles
<1>5. CASE NormalizeJournal \/ NormalizeCheck \/ NormalizeBill \/ NormalizeBillPayment \/ NormalizeDeposit
  BY <1>5, TableSettles
<1>6. CASE Refuse \/ Build
  BY <1>6, StaysSettled DEF Refuse, Build
<1>7. CASE UNCHANGED vars
  BY <1>7, StaysSettled DEF vars
<1> QED  BY <1>2, <1>3, <1>4, <1>5, <1>6, <1>7 DEF Next, Done

\* A ledger is built of tables that were settled, and then nothing changes.
LEMMA BuiltFromStays ==
    ASSUME Answered, CompleteSoFar, Charted, BuiltFrom, [Next]_vars
    PROVE  BuiltFrom'
<1>1. CASE Build
  <2> SUFFICES ASSUME ledger' # Null PROVE BuiltFrom'
    BY DEF BuiltFrom
  <2>1. ledger = Null
    BY <1>1 DEF Build, AtEnd, Answered
  <2>2. /\ ContractHolds /\ blockers = {} /\ blockers' = {} /\ pc' = "done" /\ pc = "postings"
        /\ ledger' = [accounts |-> accounts, postings |-> LedgerPostings]
        /\ input' = input /\ next' = next /\ accounts' = accounts /\ dispositions' = dispositions
        /\ next = Len(input.tables) + 1
    BY <1>1, <2>1 DEF Build, AtEnd
  <2>3. OneRowEach' /\ LedgerPostings' = LedgerPostings /\ AccountRows' = AccountRows
    BY <2>2 DEF OneRowEach, ContractHolds, LedgerPostings, Postings, AccountRows
  <2>4. TablesComplete'
    BY <2>2 DEF CompleteSoFar, TablesComplete, AllTables
  <2>5. \A k \in DOMAIN AccountRows :
              \/ AccountRows[k].state = "excluded"
              \/ \E a \in DOMAIN accounts : accounts[a].id = AccountRows[k].listId
    BY <2>2 DEF Charted
  <2> QED  BY <2>2, <2>3, <2>4, <2>5 DEF BuiltFrom
<1>2. CASE UNCHANGED vars
  <2>1. /\ TablesComplete' = TablesComplete /\ OneRowEach' = OneRowEach
        /\ LedgerPostings' = LedgerPostings /\ AccountRows' = AccountRows
    BY <1>2 DEF vars, TablesComplete, AllTables, OneRowEach, LedgerPostings, Postings, AccountRows
  <2> QED  BY <1>2, <2>1 DEF BuiltFrom, vars
<1>3. ASSUME ledger' = ledger, pc # "done" PROVE BuiltFrom'
  BY <1>3 DEF BuiltFrom
<1>4. CASE CheckTables \/ NoAccountSchema \/ MapIdentities \/ NormalizeAccounts \/ SkipTable \/ Refuse
  BY <1>3, <1>4 DEF CheckTables, NoAccountSchema, MapIdentities, NormalizeAccounts, SkipTable, Refuse, AtEnd
<1>5. CASE NormalizeJournal \/ NormalizeCheck \/ NormalizeBill \/ NormalizeBillPayment \/ NormalizeDeposit
  <2>1. TableEnds /\ pc = "postings"
    BY <1>5, TablesEnd
  <2>2. ledger' = ledger
    BY <2>1 DEF TableEnds, Stop, Dispose
  <2> QED  BY <1>3, <2>1, <2>2
<1> QED  BY <1>1, <1>2, <1>4, <1>5 DEF Next, Done

\* The inductive invariant.
Sound == Answered /\ CompleteSoFar /\ Charted /\ Settled /\ BuiltFrom

\* It holds in every state.
LEMMA SoundAlways == Spec => []Sound
<1>1. Init => Charted /\ Settled /\ BuiltFrom
  BY DEF Init, Charted, Settled, BuiltFrom
<1>2. Init => Sound
  BY <1>1, AnsweredStarts, CompleteStarts DEF Sound
<1>3. Sound /\ [Next]_vars => Sound'
  BY AnsweredStays, CompleteStays, ChartedStays, SettledStays, BuiltFromStays DEF Sound
<1> QED  BY <1>2, <1>3, PTL DEF Spec

--------------------------------------------------------------------------------
(* The postings of a ledger *)

\* If the tables are complete, no two of them have one policy.
LEMMA PolicyOnce ==
    ASSUME input \in Inputs, TablesComplete,
           NEW i \in DOMAIN input.tables, NEW j \in DOMAIN input.tables,
           PolicyOf(i) = PolicyOf(j), PolicyOf(i) \in Policies
    PROVE  i = j
<1>1. /\ IsSeq(input.tables) /\ DOMAIN input.tables = 1..Len(input.tables)
      /\ Len(input.tables) \in Nat
  BY TablesAreThere, InputsAssumption DEF IsSeq
<1> DEFINE S == Range(input.tables) \cup {input.accounts}
<1>2. <<input.accounts>> \in Seq(S) /\ input.tables \in Seq(S) /\ Len(<<input.accounts>>) = 1
  BY <1>1, SeqDef DEF IsSeq
<1>3. ASSUME NEW n \in DOMAIN input.tables
      PROVE  n + 1 \in DOMAIN AllTables /\ AllTables[n + 1] = input.tables[n]
  <2>1. /\ AllTables \in Seq(S) /\ Len(AllTables) = 1 + Len(input.tables)
        /\ \A l \in 1..1 + Len(input.tables) :
              AllTables[l] = IF l <= 1 THEN <<input.accounts>>[l] ELSE input.tables[l - 1]
    <3> HIDE DEF S
    <3> QED  BY <1>2, ConcatProperties DEF AllTables
  <2>2. n + 1 \in 1..1 + Len(input.tables) /\ ~(n + 1 <= 1) /\ (n + 1) - 1 = n
    BY <1>1, <1>3
  <2>3. AllTables[n + 1] = input.tables[n]
    BY <2>1, <2>2
  <2>4. DOMAIN AllTables = 1..Len(AllTables)
    <3> HIDE DEF S
    <3> QED  BY <2>1
  <2> QED  BY <2>1, <2>2, <2>3, <2>4
<1>4. PICK a \in DOMAIN AllTables :
         \A b \in DOMAIN AllTables \ {a} : AllTables[b].policy # PolicyOf(i)
  BY DEF TablesComplete
<1>5. i + 1 = a /\ j + 1 = a
  BY <1>3, <1>4 DEF PolicyOf
<1> QED  BY <1>1, <1>5

\* Each disposition with a posting is one of the ledger, in order.
LEMMA LedgerPostingIs ==
    ASSUME Answered
    PROVE  /\ \A p \in DOMAIN LedgerPostings : \E d \in DOMAIN dispositions :
                 IsPosted(dispositions[d]) /\ LedgerPostings[p] = dispositions[d].posting
           /\ \A d \in DOMAIN dispositions : IsPosted(dispositions[d]) =>
                 \E p \in DOMAIN LedgerPostings : LedgerPostings[p] = dispositions[d].posting
           /\ IsFiniteSet(DOMAIN LedgerPostings)
           /\ OneRowEach => \A p, q \in DOMAIN LedgerPostings :
                 LedgerPostings[p].row = LedgerPostings[q].row => p = q
<1> DEFINE K == {d \in DOMAIN dispositions : IsPosted(dispositions[d])}
           c == Cardinality(K)
<1>1. DOMAIN dispositions = 1..Len(dispositions) /\ Len(dispositions) \in Nat
  BY SeqIs DEF Answered
<1>2. K \in SUBSET (1..Len(dispositions))
  BY <1>1
<1>3. \A d \in K : d \in DOMAIN dispositions /\ IsPosted(dispositions[d])
  OBVIOUS
<1>4. \A d \in DOMAIN dispositions : IsPosted(dispositions[d]) => d \in K
  OBVIOUS
<1>5. LedgerPostings = [n \in DOMAIN Kept(dispositions, K) |-> Kept(dispositions, K)[n].posting]
  BY DEF LedgerPostings, Postings
<1>6. ASSUME NEW d \in K
      PROVE  Grounded(dispositions[d]) /\ dispositions[d].posting.row = dispositions[d].row
  BY <1>3, <1>6 DEF Answered, Grounded
<1> HIDE DEF K
<1>7. IsFiniteSet(K) /\ K \subseteq Int
  BY <1>1, <1>2, KeptFits
<1>8. /\ c \in Nat
      /\ \A n \in 1..c : Nth(K, n) \in K
      /\ \A m, n \in 1..c : Nth(K, m) = Nth(K, n) => m = n
      /\ \A k \in K : \E n \in 1..c : Nth(K, n) = k
  BY <1>7, NthIsElement
<1>9. /\ DOMAIN Kept(dispositions, K) = 1..c
      /\ \A n \in 1..c : Kept(dispositions, K)[n] = dispositions[Nth(K, n)]
  BY <1>7, KeptIs
<1> HIDE DEF c
<1>10. DOMAIN LedgerPostings = 1..c
  BY <1>5, <1>9
<1>11. \A n \in 1..c : LedgerPostings[n] = dispositions[Nth(K, n)].posting
  BY <1>5, <1>9
<1> USE <1>10
<1>12. ASSUME NEW p \in 1..c
       PROVE \E d \in DOMAIN dispositions :
                 IsPosted(dispositions[d]) /\ LedgerPostings[p] = dispositions[d].posting
  <2>1. Nth(K, p) \in K
    BY <1>8, <1>12
  <2> QED  BY <1>3, <1>11, <2>1
<1>13. ASSUME NEW d \in DOMAIN dispositions, IsPosted(dispositions[d])
       PROVE \E p \in DOMAIN LedgerPostings : LedgerPostings[p] = dispositions[d].posting
  <2>1. PICK n \in 1..c : Nth(K, n) = d
    BY <1>4, <1>8, <1>13
  <2> QED  BY <1>11, <2>1
<1>14. IsFiniteSet(DOMAIN LedgerPostings)
  BY <1>8, FS_Interval
<1>15. ASSUME OneRowEach, NEW p \in 1..c, NEW q \in 1..c,
              LedgerPostings[p].row = LedgerPostings[q].row
       PROVE  p = q
  <2>1. Nth(K, p) \in K /\ Nth(K, q) \in K
    BY <1>8, <1>15
  <2>2. dispositions[Nth(K, p)].row = dispositions[Nth(K, q)].row
    BY <1>6, <1>11, <1>15, <2>1
  <2>3. Nth(K, p) = Nth(K, q)
    BY <1>3, <1>15, <2>1, <2>2 DEF OneRowEach
  <2> QED  BY <1>8, <1>15, <2>3
<1> QED  BY <1>12, <1>13, <1>14, <1>15

\* Posting p of the ledger is that of row k of table i, as O has it.
Posts(i, O, p, k) ==
    /\ k \in LiveIn(i, O) /\ LedgerPostings[p].row = <<PolicyOf(i), k>>
    /\ LedgerPostings[p].amount = O[k].cents /\ LedgerPostings[p].txn = O[k].master

\* The postings of a table are those of one reading that was proven, one for
\* each live row.
Posted(i, O) ==
    /\ \A p \in DOMAIN LedgerPostings :
          LedgerPostings[p].row[1] = PolicyOf(i) => \E k \in InputRows(i) : Posts(i, O, p, k)
    /\ \A k \in LiveIn(i, O) : \E p \in DOMAIN LedgerPostings : Posts(i, O, p, k)

\* Once there is a ledger, each posting table was settled.
LEMMA AllSettled ==
    ASSUME Sound, ledger # Null, NEW i \in DOMAIN input.tables, PolicyOf(i) \in PostingTables
    PROVE  \E O \in Readings(i) : Proven(i, O) /\ Told(i, O)
<1>1. blockers = {} /\ next = Len(input.tables) + 1
  BY DEF Sound, BuiltFrom
<1>2. i \in 1..(next - 1)
  BY <1>1, TablesAreThere DEF Sound, Answered
<1> QED  BY <1>1, <1>2 DEF Sound, Settled

\* And its postings are in the ledger as they were told.
LEMMA ToldIsPosted ==
    ASSUME Sound, ledger # Null, NEW i \in DOMAIN input.tables, PolicyOf(i) \in PostingTables,
           NEW O, Told(i, O)
    PROVE  Posted(i, O)
<1>1. /\ input \in Inputs /\ Answered /\ TablesComplete /\ OneRowEach
      /\ next = Len(input.tables) + 1
  BY DEF Sound, BuiltFrom, Answered
<1>2. LiveIn(i, O) \subseteq InputRows(i)
  BY DEF LiveIn
<1>3. ASSUME NEW k \in InputRows(i)
      PROVE  \E d \in DOMAIN dispositions :
                Says(PolicyOf(i), k, k \in LiveIn(i, O), O[k], dispositions[d])
  BY DEF Told
<1>4. ASSUME NEW p \in DOMAIN LedgerPostings, LedgerPostings[p].row[1] = PolicyOf(i)
      PROVE  \E k \in InputRows(i) : Posts(i, O, p, k)
  <2>1. PICK d \in DOMAIN dispositions :
          IsPosted(dispositions[d]) /\ LedgerPostings[p] = dispositions[d].posting
    BY <1>1, LedgerPostingIs
  <2>2. Grounded(dispositions[d])
    BY <1>1 DEF Answered
  <2>3. PICK j \in 1..(next - 1) : \E k \in InputRows(j) :
            PolicyOf(j) \in PostingTables /\ dispositions[d].row = <<PolicyOf(j), k>>
    BY <2>2 DEF Grounded
  <2>4. PICK k \in InputRows(j) : dispositions[d].row = <<PolicyOf(j), k>>
    BY <2>3
  <2>5. LedgerPostings[p].row = dispositions[d].row
    BY <2>1, <2>2 DEF Grounded
  <2>6. PolicyOf(j) = PolicyOf(i)
    BY <1>4, <2>4, <2>5
  <2>7. j \in DOMAIN input.tables
    BY <1>1, TablesAreThere
  <2>8. j = i
    BY <1>1, <2>6, <2>7, PolicyOnce DEF PostingTables
  <2>9. PICK e \in DOMAIN dispositions :
          Says(PolicyOf(i), k, k \in LiveIn(i, O), O[k], dispositions[e])
    BY <1>3, <2>8
  <2>10. dispositions[e].row = dispositions[d].row
    BY <2>4, <2>8, <2>9 DEF Says
  <2>11. e = d
    BY <1>1, <2>10 DEF OneRowEach
  <2>12. k \in LiveIn(i, O) /\ LedgerPostings[p].amount = O[k].cents /\ LedgerPostings[p].txn = O[k].master
    BY <2>1, <2>9, <2>11 DEF Says
  <2>13. Posts(i, O, p, k)
    BY <2>4, <2>5, <2>8, <2>12 DEF Posts
  <2> QED  BY <2>8, <2>13
<1>5. ASSUME NEW k \in LiveIn(i, O) PROVE \E p \in DOMAIN LedgerPostings : Posts(i, O, p, k)
  <2>1. PICK d \in DOMAIN dispositions :
          Says(PolicyOf(i), k, k \in LiveIn(i, O), O[k], dispositions[d])
    BY <1>2, <1>3
  <2>2. /\ IsPosted(dispositions[d]) /\ dispositions[d].row = <<PolicyOf(i), k>>
        /\ dispositions[d].posting.amount = O[k].cents /\ dispositions[d].posting.txn = O[k].master
    BY <2>1 DEF Says
  <2>3. PICK p \in DOMAIN LedgerPostings : LedgerPostings[p] = dispositions[d].posting
    BY <1>1, <2>2, LedgerPostingIs
  <2>4. dispositions[d].posting.row = dispositions[d].row
    BY <1>1, <2>2 DEF Answered, Grounded
  <2> QED  BY <2>2, <2>3, <2>4 DEF Posts
<1> QED  BY <1>4, <1>5 DEF Posted

\* A reading of a table other than Check is its rows.
LEMMA RowsAreRead ==
    ASSUME NEW i, PolicyOf(i) # "Check", NEW O \in Readings(i)
    PROVE  O = RowsOf(i)
  BY DEF Readings

\* A reading is of all live rows.
LEMMA LiveIsRead ==
    ASSUME NEW i, NEW O \in Readings(i)
    PROVE  LiveIn(i, O) \subseteq DOMAIN O /\ LiveIn(i, O) \subseteq InputRows(i)
<1>1. LiveIn(i, O) \subseteq InputRows(i)
  BY DEF LiveIn
<1>2. CASE PolicyOf(i) = "Check"
  <2>1. DOMAIN O = LinesOf(i)
    BY <1>2 DEF Readings
  <2>2. LiveIn(i, O) \subseteq LinesOf(i)
    BY <1>2 DEF LiveIn
  <2> QED  BY <1>1, <2>1, <2>2
<1>3. CASE PolicyOf(i) # "Check"
  <2>1. DOMAIN O = InputRows(i)
    BY <1>3, RowsAreRead DEF InputRows, RowsOf
  <2> QED  BY <1>1, <2>1
<1> QED  BY <1>2, <1>3

\* A ledger leaves no table, account row or posting row out.
THEOREM NothingLeftOut == Spec => []LedgerLeavesNothingOut
<1>1. Sound => LedgerLeavesNothingOut
  <2> SUFFICES ASSUME Sound, ledger # Null PROVE LedgerLeavesNothingOut
    BY DEF LedgerLeavesNothingOut
  <2>1. /\ TablesComplete /\ OneRowEach /\ ledger.accounts = accounts
        /\ \A k \in DOMAIN AccountRows :
              \/ AccountRows[k].state = "excluded"
              \/ \E a \in DOMAIN accounts : accounts[a].id = AccountRows[k].listId
    BY DEF Sound, BuiltFrom
  <2>2. ASSUME NEW i \in DOMAIN input.tables, NEW k \in InputRows(i), PolicyOf(i) \in PostingTables,
               NEW mine, mine = {d \in DOMAIN dispositions : dispositions[d].row = <<PolicyOf(i), k>>}
        PROVE  \E d \in mine :
                  /\ mine = {d}
                  /\ PolicyOf(i) # "Check" =>
                        /\ Live(PolicyOf(i), RowsOf(i)[k]) <=> IsPosted(dispositions[d])
                        /\ Live(PolicyOf(i), RowsOf(i)[k]) =>
                              /\ dispositions[d].posting.amount = RowsOf(i)[k].cents
                              /\ dispositions[d].posting.txn = RowsOf(i)[k].master
    <3>1. PICK O \in Readings(i) : Told(i, O)
      BY <2>2, AllSettled
    <3>2. PICK d \in DOMAIN dispositions :
             Says(PolicyOf(i), k, k \in LiveIn(i, O), O[k], dispositions[d])
      BY <2>2, <3>1 DEF Told
    <3>3. dispositions[d].row = <<PolicyOf(i), k>>
      BY <3>2 DEF Says
    <3>4. mine = {d}
      <4>1. d \in mine
        BY <2>2, <3>3
      <4>2. \A e \in mine : e = d
        BY <2>1, <2>2, <3>3 DEF OneRowEach
      <4> QED  BY <4>1, <4>2
    <3>5. ASSUME PolicyOf(i) # "Check"
          PROVE  /\ Live(PolicyOf(i), RowsOf(i)[k]) <=> IsPosted(dispositions[d])
                 /\ Live(PolicyOf(i), RowsOf(i)[k]) =>
                        /\ dispositions[d].posting.amount = RowsOf(i)[k].cents
                        /\ dispositions[d].posting.txn = RowsOf(i)[k].master
      <4>1. O[k] = RowsOf(i)[k]
        BY <3>1, <3>5, RowsAreRead
      <4>2. k \in LiveIn(i, O) <=> Live(PolicyOf(i), RowsOf(i)[k])
        BY <2>2, <3>5 DEF LiveIn
      <4> QED  BY <3>2, <4>1, <4>2 DEF Says
    <3> QED  BY <3>4, <3>5
  <2> QED  BY <2>1, <2>2 DEF LedgerLeavesNothingOut, PolicyOf, RowsOf
<1> QED  BY <1>1, SoundAlways, PTL

\* The amounts of the postings S, as the model adds them.
AmountTotal(S) == MapThenSumSet(LAMBDA k : ledger.postings[k].amount, S)
AmountsIn == [k \in DOMAIN ledger.postings |-> ledger.postings[k].amount]

\* The sums of the ledger are those of LedgerProofs.
LEMMA AmountTotalIs ==
    ASSUME NEW S \in SUBSET DOMAIN ledger.postings, IsFiniteSet(S)
    PROVE  AmountTotal(S) = Sums!SumOf(AmountsIn, S)
<1> DEFINE Iter(i) == i = [s \in SUBSET S |->
                             IF s = {} THEN 0 ELSE ledger.postings[Sums!Pick(s)].amount + i[s \ {Sums!Pick(s)}]]
<1>1. ASSUME NEW i PROVE Iter(i) <=> Sums!Adds(i, AmountsIn, S)
  <2>1. \A s \in SUBSET S : s # {} => AmountsIn[Sums!Pick(s)] = ledger.postings[Sums!Pick(s)].amount
    BY Sums!PickIn DEF AmountsIn
  <2>2. [s \in SUBSET S |-> IF s = {} THEN 0 ELSE ledger.postings[Sums!Pick(s)].amount + i[s \ {Sums!Pick(s)}]]
        = [s \in SUBSET S |-> IF s = {} THEN 0 ELSE AmountsIn[Sums!Pick(s)] + i[s \ {Sums!Pick(s)}]]
    BY <2>1
  <2> QED  BY <2>2 DEF Sums!Adds
<1>2. AmountTotal(S) = (CHOOSE i : Iter(i))[S]
  BY DEF AmountTotal, MapThenSumSet, MapThenFoldSet, Sums!Pick
<1> DEFINE j == CHOOSE i : Iter(i)
<1>3. Iter(j)
  <2>1. \E i : Iter(i)
    BY <1>1, SumsAssumed, Sums!AddsExists
  <2> HIDE DEF Iter
  <2> QED  BY <2>1
<1>4. AmountTotal(S) = j[S]
  BY <1>2
<1>5. Sums!Adds(j, AmountsIn, S)
  BY <1>1, <1>3
<1> HIDE DEF j
<1> QED  BY <1>4, <1>5, SumsAssumed, Sums!SumIs

\* The postings of a transaction in a table add up to its live rows.
LEMMA PostedTotal ==
    ASSUME Answered, OneRowEach, ledger.postings = LedgerPostings,
           NEW i, NEW O \in Readings(i), Posted(i, O), \A k \in LiveIn(i, O) : O[k].cents \in Int,
           NEW m, NEW S, S = {p \in DOMAIN LedgerPostings :
                                 LedgerPostings[p].row[1] = PolicyOf(i) /\ LedgerPostings[p].txn = m}
    PROVE  AmountTotal(S) = Sums!SumOf(CentsOf(O), MasterIn(i, O, m))
<1> DEFINE h == [p \in S |-> LedgerPostings[p].row[2]]
           g == CentsOf(O)
<1>1. ASSUME NEW p \in S
      PROVE  /\ LedgerPostings[p].row = <<PolicyOf(i), h[p]>> /\ h[p] \in MasterIn(i, O, m)
             /\ AmountsIn[p] \in Int /\ g[h[p]] = AmountsIn[p]
  <2>1. p \in DOMAIN LedgerPostings /\ LedgerPostings[p].row[1] = PolicyOf(i) /\ LedgerPostings[p].txn = m
    OBVIOUS
  <2>2. PICK k \in InputRows(i) : Posts(i, O, p, k)
    BY <2>1 DEF Posted
  <2>3. h[p] = k
    BY <2>2 DEF Posts
  <2>4. k \in LiveIn(i, O) /\ O[k].cents = LedgerPostings[p].amount /\ O[k].master = m
    BY <2>1, <2>2 DEF Posts
  <2>5. k \in MasterIn(i, O, m)
    BY <2>4 DEF MasterIn
  <2>6. g[k] = O[k].cents
    BY <2>4, LiveIsRead DEF CentsOf
  <2>7. AmountsIn[p] = LedgerPostings[p].amount
    BY <2>1 DEF AmountsIn
  <2>8. LedgerPostings[p].row = <<PolicyOf(i), k>>
    BY <2>2 DEF Posts
  <2> QED  BY <2>3, <2>4, <2>5, <2>6, <2>7, <2>8
<1>2. ASSUME NEW p \in S, NEW q \in S, h[p] = h[q] PROVE p = q
  <2>1. LedgerPostings[p].row = LedgerPostings[q].row
    <3> HIDE DEF h, g
    <3> QED  BY <1>1, <1>2
  <2> QED  BY <2>1, LedgerPostingIs
<1>3. ASSUME NEW k \in MasterIn(i, O, m) PROVE \E p \in S : h[p] = k
  <2>1. k \in LiveIn(i, O) /\ O[k].master = m
    BY DEF MasterIn
  <2>2. PICK p \in DOMAIN LedgerPostings : Posts(i, O, p, k)
    BY <2>1 DEF Posted
  <2>3. LedgerPostings[p].row[1] = PolicyOf(i) /\ LedgerPostings[p].row[2] = k /\ LedgerPostings[p].txn = m
    BY <2>1, <2>2 DEF Posts
  <2> QED  BY <2>3
<1>4. S \in SUBSET DOMAIN ledger.postings /\ IsFiniteSet(S)
  <2>1. IsFiniteSet(DOMAIN LedgerPostings)
    BY LedgerPostingIs
  <2> QED  BY <2>1, FS_Subset
<1> HIDE DEF h, g
<1>5. {h[p] : p \in S} = MasterIn(i, O, m)
  BY <1>1, <1>3
<1>6. AmountTotal(S) = Sums!SumOf(AmountsIn, S)
  BY <1>4, AmountTotalIs
<1>7. Sums!SumOf(AmountsIn, S) = Sums!SumOf(g, {h[p] : p \in S})
  BY <1>1, <1>2, <1>4, SumsAssumed, Sums!SumRenamed
<1> QED  BY <1>5, <1>6, <1>7 DEF g

\* Within each table that proves its transactions balanced, those of a ledger
\* are balanced.
THEOREM MastersStayBalanced == Spec => []MastersBalance
<1>1. Sound => MastersBalance
  <2> SUFFICES ASSUME Sound, ledger # Null PROVE MastersBalance
    BY DEF MastersBalance
  <2>1. /\ Answered /\ OneRowEach /\ ledger.postings = LedgerPostings
        /\ next = Len(input.tables) + 1 /\ input \in Inputs
    BY DEF Sound, BuiltFrom, Answered
  <2>2. ASSUME NEW t \in {"Journal", "Bill", "Check", "Deposit"},
               NEW q \in DOMAIN LedgerPostings, LedgerPostings[q].row[1] = t, NEW m, LedgerPostings[q].txn = m,
               NEW S, S = {p \in DOMAIN LedgerPostings :
                              LedgerPostings[p].row[1] = t /\ LedgerPostings[p].txn = m}
        PROVE  AmountTotal(S) = 0
    <3>1. PICK d \in DOMAIN dispositions :
            IsPosted(dispositions[d]) /\ LedgerPostings[q] = dispositions[d].posting
      BY <2>1, LedgerPostingIs
    <3>2. Grounded(dispositions[d])
      BY <2>1 DEF Answered
    <3>3. LedgerPostings[q].row = dispositions[d].row
      BY <3>1, <3>2 DEF Grounded
    <3>4. PICK i \in 1..(next - 1) : \E k \in InputRows(i) :
             PolicyOf(i) \in PostingTables /\ dispositions[d].row = <<PolicyOf(i), k>>
      BY <3>2 DEF Grounded
    <3>5. i \in DOMAIN input.tables /\ PolicyOf(i) = t /\ PolicyOf(i) \in PostingTables
      BY <2>1, <2>2, <3>3, <3>4, TablesAreThere
    <3>6. PICK O \in Readings(i) : Proven(i, O) /\ Told(i, O)
      BY <3>5, AllSettled
    <3>7. Posted(i, O)
      BY <3>5, <3>6, ToldIsPosted
    <3>8. AmountTotal(S) = Sums!SumOf(CentsOf(O), MasterIn(i, O, m))
      <4>1. \A k \in LiveIn(i, O) : O[k].cents \in Int
        BY <3>6 DEF Proven
      <4> QED  BY <2>1, <2>2, <3>5, <3>6, <3>7, <4>1, PostedTotal
    <3>9. PICK k \in InputRows(i) : Posts(i, O, q, k)
      BY <2>2, <3>5, <3>7 DEF Posted
    <3>10. k \in LiveIn(i, O) /\ m = O[k].master
      BY <2>2, <3>9 DEF Posts
    <3>11. Sums!SumOf(CentsOf(O), MasterIn(i, O, m)) = 0
      BY <2>2, <3>5, <3>6, <3>10 DEF Proven
    <3> QED  BY <3>8, <3>11
  <2>3. SUFFICES ASSUME NEW t \in {"Journal", "Bill", "Check", "Deposit"}, NEW mine,
                        mine = {k \in DOMAIN ledger.postings : ledger.postings[k].row[1] = t},
                        NEW m \in {ledger.postings[k].txn : k \in mine}
                 PROVE  AmountTotal({k \in mine : ledger.postings[k].txn = m}) = 0
    BY DEF MastersBalance, AmountTotal
  <2>4. PICK q \in mine : ledger.postings[q].txn = m
    OBVIOUS
  <2>5. {k \in mine : ledger.postings[k].txn = m}
        = {p \in DOMAIN LedgerPostings : LedgerPostings[p].row[1] = t /\ LedgerPostings[p].txn = m}
    BY <2>1, <2>3
  <2> QED  BY <2>1, <2>2, <2>3, <2>4, <2>5
<1> QED  BY <1>1, SoundAlways, PTL

\* The postings of the ledger agree with what the observation o of check row k is.
Agree(k, o) ==
    IF o.kind = "posting"
    THEN \E p \in DOMAIN ledger.postings :
            /\ ledger.postings[p].row = <<"Check", k>>
            /\ ledger.postings[p].amount = o.cents
            /\ ledger.postings[p].txn = o.master
    ELSE \A p \in DOMAIN ledger.postings : ledger.postings[p].row # <<"Check", k>>

\* Check postings agree with the one reading they were told in.
LEMMA CheckAgrees ==
    ASSUME Sound, ledger # Null, NEW i \in DOMAIN input.tables, PolicyOf(i) = "Check",
           NEW O, Posted(i, O), NEW k \in LinesOf(i)
    PROVE  Agree(k, O[k])
<1>1. ledger.postings = LedgerPostings
  BY DEF Sound, BuiltFrom
<1>2. k \in LiveIn(i, O) <=> O[k].kind = "posting"
  BY DEF LiveIn, LinesOf
<1>3. CASE O[k].kind = "posting"
  <2>1. PICK p \in DOMAIN LedgerPostings : Posts(i, O, p, k)
    BY <1>2, <1>3 DEF Posted
  <2>2. /\ LedgerPostings[p].row = <<"Check", k>>
        /\ LedgerPostings[p].amount = O[k].cents /\ LedgerPostings[p].txn = O[k].master
    BY <2>1 DEF Posts
  <2> QED  BY <1>1, <1>3, <2>2 DEF Agree
<1>4. CASE O[k].kind # "posting"
  <2>1. ASSUME NEW p \in DOMAIN LedgerPostings, LedgerPostings[p].row = <<"Check", k>> PROVE FALSE
    <3>1. PICK j \in InputRows(i) : Posts(i, O, p, j)
      BY <2>1 DEF Posted
    <3>2. j \in LiveIn(i, O) /\ LedgerPostings[p].row = <<"Check", j>>
      BY <3>1 DEF Posts
    <3>3. j = k
      BY <2>1, <3>2
    <3> QED  BY <1>2, <1>4, <3>2, <3>3
  <2> QED  BY <1>1, <1>4, <2>1 DEF Agree
<1> QED  BY <1>3, <1>4

\* The postings of the Check table all come from one of its two decoders.
THEOREM CheckHasOneDecoder == Spec => []OneCheckDecoder
<1>1. Sound => OneCheckDecoder
  <2> SUFFICES ASSUME Sound, ledger # Null PROVE OneCheckDecoder
    BY DEF OneCheckDecoder
  <2>1. ASSUME NEW i \in DOMAIN input.tables, PolicyOf(i) = "Check"
        PROVE  \/ \A k \in LinesOf(i) :
                     RowsOf(i)[k].prefix.kind # "failed" /\ Agree(k, RowsOf(i)[k].prefix)
               \/ \A k \in LinesOf(i) :
                     /\ Agree(k, RowsOf(i)[k].physical)
                     /\ RowsOf(i)[k].physical.kind = "failed" => RowsOf(i)[k].opaqueZero
    <3>1. PolicyOf(i) \in PostingTables /\ input \in Inputs
      BY <2>1 DEF PostingTables, Policies, Sound, Answered
    <3>2. PICK O \in Readings(i) : Proven(i, O) /\ Told(i, O)
      BY <3>1, AllSettled
    <3>3. Posted(i, O)
      BY <3>1, <3>2, ToldIsPosted
    <3>4. ASSUME NEW k \in LinesOf(i)
          PROVE  /\ Agree(k, O[k]) /\ O[k].kind # "failed"
                 /\ RowsOf(i)[k].opaqueZero => RowsOf(i)[k].physical.kind = "failed"
      <4>1. IsRow("Check", RowsOf(i)[k]) /\ RowsOf(i)[k].form = "line"
        BY <2>1, <3>1, RowsAreThere DEF LinesOf
      <4>2. RowsOf(i)[k].opaqueZero => RowsOf(i)[k].physical.kind = "failed"
        BY <4>1 DEF IsRow
      <4>3. O[k].kind # "failed"
        BY <2>1, <3>2 DEF Proven
      <4>4. Agree(k, O[k])
        BY <2>1, <3>3, CheckAgrees
      <4> QED  BY <4>2, <4>3, <4>4
    <3>5. CASE O = [k \in LinesOf(i) |-> RowsOf(i)[k].prefix]
      BY <3>4, <3>5
    <3>6. CASE O = [k \in LinesOf(i) |-> AsMaterialized(RowsOf(i)[k])]
      <4>1. ASSUME NEW k \in LinesOf(i)
            PROVE  /\ Agree(k, RowsOf(i)[k].physical)
                   /\ RowsOf(i)[k].physical.kind = "failed" => RowsOf(i)[k].opaqueZero
        <5>1. O[k] = AsMaterialized(RowsOf(i)[k])
          BY <3>6
        <5>2. CASE RowsOf(i)[k].opaqueZero /\ RowsOf(i)[k].prefix.kind = "zero"
          <6>1. O[k].kind = "zero" /\ RowsOf(i)[k].physical.kind = "failed"
            BY <3>4, <5>1, <5>2 DEF AsMaterialized
          <6> QED  BY <3>4, <5>2, <6>1 DEF Agree
        <5>3. CASE ~(RowsOf(i)[k].opaqueZero /\ RowsOf(i)[k].prefix.kind = "zero")
          <6>1. O[k] = RowsOf(i)[k].physical
            BY <5>1, <5>3 DEF AsMaterialized
          <6> QED  BY <3>4, <6>1
        <5> QED  BY <5>2, <5>3
      <4> QED  BY <4>1
    <3> QED  BY <2>1, <3>2, <3>5, <3>6 DEF Readings
  <2> QED  BY <2>1 DEF OneCheckDecoder, PolicyOf, RowsOf, LinesOf, InputRows, Agree
<1> QED  BY <1>1, SoundAlways, PTL
================================================================================
