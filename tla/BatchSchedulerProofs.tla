-------------------------- MODULE BatchSchedulerProofs --------------------------
(****************************************************************************)
(* The worker pool's guarantees for any number of inputs and workers.       *)
(****************************************************************************)
EXTENDS BatchScheduler, TLAPS

\* Every result on its way is what was computed for its input, an input the
\* iterator has passed.
TrueResults(s) ==
    \A k \in 1..Len(s) :
        /\ s[k].index < next
        /\ s[k].outcome = ran[s[k].index]

\* No input has two results in one queue, or one in each of the two.
Distinct(s) ==
    \A j, k \in 1..Len(s) : s[j].index = s[k].index => j = k

Disjoint(s, t) ==
    \A j \in 1..Len(s), k \in 1..Len(t) : s[j].index # t[k].index

\* A worker holds an input the iterator has passed, and has run it before it
\* sends the result.
HeldInputs ==
    \A w \in Workers :
        /\ worker[w] \in Busy => holding[w] \in Inputs /\ holding[w] < next
        /\ worker[w] = "sending" => ran[holding[w]] # NotRun

\* When the receiver is done no worker is at work any more.
QuietAtEnd ==
    main \in {"placing", "returned", "panicked"} =>
        \A w \in Workers : worker[w] \in {"done", "panicked"}

IInv ==
    /\ TypeOK
    /\ QuietAtEnd
    /\ HeldInputs
    /\ NoDoubleWork
    /\ TrueResults(channel) /\ TrueResults(gathered)
    /\ Distinct(channel) /\ Distinct(gathered)
    /\ Disjoint(channel, gathered)
    /\ OrderedResults

--------------------------------------------------------------------------------
\* worker_limit never exceeds the request or the number of inputs.
LEMMA BoundType == Bound \in Nat /\ Bound <= Requested /\ Bound <= InputCount
  BY BatchAssumption DEF Bound

\* Before the first worker nothing is taken, sent or placed.
LEMMA InitIInv == Init => IInv
  BY BatchAssumption, BoundType
  DEF Init, IInv, TypeOK, HeldInputs, NoDoubleWork, TrueResults, Distinct,
      Disjoint, OrderedResults, QuietAtEnd, Inputs, Workers, Busy, Result

\* What the two queues hold.
LEMMA QueueType ==
    ASSUME TypeOK
    PROVE  /\ \A k \in 1..Len(channel) :
                 channel[k] \in Result /\ channel[k].index \in Inputs
           /\ \A k \in 1..Len(gathered) :
                 gathered[k] \in Result /\ gathered[k].index \in Inputs
<1>1. \A r \in Result : r.index \in Inputs
  BY DEF Result
<1>2. /\ \A k \in 1..Len(channel) : channel[k] \in Result
      /\ \A k \in 1..Len(gathered) : gathered[k] \in Result
  BY DEF TypeOK
<1>3. QED  BY <1>1, <1>2

\* Sending appends the one result of an input that nobody else holds.
LEMMA SendIInv ==
    ASSUME IInv, NEW w \in Workers, Send(w)
    PROVE  IInv'
<1> DEFINE r == [index |-> holding[w], outcome |-> ran[holding[w]]]
<1> USE BatchAssumption, BoundType DEF Send, IInv, Workers, Inputs, Busy
<1>1. holding[w] \in Inputs /\ holding[w] < next /\ ran[holding[w]] \in Outcomes
  BY DEF HeldInputs, TypeOK
<1>2. r \in Result
  BY <1>1 DEF Result
<1>3. /\ channel' = Append(channel, r) /\ Len(channel') = Len(channel) + 1
      /\ \A k \in 1..Len(channel) : channel'[k] = channel[k]
      /\ channel'[Len(channel) + 1] = r
  BY <1>2 DEF TypeOK
<1>4. TypeOK'
  BY <1>2, <1>3 DEF TypeOK
<1>5. HeldInputs'
  BY DEF HeldInputs, TypeOK
<1>6. NoDoubleWork'
  BY <1>3 DEF NoDoubleWork, TypeOK
<1> DEFINE n == Len(channel)
<1>a. n \in Nat /\ n' = n + 1 /\ 1..n' = (1..n) \cup {n + 1} /\ n + 1 \notin 1..n
  BY <1>3 DEF TypeOK
<1>b. r.index = holding[w] /\ r.outcome = ran[holding[w]]
  OBVIOUS
<1>c. UNCHANGED <<main, spawned, next, holding, gathered, results, ran>>
  OBVIOUS
<1> HIDE DEF r, n
<1>7. TrueResults(channel)' /\ TrueResults(gathered)'
  <2>1. ASSUME NEW k \in 1..n'
        PROVE  channel'[k].index < next /\ channel'[k].outcome = ran[channel'[k].index]
    <3>1. CASE k = n + 1  BY <3>1, <1>1, <1>3, <1>b DEF n
    <3>2. CASE k \in 1..n  BY <3>2, <1>3 DEF TrueResults, n
    <3>3. QED  BY <3>1, <3>2, <1>a
  <2>2. QED  BY <2>1, <1>c DEF TrueResults, n
<1>8. Distinct(channel)' /\ Distinct(gathered)'
  <2>1. ASSUME NEW j \in 1..n', NEW k \in 1..n', channel'[j].index = channel'[k].index
        PROVE  j = k
    <3>1. CASE j \in 1..n /\ k \in 1..n
      BY <2>1, <3>1, <1>3 DEF Distinct, n
    <3>2. CASE j = n + 1 /\ k \in 1..n
      BY <2>1, <3>2, <1>3, <1>b DEF NoDoubleWork, n
    <3>3. CASE k = n + 1 /\ j \in 1..n
      BY <2>1, <3>3, <1>3, <1>b DEF NoDoubleWork, n
    <3>4. QED  BY <3>1, <3>2, <3>3, <1>a
  <2>2. Distinct(channel)'  BY <2>1 DEF Distinct, n
  <2>3. QED  BY <2>2, <1>c DEF Distinct
<1>9. Disjoint(channel, gathered)'
  <2>1. ASSUME NEW j \in 1..n', NEW k \in 1..Len(gathered)
        PROVE  channel'[j].index # gathered[k].index
    <3>1. CASE j = n + 1  BY <3>1, <1>3, <1>b DEF NoDoubleWork, n
    <3>2. CASE j \in 1..n  BY <3>2, <1>3 DEF Disjoint, n
    <3>3. QED  BY <3>1, <3>2, <1>a
  <2>2. QED  BY <2>1, <1>c DEF Disjoint, n
<1>10. OrderedResults' /\ QuietAtEnd'
  BY <1>c DEF OrderedResults, QuietAtEnd, TypeOK
<1>11. QED
  BY <1>4, <1>5, <1>6, <1>7, <1>8, <1>9, <1>10

\* Receiving moves the oldest result from the channel to the gathered ones.
LEMMA ReceiveIInv ==
    ASSUME IInv, Receive
    PROVE  IInv'
<1> USE BatchAssumption, BoundType DEF Receive, IInv, Workers, Inputs, Busy
<1>1. /\ Len(channel) \in Nat \ {0} /\ Head(channel) = channel[1]
      /\ Head(channel) \in Result
  BY DEF TypeOK
<1>2. /\ Len(channel') = Len(channel) - 1
      /\ channel' \in Seq(Result)
      /\ \A k \in 1..Len(channel') : channel'[k] = channel[k + 1]
  BY <1>1 DEF TypeOK
<1>3. /\ Len(gathered') = Len(gathered) + 1
      /\ gathered' \in Seq(Result)
      /\ \A k \in 1..Len(gathered) : gathered'[k] = gathered[k]
      /\ gathered'[Len(gathered) + 1] = channel[1]
  BY <1>1 DEF TypeOK
<1>4. TypeOK'
  BY <1>2, <1>3 DEF TypeOK
<1>5. HeldInputs'
  BY DEF HeldInputs
<1> DEFINE n == Len(channel)
           m == Len(gathered)
<1>a. /\ n \in Nat \ {0} /\ m \in Nat /\ n' = n - 1 /\ m' = m + 1
      /\ 1..m' = (1..m) \cup {m + 1} /\ m + 1 \notin 1..m
      /\ \A k \in 1..n' : k + 1 \in 1..n /\ k + 1 # 1
      /\ 1 \in 1..n
  BY <1>1, <1>2, <1>3 DEF TypeOK
<1>b. UNCHANGED <<main, spawned, next, worker, holding, results, ran>>
  OBVIOUS
<1> HIDE DEF n, m
<1>6. NoDoubleWork'
  <2>1. ASSUME NEW w \in Workers, worker[w] \in Busy
        PROVE  /\ \A k \in 1..n' : channel'[k].index # holding[w]
               /\ \A k \in 1..m' : gathered'[k].index # holding[w]
    <3>1. ASSUME NEW k \in 1..n' PROVE channel'[k].index # holding[w]
      BY <2>1, <1>2, <1>a DEF NoDoubleWork, n
    <3>2. ASSUME NEW k \in 1..m' PROVE gathered'[k].index # holding[w]
      <4>1. CASE k = m + 1  BY <4>1, <2>1, <1>3, <1>a DEF NoDoubleWork, n, m
      <4>2. CASE k \in 1..m  BY <4>2, <2>1, <1>3 DEF NoDoubleWork, m
      <4>3. QED  BY <4>1, <4>2, <1>a
    <3>3. QED  BY <3>1, <3>2
  <2>2. QED  BY <2>1, <1>b DEF NoDoubleWork, n, m
<1>7. TrueResults(channel)'
  BY <1>1, <1>2 DEF TrueResults, TypeOK
<1>8. TrueResults(gathered)'
  <2>1. ASSUME NEW k \in 1..m'
        PROVE  gathered'[k].index < next /\ gathered'[k].outcome = ran[gathered'[k].index]
    <3>1. CASE k = m + 1  BY <3>1, <1>3, <1>a DEF TrueResults, n, m
    <3>2. CASE k \in 1..m  BY <3>2, <1>3 DEF TrueResults, m
    <3>3. QED  BY <3>1, <3>2, <1>a
  <2>2. QED  BY <2>1, <1>b DEF TrueResults, m
<1>9. Distinct(channel)'
  BY <1>1, <1>2 DEF Distinct, TypeOK
<1>10. Distinct(gathered)'
  <2>1. ASSUME NEW j \in 1..m', NEW k \in 1..m', gathered'[j].index = gathered'[k].index
        PROVE  j = k
    <3>1. CASE j \in 1..m /\ k \in 1..m
      BY <2>1, <3>1, <1>3 DEF Distinct, m
    <3>2. CASE j = m + 1 /\ k \in 1..m
      BY <2>1, <3>2, <1>3, <1>a DEF Disjoint, n, m
    <3>3. CASE k = m + 1 /\ j \in 1..m
      BY <2>1, <3>3, <1>3, <1>a DEF Disjoint, n, m
    <3>4. QED  BY <3>1, <3>2, <3>3, <1>a
  <2>2. QED  BY <2>1 DEF Distinct, m
<1>11. Disjoint(channel, gathered)'
  BY <1>1, <1>2, <1>3 DEF Disjoint, Distinct, TypeOK
<1>12. OrderedResults' /\ QuietAtEnd'
  BY <1>b DEF OrderedResults, QuietAtEnd
<1>13. QED
  BY <1>4, <1>5, <1>6, <1>7, <1>8, <1>9, <1>10, <1>11, <1>12

\* Placing: the results gathered for an input is the only one, hence its last.
LEMMA PlaceIInv ==
    ASSUME IInv, Place
    PROVE  IInv'
<1> USE BatchAssumption, BoundType DEF IInv, Workers, Inputs, Busy
<1>1. CASE main' = "panicked"
  BY <1>1 DEF Place, TypeOK, HeldInputs, NoDoubleWork, TrueResults, Distinct,
     Disjoint, OrderedResults, QuietAtEnd
<1>2. CASE main' # "panicked"
  <2>1. /\ main' = "returned" /\ \A i \in Inputs : Arrived(i)
        /\ results' = [i \in Inputs |-> gathered[LastOf(i)].outcome]
        /\ UNCHANGED <<spawned, next, worker, holding, channel, gathered, ran>>
        /\ main = "placing"
    BY <1>2 DEF Place
  <2>2. ASSUME NEW i \in Inputs
        PROVE  gathered[LastOf(i)].outcome = ran[i] /\ ran[i] \in Outcomes
    <3>1. PICK k \in 1..Len(gathered) : gathered[k].index = i
      BY <2>1 DEF Arrived
    <3>a. Len(gathered) \in Nat /\ Distinct(gathered)
      BY DEF TypeOK
    <3>2. ASSUME NEW j \in (k + 1)..Len(gathered) PROVE gathered[j].index # i
      <4>1. j \in 1..Len(gathered) /\ k \in 1..Len(gathered) /\ j # k
        BY <3>a
      <4>2. gathered[j].index # gathered[k].index
        BY <3>a, <4>1 DEF Distinct
      <4> QED  BY <3>1, <4>2
    <3>3. LastOf(i) \in 1..Len(gathered) /\ gathered[LastOf(i)].index = i
      BY <3>1, <3>2 DEF LastOf
    <3>4. gathered[LastOf(i)] \in Result
      BY <3>3 DEF TypeOK
    <3>5. QED
      BY <3>3, <3>4 DEF TrueResults, Result
  <2>3. results' \in [Inputs -> Outcomes]
    BY <2>1, <2>2
  <2>4. TypeOK'
    BY <2>1, <2>3 DEF TypeOK
  <2>5. OrderedResults'
    BY <2>1, <2>2 DEF OrderedResults
  <2>6. HeldInputs' /\ NoDoubleWork' /\ QuietAtEnd'
    BY <2>1 DEF HeldInputs, NoDoubleWork, QuietAtEnd
  <2>7. TrueResults(channel)' /\ TrueResults(gathered)'
    BY <2>1 DEF TrueResults
  <2>8. Distinct(channel)' /\ Distinct(gathered)' /\ Disjoint(channel, gathered)'
    BY <2>1 DEF Distinct, Disjoint
  <2>9. QED  BY <2>4, <2>5, <2>6, <2>7, <2>8
<1>3. QED  BY <1>1, <1>2

--------------------------------------------------------------------------------
\* Taking and running an input: the iterator only moves on, so the input taken
\* has no result anywhere yet.
LEMMA TakeIInv ==
    ASSUME IInv, NEW w \in Workers, Take(w)
    PROVE  IInv'
<1> USE BatchAssumption, BoundType DEF IInv, Busy
<1>1. /\ UNCHANGED <<main, spawned, channel, gathered, results, ran>>
      /\ next' \in {next, next + 1} /\ next' \in 0..InputCount
      /\ next \in 0..InputCount
  BY DEF Take, TypeOK
<1>2. \A k \in 1..Len(channel) : channel[k].index \in Inputs /\ channel[k].index < next
  BY QueueType DEF TrueResults
<1>3. \A k \in 1..Len(gathered) : gathered[k].index \in Inputs /\ gathered[k].index < next
  BY QueueType DEF TrueResults
<1>4. TypeOK'
  <2>1. holding' \in [Workers -> Inputs \cup {InputCount}]
    BY <1>1 DEF Take, TypeOK, Inputs
  <2>2. worker' \in [Workers -> {"unborn", "idle", "done", "panicked"} \cup Busy]
    BY DEF Take, TypeOK
  <2>3. QED  BY <1>1, <2>1, <2>2 DEF TypeOK
<1>8. QuietAtEnd'  BY <1>1 DEF Take, QuietAtEnd, TypeOK
<1>5. CASE next = InputCount
  <2>1. worker' = [worker EXCEPT ![w] = "done"] /\ UNCHANGED <<next, holding>>
    BY <1>5, <1>1 DEF Take
  <2>2. HeldInputs' /\ NoDoubleWork'
    BY <2>1, <1>1 DEF HeldInputs, NoDoubleWork, TypeOK
  <2>3. QED
    BY <1>1, <1>4, <1>8, <2>1, <2>2 DEF TrueResults, Distinct, Disjoint, OrderedResults
<1>6. CASE next # InputCount
  <2>1. /\ worker' = [worker EXCEPT ![w] = "working"]
        /\ holding' = [holding EXCEPT ![w] = next]
        /\ next' = next + 1 /\ next \in Inputs
    BY <1>6, <1>1 DEF Take, Inputs
  <2>2. /\ worker'[w] = "working" /\ holding'[w] = next
        /\ \A v \in Workers \ {w} : worker'[v] = worker[v] /\ holding'[v] = holding[v]
    BY <2>1 DEF TypeOK
  <2>3. \A v \in Workers \ {w} : worker[v] \in Busy =>
            holding[v] \in Inputs /\ holding[v] < next
    BY DEF HeldInputs
  <2>4. \A i \in Inputs : i < next => i < next' /\ i # next
    BY <1>1, <2>1 DEF Inputs
  <2>5. next < next'
    BY <1>1, <2>1
  <2>6. HeldInputs'
    <3>1. ASSUME NEW v \in Workers, v # w
          PROVE  /\ worker'[v] \in Busy => holding'[v] \in Inputs /\ holding'[v] < next'
                 /\ worker'[v] = "sending" => ran'[holding'[v]] # NotRun
      BY <1>1, <2>2, <2>3, <2>4, <3>1 DEF HeldInputs
    <3>2. QED  BY <2>1, <2>2, <2>5, <3>1 DEF HeldInputs
  <2>7. NoDoubleWork'
    <3>1. ASSUME NEW v \in Workers, worker'[v] \in Busy, v # w
          PROVE  /\ \A u \in Workers \ {v} : worker'[u] \in Busy => holding'[u] # holding'[v]
                 /\ \A k \in 1..Len(channel) : channel[k].index # holding'[v]
                 /\ \A k \in 1..Len(gathered) : gathered[k].index # holding'[v]
      BY <3>1, <2>2, <2>3, <2>4 DEF NoDoubleWork
    <3>2. /\ \A u \in Workers \ {w} : worker'[u] \in Busy => holding'[u] # holding'[w]
          /\ \A k \in 1..Len(channel) : channel[k].index # holding'[w]
          /\ \A k \in 1..Len(gathered) : gathered[k].index # holding'[w]
      BY <2>2, <2>3, <2>4, <1>2, <1>3
    <3>3. QED
      BY <1>1, <3>1, <3>2 DEF NoDoubleWork
  <2>8. TrueResults(channel)' /\ TrueResults(gathered)'
    <3>1. \A k \in 1..Len(channel) : channel[k].index < next'
      BY <1>2, <2>4
    <3>2. \A k \in 1..Len(gathered) : gathered[k].index < next'
      BY <1>3, <2>4
    <3>3. QED  BY <1>1, <3>1, <3>2 DEF TrueResults
  <2>9. QED
    BY <1>1, <1>4, <1>8, <2>6, <2>7, <2>8 DEF Distinct, Disjoint, OrderedResults
<1>7. QED  BY <1>5, <1>6

\* Running it: no result of this input is anywhere yet, so none becomes untrue.
LEMMA RunOneIInv ==
    ASSUME IInv, NEW w \in Workers, RunOne(w)
    PROVE  IInv'
<1> USE BatchAssumption, BoundType DEF IInv, Busy
<1>1. /\ worker[w] = "working" /\ holding[w] \in Inputs
      /\ UNCHANGED <<main, spawned, next, holding, channel, gathered, results>>
  BY DEF RunOne, HeldInputs
<1>2. main # "returned" /\ main # "placing"
  BY <1>1 DEF QuietAtEnd
<1>3. PICK x : worker' = [worker EXCEPT ![w] = x]
               /\ x \in {"sending", "panicked"}
               /\ (x = "sending" => ran'[holding[w]] # NotRun)
  BY <1>1 DEF RunOne, TypeOK
<1>4. /\ ran' \in [Inputs -> Outcomes \cup {NotRun}]
      /\ \A i \in Inputs \ {holding[w]} : ran'[i] = ran[i]
  BY <1>1 DEF RunOne, TypeOK
<1>5. TypeOK'
  BY <1>1, <1>3, <1>4 DEF TypeOK
<1>6. /\ worker'[w] = x
      /\ \A v \in Workers \ {w} : worker'[v] = worker[v]
  BY <1>3 DEF TypeOK
<1>7. HeldInputs'
  <2>1. ASSUME NEW v \in Workers \ {w}, worker[v] \in Busy PROVE holding[v] # holding[w]
    BY <1>1, <2>1 DEF NoDoubleWork
  <2>2. QED
    BY <1>1, <1>3, <1>4, <1>6, <2>1 DEF HeldInputs
<1>8. NoDoubleWork' /\ QuietAtEnd'
  BY <1>1, <1>2, <1>3, <1>6 DEF NoDoubleWork, QuietAtEnd
<1>9. TrueResults(channel)' /\ TrueResults(gathered)'
  <2>1. \A k \in 1..Len(channel) : channel[k].index \in Inputs \ {holding[w]}
    BY <1>1, QueueType DEF NoDoubleWork
  <2>2. \A k \in 1..Len(gathered) : gathered[k].index \in Inputs \ {holding[w]}
    BY <1>1, QueueType DEF NoDoubleWork
  <2>3. QED  BY <1>1, <1>4, <2>1, <2>2 DEF TrueResults
<1>10. QED
  BY <1>1, <1>2, <1>5, <1>7, <1>8, <1>9 DEF Distinct, Disjoint, OrderedResults

--------------------------------------------------------------------------------
\* Validating, spawning and the end of the channel leave the queues as they are.
LEMMA OtherMainIInv ==
    ASSUME IInv, Validate \/ Spawn \/ Disconnected
    PROVE  IInv'
<1> USE BatchAssumption, BoundType DEF IInv, Workers, Busy
<1>1. CASE Validate \/ Disconnected
  <2>1. /\ UNCHANGED <<spawned, next, worker, holding, channel, gathered, results, ran>>
        /\ main' \in {"spawning", "rejected", "placing"}
        /\ main' = "placing" => \A w \in Workers : worker[w] \in {"done", "panicked"}
    BY <1>1 DEF Validate, Disconnected
  <2>2. TypeOK'
    BY <2>1 DEF TypeOK
  <2>3. QuietAtEnd' /\ OrderedResults'
    BY <2>1 DEF QuietAtEnd, OrderedResults
  <2>4. QED
    BY <2>1, <2>2, <2>3 DEF HeldInputs, NoDoubleWork, TrueResults, Distinct, Disjoint
<1>2. CASE Spawn
  <2>1. /\ UNCHANGED <<next, holding, channel, gathered, results, ran>>
        /\ main' \in {"spawning", "receiving"}
        /\ spawned' \in 0..Bound
        /\ worker' \in [Workers -> {"unborn", "idle", "done", "panicked"} \cup Busy]
        /\ \A w \in Workers : worker'[w] = worker[w] \/ worker'[w] = "idle"
    <3>1. /\ main = "spawning" /\ spawned \in 0..Bound /\ Bound \in Nat
          /\ UNCHANGED <<next, holding, channel, gathered, results, ran>>
          /\ worker \in [Workers -> {"unborn", "idle", "done", "panicked"} \cup Busy]
      BY <1>2 DEF Spawn, TypeOK
    <3>2. CASE spawned < Bound
      <4>1. /\ spawned' = spawned + 1 /\ main' = main
            /\ worker' = [worker EXCEPT ![spawned + 1] = "idle"]
        BY <1>2, <3>1, <3>2 DEF Spawn
      <4>2. spawned' \in 0..Bound
        BY <3>1, <3>2, <4>1
      <4>3. /\ worker' \in [Workers -> {"unborn", "idle", "done", "panicked"} \cup Busy]
            /\ \A w \in Workers : worker'[w] = worker[w] \/ worker'[w] = "idle"
        BY <3>1, <4>1
      <4>4. QED  BY <3>1, <4>1, <4>2, <4>3
    <3>3. CASE spawned = Bound
      BY <1>2, <3>1, <3>3 DEF Spawn
    <3>4. QED  BY <3>1, <3>2, <3>3
  <2>2. TypeOK'
    BY <2>1 DEF TypeOK
  <2>3. HeldInputs'
    BY <2>1 DEF HeldInputs
  <2>4. NoDoubleWork'
    BY <2>1 DEF NoDoubleWork
  <2>5. QuietAtEnd' /\ OrderedResults'
    BY <2>1 DEF QuietAtEnd, OrderedResults
  <2>6. QED
    BY <2>1, <2>2, <2>3, <2>4, <2>5 DEF TrueResults, Distinct, Disjoint
<1>3. QED  BY <1>1, <1>2

\* Every step of the caller or of a worker keeps the inductive invariant.
LEMMA NextIInv == IInv /\ [Next]_vars => IInv'
<1> SUFFICES ASSUME IInv, [Next]_vars PROVE IInv'
  OBVIOUS
<1>1. CASE UNCHANGED vars
  BY <1>1 DEF vars, IInv, TypeOK, HeldInputs, NoDoubleWork, TrueResults, Distinct,
     Disjoint, OrderedResults, QuietAtEnd
<1>2. CASE MainStep
  BY <1>2, OtherMainIInv, ReceiveIInv, PlaceIInv DEF MainStep
<1>3. ASSUME NEW w \in Workers, WorkerStep(w) PROVE IInv'
  BY <1>3, TakeIInv, RunOneIInv, SendIInv DEF WorkerStep
<1>4. QED
  BY <1>1, <1>2, <1>3 DEF Next, Terminated

\* The inductive invariant holds in every state of every run of the pool.
THEOREM Invariance == Spec => []IInv
  BY InitIInv, NextIInv, PTL DEF Spec

\* No input is run by two workers, or twice.
THEOREM EachInputOnce == Spec => []NoDoubleWork
<1>1. IInv => NoDoubleWork  BY DEF IInv
<1>2. QED  BY <1>1, Invariance, PTL

\* The order of the results is the order of the inputs, not that of completion.
THEOREM ResultsOrdered == Spec => []OrderedResults
<1>1. IInv => OrderedResults  BY DEF IInv
<1>2. QED  BY <1>1, Invariance, PTL

\* The types of the pool's state, for any number of inputs and workers.
THEOREM TypeCorrect == Spec => []TypeOK
<1>1. IInv => TypeOK
  BY DEF IInv
<1>2. QED  BY <1>1, Invariance, PTL

--------------------------------------------------------------------------------
(* Failures stay alone *)

\* An input that was taken has been run, or is held by the worker that will run
\* it or that panicked on it.
TakenIsHeld ==
    \A i \in Inputs : i < next =>
        \/ ran[i] # NotRun
        \/ \E w \in Workers : worker[w] \in {"working", "panicked"} /\ holding[w] = i

\* An input that was run has its result with its worker, in the channel or
\* gathered.
RunIsOnItsWay ==
    \A i \in Inputs : ran[i] # NotRun =>
        \/ \E w \in Workers : worker[w] = "sending" /\ holding[w] = i
        \/ \E k \in 1..Len(channel) : channel[k].index = i
        \/ Arrived(i)

\* A worker ends only when there is nothing left to take, and the receiver only
\* when it has everything that was sent; there are workers in every accepted run.
EndsAreFinal ==
    /\ \A w \in Workers : worker[w] = "done" => next = InputCount
    /\ main \in {"placing", "returned", "panicked"} => channel = <<>>
    /\ main \notin {"start", "rejected"} => Accepted

\* Workers are born in order.
Unborn == \A w \in Workers : w > spawned => worker[w] = "unborn"

FateInv == TakenIsHeld /\ RunIsOnItsWay /\ EndsAreFinal /\ OnlyPanicsAbort /\ Unborn

\* Nothing has been taken or run before the first worker.
LEMMA InitFate == Init => FateInv
  BY BatchAssumption, BoundType
  DEF Init, FateInv, TakenIsHeld, RunIsOnItsWay, EndsAreFinal, OnlyPanicsAbort, Unborn, Inputs

\* Taking: the input taken is held; the others stay where they are.
LEMMA TakeFate ==
    ASSUME IInv, FateInv, NEW w \in Workers, Take(w)
    PROVE  FateInv'
<1> USE BatchAssumption DEF FateInv, Unborn
<1>1. /\ worker[w] = "idle" /\ next \in 0..InputCount
      /\ UNCHANGED <<main, spawned, channel, gathered, results, ran>>
      /\ worker \in [Workers -> {"unborn", "idle", "done", "panicked"} \cup Busy]
      /\ holding \in [Workers -> Inputs \cup {InputCount}]
  BY DEF Take, IInv, TypeOK
<1>2. main \notin {"placing", "returned", "panicked"}
  BY <1>1 DEF IInv, QuietAtEnd
<1>3. CASE next < InputCount
  <2>1. /\ worker' = [worker EXCEPT ![w] = "working"]
        /\ holding' = [holding EXCEPT ![w] = next] /\ next' = next + 1
    BY <1>1, <1>3 DEF Take
  <2>2. /\ worker'[w] = "working" /\ holding'[w] = next
        /\ \A v \in Workers \ {w} : worker'[v] = worker[v] /\ holding'[v] = holding[v]
    BY <1>1, <2>1
  <2>3. TakenIsHeld'
    <3>1. ASSUME NEW i \in Inputs, i < next'
          PROVE  \/ ran[i] # NotRun
                 \/ \E v \in Workers : worker'[v] \in {"working", "panicked"} /\ holding'[v] = i
      <4>1. CASE i = next
        BY <2>2, <4>1
      <4>2. CASE i # next
        <5>1. i < next
          BY <1>1, <2>1, <3>1, <4>2 DEF Inputs
        <5>2. QED  BY <1>1, <2>2, <5>1 DEF TakenIsHeld
      <4>3. QED  BY <4>1, <4>2
    <3>2. QED  BY <1>1, <3>1 DEF TakenIsHeld
  <2>4. RunIsOnItsWay'
    BY <1>1, <2>2 DEF RunIsOnItsWay, Arrived
  <2>5. EndsAreFinal'
    BY <1>1, <1>2, <1>3, <2>2 DEF EndsAreFinal, Accepted
  <2>6. Unborn'
    BY <1>1, <2>2
  <2>7. QED  BY <1>1, <1>2, <2>3, <2>4, <2>5, <2>6 DEF OnlyPanicsAbort
<1>4. CASE next = InputCount
  <2>1. worker' = [worker EXCEPT ![w] = "done"] /\ UNCHANGED <<next, holding>>
    BY <1>1, <1>4 DEF Take
  <2>2. /\ worker'[w] = "done"
        /\ \A v \in Workers \ {w} : worker'[v] = worker[v]
    BY <1>1, <2>1
  <2>3. TakenIsHeld' /\ RunIsOnItsWay'
    BY <1>1, <2>1, <2>2 DEF TakenIsHeld, RunIsOnItsWay, Arrived
  <2>4. EndsAreFinal' /\ OnlyPanicsAbort'
    BY <1>1, <1>2, <1>4, <2>1, <2>2 DEF EndsAreFinal, OnlyPanicsAbort, Accepted
  <2>5. Unborn'
    BY <1>1, <2>2
  <2>6. QED  BY <2>3, <2>4, <2>5
<1>5. QED  BY <1>1, <1>3, <1>4

\* Running: the input has a result with its worker, or is held by one that
\* panicked.
LEMMA RunOneFate ==
    ASSUME IInv, FateInv, NEW w \in Workers, RunOne(w)
    PROVE  FateInv'
<1> USE BatchAssumption DEF FateInv, Unborn
<1>1. /\ worker[w] = "working" /\ holding[w] \in Inputs
      /\ UNCHANGED <<main, spawned, next, holding, channel, gathered, results>>
      /\ worker \in [Workers -> {"unborn", "idle", "done", "panicked"} \cup Busy]
      /\ ran \in [Inputs -> Outcomes \cup {NotRun}]
  BY DEF RunOne, IInv, HeldInputs, TypeOK, Busy
<1>2. main \notin {"placing", "returned", "panicked"}
  BY <1>1 DEF IInv, QuietAtEnd
<1>3. \A v \in Workers \ {w} : worker'[v] = worker[v]
  BY <1>1 DEF RunOne
<1>4. CASE worker'[w] = "panicked" /\ ran' = ran
  <2>1. TakenIsHeld' /\ RunIsOnItsWay'
    BY <1>1, <1>3, <1>4 DEF TakenIsHeld, RunIsOnItsWay, Arrived
  <2>2. EndsAreFinal' /\ OnlyPanicsAbort'
    BY <1>1, <1>2, <1>3, <1>4 DEF EndsAreFinal, OnlyPanicsAbort, Accepted
  <2>3. Unborn'
    BY <1>1, <1>3
  <2>4. QED  BY <2>1, <2>2, <2>3
<1>5. CASE /\ worker'[w] = "sending" /\ ran'[holding[w]] # NotRun
           /\ \A i \in Inputs \ {holding[w]} : ran'[i] = ran[i]
  <2>1. TakenIsHeld'
    BY <1>1, <1>3, <1>5 DEF TakenIsHeld
  <2>2. RunIsOnItsWay'
    BY <1>1, <1>3, <1>5 DEF RunIsOnItsWay, Arrived
  <2>3. EndsAreFinal' /\ OnlyPanicsAbort'
    BY <1>1, <1>2, <1>3, <1>5 DEF EndsAreFinal, OnlyPanicsAbort, Accepted
  <2>4. Unborn'
    BY <1>1, <1>3
  <2>5. QED  BY <2>1, <2>2, <2>3, <2>4
<1>6. QED  BY <1>1, <1>4, <1>5 DEF RunOne

\* Sending: the result goes from its worker to the end of the channel.
LEMMA SendFate ==
    ASSUME IInv, FateInv, NEW w \in Workers, Send(w)
    PROVE  FateInv'
<1> USE BatchAssumption DEF FateInv, Unborn
<1>1. /\ worker[w] = "sending" /\ holding[w] \in Inputs
      /\ UNCHANGED <<main, spawned, next, holding, gathered, results, ran>>
      /\ worker \in [Workers -> {"unborn", "idle", "done", "panicked"} \cup Busy]
      /\ channel \in Seq(Result) /\ ran[holding[w]] \in Outcomes
  BY DEF Send, IInv, HeldInputs, TypeOK, Busy
<1>2. main \notin {"placing", "returned", "panicked"}
  BY <1>1 DEF IInv, QuietAtEnd
<1>3. /\ worker'[w] = "idle"
      /\ \A v \in Workers \ {w} : worker'[v] = worker[v]
  BY <1>1 DEF Send
<1>4. /\ Len(channel') = Len(channel) + 1 /\ Len(channel) \in Nat
      /\ \A k \in 1..Len(channel) : channel'[k] = channel[k]
      /\ channel'[Len(channel) + 1].index = holding[w]
  <2> DEFINE r == [index |-> holding[w], outcome |-> ran[holding[w]]]
  <2>1. r \in Result /\ r.index = holding[w]
    BY <1>1 DEF Result
  <2>2. channel' = Append(channel, r)
    BY DEF Send
  <2> HIDE DEF r
  <2>3. QED  BY <1>1, <2>1, <2>2
<1>5. TakenIsHeld'
  BY <1>1, <1>3 DEF TakenIsHeld
<1>6. RunIsOnItsWay'
  <2>1. ASSUME NEW i \in Inputs, ran[i] # NotRun
        PROVE  \/ \E v \in Workers : worker'[v] = "sending" /\ holding[v] = i
               \/ \E k \in 1..Len(channel') : channel'[k].index = i
               \/ Arrived(i)
    <3>1. CASE i = holding[w]
      BY <1>4, <3>1
    <3>2. CASE i # holding[w]
      BY <1>3, <1>4, <2>1, <3>2 DEF RunIsOnItsWay
    <3>3. QED  BY <3>1, <3>2
  <2>2. QED  BY <1>1, <2>1 DEF RunIsOnItsWay, Arrived
<1>7. EndsAreFinal' /\ OnlyPanicsAbort'
  BY <1>1, <1>2, <1>3 DEF EndsAreFinal, OnlyPanicsAbort, Accepted
<1>8. Unborn'
  BY <1>1, <1>3
<1>9. QED  BY <1>5, <1>6, <1>7, <1>8

\* The calling thread loses no result, and panics only for a worker's panic: if
\* no worker did, the iterator was emptied and every result has arrived.
LEMMA MainFate ==
    ASSUME IInv, FateInv, MainStep
    PROVE  FateInv'
<1> USE BatchAssumption DEF FateInv, Unborn
<1>1. CASE Validate
  BY <1>1 DEF Validate, TakenIsHeld, RunIsOnItsWay, EndsAreFinal, OnlyPanicsAbort, Arrived
<1>2. CASE Spawn
  <2>1. /\ main = "spawning" /\ main' \in {"spawning", "receiving"}
        /\ UNCHANGED <<next, holding, channel, gathered, results, ran>>
    BY <1>2 DEF Spawn
  <2>2. \A w \in Workers :
            \/ worker'[w] = worker[w]
            \/ worker[w] = "unborn" /\ worker'[w] = "idle"
    BY <1>2, BoundType DEF Spawn, IInv, TypeOK, Workers
  <2>3. Unborn'
    BY <1>2, BoundType DEF Spawn, IInv, TypeOK, Workers
  <2>4. TakenIsHeld' /\ RunIsOnItsWay'
    BY <2>1, <2>2 DEF TakenIsHeld, RunIsOnItsWay, Arrived
  <2>5. EndsAreFinal' /\ OnlyPanicsAbort'
    BY <2>1, <2>2 DEF EndsAreFinal, OnlyPanicsAbort, Accepted
  <2>6. QED  BY <2>3, <2>4, <2>5
<1>3. CASE Receive
  <2>1. /\ UNCHANGED <<main, spawned, next, worker, holding, results, ran>>
        /\ main = "receiving" /\ channel \in Seq(Result) /\ gathered \in Seq(Result)
        /\ Len(channel) \in Nat \ {0} /\ Head(channel) = channel[1]
        /\ Head(channel) \in Result
    BY <1>3 DEF Receive, IInv, TypeOK
  <2>2. /\ Len(channel') = Len(channel) - 1
        /\ \A k \in 1..Len(channel') : channel'[k] = channel[k + 1]
        /\ Len(gathered') = Len(gathered) + 1 /\ Len(gathered) \in Nat
        /\ \A k \in 1..Len(gathered) : gathered'[k] = gathered[k]
        /\ gathered'[Len(gathered) + 1] = channel[1]
    BY <1>3, <2>1 DEF Receive
  <2>3. ASSUME NEW i \in Inputs, NEW k \in 1..Len(channel), channel[k].index = i
        PROVE  \/ \E j \in 1..Len(channel') : channel'[j].index = i
               \/ Arrived(i)'
    <3>1. CASE k = 1
      <4>1. Len(gathered) + 1 \in 1..Len(gathered')
        BY <2>2
      <4>2. QED  BY <2>2, <2>3, <3>1, <4>1 DEF Arrived
    <3>2. CASE k # 1
      <4>1. k - 1 \in 1..Len(channel') /\ (k - 1) + 1 = k
        BY <2>1, <2>2, <3>2
      <4>2. QED  BY <2>2, <2>3, <4>1
    <3>3. QED  BY <3>1, <3>2
  <2>4. \A i \in Inputs : Arrived(i) => Arrived(i)'
    BY <2>2 DEF Arrived
  <2>5. RunIsOnItsWay'
    BY <2>1, <2>3, <2>4 DEF RunIsOnItsWay
  <2>6. TakenIsHeld' /\ EndsAreFinal' /\ OnlyPanicsAbort'
    BY <2>1 DEF TakenIsHeld, EndsAreFinal, OnlyPanicsAbort
  <2>7. QED  BY <2>1, <2>5, <2>6
<1>4. CASE Disconnected
  BY <1>4 DEF Disconnected, TakenIsHeld, RunIsOnItsWay, EndsAreFinal, OnlyPanicsAbort, Arrived
<1>5. CASE Place
  <2>1. /\ main = "placing" /\ channel = <<>> /\ Accepted
        /\ UNCHANGED <<spawned, next, worker, holding, channel, gathered, ran>>
        /\ \A w \in Workers : worker[w] \in {"done", "panicked"}
    BY <1>5 DEF Place, EndsAreFinal, IInv, QuietAtEnd
  <2>2. ASSUME \A w \in Workers : worker[w] # "panicked", NEW i \in Inputs
        PROVE  Arrived(i)
    <3>1. 1 \in Workers
      BY <2>1 DEF Accepted, Workers, Bound
    <3>2. i < next
      BY <2>1, <2>2, <3>1 DEF EndsAreFinal, Inputs
    <3>3. ran[i] # NotRun
      BY <2>1, <2>2, <3>2 DEF TakenIsHeld
    <3>4. QED  BY <2>1, <3>3 DEF RunIsOnItsWay
  <2>3. OnlyPanicsAbort'
    BY <1>5, <2>1, <2>2 DEF Place, OnlyPanicsAbort
  <2>4. TakenIsHeld' /\ RunIsOnItsWay' /\ EndsAreFinal'
    BY <2>1 DEF TakenIsHeld, RunIsOnItsWay, EndsAreFinal, Arrived
  <2>5. QED  BY <2>1, <2>3, <2>4
<1>6. QED  BY <1>1, <1>2, <1>3, <1>4, <1>5 DEF MainStep

\* A failure stays alone, for any number of inputs and workers: only a panic
\* aborts a run, and its siblings finish what was asked of them.
THEOREM FailuresAlone == Spec => []FailuresStayAlone
<1>1. IInv /\ FateInv /\ [Next]_vars => FateInv'
  <2> SUFFICES ASSUME IInv, FateInv, [Next]_vars
               PROVE  FateInv'
    OBVIOUS
  <2>1. CASE UNCHANGED vars
    BY <2>1 DEF vars, FateInv, TakenIsHeld, RunIsOnItsWay, EndsAreFinal, OnlyPanicsAbort, Unborn, Arrived
  <2>2. ASSUME NEW w \in Workers, WorkerStep(w)
        PROVE  FateInv'
    BY <2>2, TakeFate, RunOneFate, SendFate DEF WorkerStep
  <2>3. QED  BY <2>1, <2>2, MainFate DEF Next, Terminated
<1>2. IInv /\ FateInv => FailuresStayAlone
  <2> SUFFICES ASSUME IInv, FateInv, main \in {"returned", "panicked"}, NEW i \in Inputs,
                      NEW v \in Workers, worker[v] # "panicked"
               PROVE  \/ ran[i] # NotRun
                      \/ \E w \in Workers : worker[w] = "panicked" /\ holding[w] = i
    BY DEF FailuresStayAlone, SiblingsFinish, FateInv
  <2>1. \A w \in Workers : worker[w] \in {"done", "panicked"}
    BY DEF IInv, QuietAtEnd
  <2>2. i < next
    BY <2>1, BatchAssumption DEF FateInv, EndsAreFinal, Inputs
  <2>3. QED  BY <2>1, <2>2 DEF FateInv, TakenIsHeld
<1>3. QED  BY <1>1, <1>2, InitFate, Invariance, PTL DEF Spec
================================================================================
