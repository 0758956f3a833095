----------------------------- MODULE BatchScheduler -----------------------------
(****************************************************************************)
(* The bounded worker pool of batch_extract.rs (schedule_snapshot_jobs and  *)
(* inspect_files, which differ only in what a worker does with its input).  *)
(* Workers take inputs from one shared iterator under a mutex, and send     *)
(* each result over a channel to the calling thread, which puts the results *)
(* back into input order when every sender is gone.                         *)
(****************************************************************************)
EXTENDS Naturals, Sequences

CONSTANTS
    InputCount,   \* length of the caller's input vector
    Requested,    \* the worker count asked for
    MaxWorkers,   \* MAX_WORKERS
    Outcomes,     \* what run_one may return: the failed read is one of them
    NotRun        \* no outcome yet

ASSUME BatchAssumption ==
    /\ InputCount \in Nat
    /\ Requested \in Nat
    /\ MaxWorkers \in Nat \ {0}
    /\ NotRun \notin Outcomes

Inputs == 0..(InputCount - 1)

\* worker_limit: the bound, defined when it returns no error.
Accepted == InputCount # 0 /\ Requested # 0 /\ Requested <= MaxWorkers
Bound == IF Requested <= InputCount THEN Requested ELSE InputCount
Workers == 1..Bound

VARIABLES
    main,      \* the calling thread
    spawned,   \* workers started so far
    next,      \* position of the shared iterator
    worker,    \* state of each worker
    holding,   \* the input a worker took
    channel,   \* results sent and not received
    gathered,  \* results received, in order of completion
    results,   \* the run returned to the caller
    ran        \* ghost: what each input's worker came to

vars == <<main, spawned, next, worker, holding, channel, gathered, results, ran>>

Result == [index : Inputs, outcome : Outcomes]
Busy == {"working", "sending"}

\* The types of the pool's state; a run that returns has no empty slot.
TypeOK ==
    /\ main \in {"start", "rejected", "spawning", "receiving", "placing",
                 "returned", "panicked"}
    /\ spawned \in 0..Bound
    /\ next \in 0..InputCount
    /\ worker \in [Workers -> {"unborn", "idle", "done", "panicked"} \cup Busy]
    /\ holding \in [Workers -> Inputs \cup {InputCount}]
    /\ channel \in Seq(Result)
    /\ gathered \in Seq(Result)
    /\ results \in [Inputs -> Outcomes \cup {NotRun}]
    /\ ran \in [Inputs -> Outcomes \cup {NotRun}]
    /\ main = "returned" => results \in [Inputs -> Outcomes]

Init ==
    /\ main = "start"
    /\ spawned = 0
    /\ next = 0
    /\ worker = [w \in Workers |-> "unborn"]
    /\ holding = [w \in Workers |-> InputCount]
    /\ channel = <<>>
    /\ gathered = <<>>
    /\ results = [i \in Inputs |-> NotRun]
    /\ ran = [i \in Inputs |-> NotRun]

--------------------------------------------------------------------------------
Validate ==
    /\ main = "start"
    /\ main' = IF Accepted THEN "spawning" ELSE "rejected"
    /\ UNCHANGED <<spawned, next, worker, holding, channel, gathered, results, ran>>

\* The workers already spawned run while the next one is spawned; after the
\* last one the caller drops its own sender.
Spawn ==
    /\ main = "spawning"
    /\ \/ /\ spawned < Bound
          /\ spawned' = spawned + 1
          /\ worker' = [worker EXCEPT ![spawned + 1] = "idle"]
          /\ UNCHANGED main
       \/ /\ spawned = Bound
          /\ main' = "receiving"
          /\ UNCHANGED <<spawned, worker>>
    /\ UNCHANGED <<next, holding, channel, gathered, results, ran>>

\* Mutant: the position is read under the lock and advanced later, by RunOne.
TakeUnlocked(w) ==
    /\ worker[w] = "idle"
    /\ IF next < InputCount
       THEN /\ holding' = [holding EXCEPT ![w] = next]
            /\ worker' = [worker EXCEPT ![w] = "working"]
            /\ next' \in {next, next + 1}
       ELSE /\ worker' = [worker EXCEPT ![w] = "done"]
            /\ UNCHANGED <<next, holding>>
    /\ UNCHANGED <<main, spawned, channel, gathered, results, ran>>

\* tasks.lock().next(): one input, or the end of the worker, whose sender goes.
Take(w) ==
    /\ worker[w] = "idle"
    /\ \/ /\ next < InputCount
          /\ holding' = [holding EXCEPT ![w] = next]
          /\ next' = next + 1
          /\ worker' = [worker EXCEPT ![w] = "working"]
       \/ /\ next = InputCount
          /\ worker' = [worker EXCEPT ![w] = "done"]
          /\ UNCHANGED <<next, holding>>
    /\ UNCHANGED <<main, spawned, channel, gathered, results, ran>>

\* Mutant: a failed read ends its worker.
RunOneStopsWorker(w) ==
    /\ worker[w] = "working"
    /\ \/ \E o \in Outcomes :
            /\ ran' = [ran EXCEPT ![holding[w]] = o]
            /\ worker' = [worker EXCEPT ![w] = "sending"]
       \/ /\ worker' = [worker EXCEPT ![w] = "done"]
          /\ UNCHANGED ran
    /\ UNCHANGED <<main, spawned, next, holding, channel, gathered, results>>

\* run_one: read and process the input.  The processor may panic, which ends
\* the worker: its sender is dropped and its input never gets a result.
RunOne(w) ==
    /\ worker[w] = "working"
    /\ \/ \E o \in Outcomes :
            /\ ran' = [ran EXCEPT ![holding[w]] = o]
            /\ worker' = [worker EXCEPT ![w] = "sending"]
       \/ /\ worker' = [worker EXCEPT ![w] = "panicked"]
          /\ UNCHANGED ran
    /\ UNCHANGED <<main, spawned, next, holding, channel, gathered, results>>

Send(w) ==
    /\ worker[w] = "sending"
    /\ channel' = Append(channel, [index |-> holding[w], outcome |-> ran[holding[w]]])
    /\ worker' = [worker EXCEPT ![w] = "idle"]
    /\ UNCHANGED <<main, spawned, next, holding, gathered, results, ran>>

Receive ==
    /\ main = "receiving"
    /\ channel # <<>>
    /\ gathered' = Append(gathered, Head(channel))
    /\ channel' = Tail(channel)
    /\ UNCHANGED <<main, spawned, next, worker, holding, results, ran>>

\* Mutant: the sender of a worker that panicked is never dropped.
DisconnectedLeak ==
    /\ main = "receiving"
    /\ channel = <<>>
    /\ \A w \in Workers : worker[w] = "done"
    /\ main' = "placing"
    /\ UNCHANGED <<spawned, next, worker, holding, channel, gathered, results, ran>>

\* The receiver's iterator ends when every sender is dropped.
Disconnected ==
    /\ main = "receiving"
    /\ channel = <<>>
    /\ \A w \in Workers : worker[w] \in {"done", "panicked"}
    /\ main' = "placing"
    /\ UNCHANGED <<spawned, next, worker, holding, channel, gathered, results, ran>>

Arrived(i) == \E k \in 1..Len(gathered) : gathered[k].index = i
LastOf(i) == CHOOSE k \in 1..Len(gathered) :
                /\ gathered[k].index = i
                /\ \A j \in (k + 1)..Len(gathered) : gathered[j].index # i

\* Mutant: results in completion order.
PlaceByArrival ==
    /\ main = "placing"
    /\ IF Len(gathered) = InputCount
       THEN /\ results' = [i \in Inputs |-> gathered[i + 1].outcome]
            /\ main' = "returned"
       ELSE main' = "panicked" /\ UNCHANGED results
    /\ UNCHANGED <<spawned, next, worker, holding, channel, gathered, ran>>

\* One slot per input; an empty slot panics ("one result per batch input"), and
\* so does the scope when one of its threads did.
Place ==
    /\ main = "placing"
    /\ \/ /\ \A i \in Inputs : Arrived(i)
          /\ \A w \in Workers : worker[w] # "panicked"
          /\ results' = [i \in Inputs |-> gathered[LastOf(i)].outcome]
          /\ main' = "returned"
       \/ /\ \/ \E i \in Inputs : ~Arrived(i)
             \/ \E w \in Workers : worker[w] = "panicked"
          /\ main' = "panicked"
          /\ UNCHANGED results
    /\ UNCHANGED <<spawned, next, worker, holding, channel, gathered, ran>>

Ended == main \in {"rejected", "returned", "panicked"}
Terminated == Ended /\ UNCHANGED vars

MainStep == Validate \/ Spawn \/ Receive \/ Disconnected \/ Place
WorkerStep(w) == Take(w) \/ RunOne(w) \/ Send(w)
Next == MainStep \/ (\E w \in Workers : WorkerStep(w)) \/ Terminated

Spec == Init /\ [][Next]_vars

\* Threads are scheduled fairly and a processor returns or panics.
FairSpec ==
    /\ Spec
    /\ WF_vars(MainStep)
    /\ \A w \in Workers : WF_vars(WorkerStep(w))

--------------------------------------------------------------------------------
\* No input is in two hands: two workers never hold the same input, and none
\* holds one whose result is already on its way.
NoDoubleWork ==
    \A w \in Workers : worker[w] \in Busy =>
        /\ \A v \in Workers \ {w} : worker[v] \in Busy => holding[v] # holding[w]
        /\ \A k \in 1..Len(channel) : channel[k].index # holding[w]
        /\ \A k \in 1..Len(gathered) : gathered[k].index # holding[w]

\* A run that returns has, in every slot, what the worker of that very input
\* computed, whatever the order of completion ("one deterministically placed
\* result").
OrderedResults ==
    main = "returned" => \A i \in Inputs : ran[i] # NotRun /\ results[i] = ran[i]

\* The run aborts exactly when a processor panicked: a failed input is only its
\* own result, and a lost one is never passed over.
OnlyPanicsAbort ==
    /\ main = "returned" => \A w \in Workers : worker[w] # "panicked"
    /\ main = "panicked" => \E w \in Workers : worker[w] = "panicked"

\* When the run ends every input was run, unless its own worker panicked on it
\* or no worker was left: a panic does not stop the siblings.
SiblingsFinish ==
    main \in {"returned", "panicked"} =>
        \A i \in Inputs :
            \/ ran[i] # NotRun
            \/ \E w \in Workers : worker[w] = "panicked" /\ holding[w] = i
            \/ \A w \in Workers : worker[w] = "panicked"

\* A failure stays alone: a panic is the only one that ends the run early, and
\* even that takes no sibling's work with it.
FailuresStayAlone == OnlyPanicsAbort /\ SiblingsFinish

\* The run ends: the receiver sees the last sender go, even after a panic.
RunEnds == <>Ended
================================================================================
