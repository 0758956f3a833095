------------------------ MODULE BatchTrialBalanceProofs -------------------------
(****************************************************************************)
(* Theorems about BatchTrialBalance.  The invariant of the pool holds here; *)
(* a report is of one state of its file, whatever other programs write      *)
(* meanwhile; and the command implements AtomicBatch.                       *)
(****************************************************************************)
EXTENDS BatchTrialBalance, SequenceTheorems, TLAPS

\* The pool with its theorems.
Proved == INSTANCE BatchSchedulerProofs

\* A step of the command is a step of the pool, or one the pool does not see.
LEMMA StepRefines == [Next]_vars => [Pool!Next]_(Pool!vars)
<1> SUFFICES ASSUME [Next]_vars, ~UNCHANGED poolVars
             PROVE  Pool!Next
  BY DEF poolVars, Pool!vars
<1>1. CASE Command
  <2>1. Schedule
    BY <1>1 DEF Command, Start, Collect, Write, Publish
  <2>2. QED  BY <2>1 DEF Schedule, Pool!Next
<1>2. ASSUME NEW w \in Workers, Worker(w)
      PROVE  Pool!Next
  <2>1. Pool!Take(w) \/ Pool!RunOne(w) \/ Pool!Send(w)
    BY <1>2 DEF Worker, Take, Send, Panic, Stat, Open, Read, Restat, Decode, Report,
                Unreadable, Return, Step
  <2>2. QED  BY <2>1 DEF Pool!Next, Pool!WorkerStep, Workers
<1>3. CASE Others
  BY <1>3 DEF Others, WriteInPlace, Replace, Remove, Written, TakeOutputName
<1>4. CASE Terminated \/ UNCHANGED vars
  BY <1>4 DEF Terminated, vars
<1>5. QED  BY <1>1, <1>2, <1>3, <1>4 DEF Next

\* What the pool does in the command it does by itself, so that its invariant
\* carries over.
LEMMA PoolOfCommand == Spec => Pool!Spec
<1>1. Init => Pool!Init
  BY DEF Init
<1>2. QED
  BY <1>1, StepRefines, PTL DEF Spec, Pool!Spec

\* The two instances of the pool, with and without its proofs, are one.
LEMMA SamePool == Pool!Spec => Proved!Spec
<1>1. Pool!Init => Proved!Init
  BY DEF Pool!Init, Proved!Init, Pool!Workers, Proved!Workers, Pool!Inputs, Proved!Inputs,
         Pool!Bound, Proved!Bound
<1>2. Pool!Workers = Proved!Workers /\ Pool!Inputs = Proved!Inputs
  BY DEF Pool!Workers, Proved!Workers, Pool!Bound, Proved!Bound, Pool!Inputs, Proved!Inputs
<1>3. Pool!MainStep => Proved!MainStep
  BY <1>2 DEF Pool!MainStep, Proved!MainStep, Pool!Validate, Proved!Validate,
      Pool!Accepted, Proved!Accepted, Pool!Spawn, Proved!Spawn, Pool!Bound, Proved!Bound,
      Pool!Receive, Proved!Receive, Pool!Disconnected, Proved!Disconnected,
      Pool!Place, Proved!Place, Pool!Arrived, Proved!Arrived, Pool!LastOf, Proved!LastOf
<1>4. ASSUME NEW w \in Pool!Workers, Pool!WorkerStep(w)
      PROVE  Proved!WorkerStep(w)
  BY <1>4 DEF Pool!WorkerStep, Proved!WorkerStep, Pool!Take, Proved!Take,
      Pool!RunOne, Proved!RunOne, Pool!Send, Proved!Send
<1>5. [Pool!Next]_(Pool!vars) => [Proved!Next]_(Proved!vars)
  <2>1. (\E w \in Pool!Workers : Pool!WorkerStep(w))
            => \E w \in Proved!Workers : Proved!WorkerStep(w)
    BY <1>2, <1>4
  <2>2. Pool!Terminated => UNCHANGED Proved!vars
    BY DEF Pool!Terminated, Pool!vars, Proved!vars
  <2>3. UNCHANGED Pool!vars => UNCHANGED Proved!vars
    BY DEF Pool!vars, Proved!vars
  <2>4. QED  BY <1>3, <2>1, <2>2, <2>3 DEF Pool!Next, Proved!Next
<1>6. QED  BY <1>1, <1>5, PTL DEF Pool!Spec, Proved!Spec

\* The pool's inductive invariant holds of the command, by refinement.
LEMMA PoolInvariant == Spec => []Proved!IInv
<1>1. Proved!BatchAssumption
  BY BatchTrialBalanceAssumption DEF Proved!BatchAssumption, Outcomes, NotRun
<1>2. Proved!Spec => []Proved!IInv
  BY <1>1, Proved!Invariance
<1>3. QED  BY <1>2, SamePool, PoolOfCommand, PTL

--------------------------------------------------------------------------------
(* Types of jobs and files *)

\* What the pool's invariant says of indices, workers and the inputs they hold.
LEMMA Indices ==
    ASSUME Proved!IInv
    PROVE  /\ Workers = Proved!Workers /\ Inputs = Proved!Inputs
           /\ Inputs = 0..(InputCount - 1)
           /\ worker \in [Workers -> {"unborn", "idle", "done", "panicked", "working", "sending"}]
           /\ \A w \in Workers : worker[w] = "working" => holding[w] \in Inputs
  BY DEF Proved!IInv, Proved!TypeOK, Proved!HeldInputs, Workers, Inputs, Pool!Workers,
         Proved!Workers, Pool!Bound, Proved!Bound, Pool!Inputs, Proved!Inputs, Proved!Busy

\* The kinds of jobs, by phase.
LEMMA JobKinds ==
    ASSUME TypeOK, NEW w \in Workers, job[w].phase # "none"
    PROVE  /\ job[w] # NoJob
           /\ job[w].phase \in {"stat", "open", "read", "restat"} => job[w].pass \in {1, 2}
           /\ job[w].kept \in Contents
           /\ job[w].phase \in {"open", "read", "restat"} =>
                 job[w].length \in Nat /\ job[w].mtime \in Nat
           /\ job[w].phase \in {"read", "restat"} =>
                 job[w].inode \in DOMAIN disk /\ job[w].bytes \in Contents
  BY DEF TypeOK, Jobs, NoJob

\* Other programs leave files behind, and jobs as they are.
LEMMA OthersType ==
    ASSUME TypeOK, Others
    PROVE  TypeOK'
<1> USE BatchTrialBalanceAssumption
<1>1. ASSUME NEW i \in Inputs, NEW n \in DOMAIN disk, NEW content \in Contents,
             Written(i, n, content)
      PROVE  TypeOK'
  <2>1. writes \in Nat /\ writes + 1 \in 0..MaxWrites
    BY <1>1 DEF Written, TypeOK
  <2>2. PICK t \in Nat : disk' = [disk EXCEPT ![n] = [content |-> content, mtime |-> t]]
    <3>1. disk[n].mtime \in Nat /\ writes + 1 \in Nat
      BY <2>1 DEF TypeOK
    <3>2. {writes + 1} \cup (IF Coarse THEN {disk[n].mtime} ELSE {}) \subseteq Nat
      BY <3>1
    <3>3. QED  BY <1>1, <3>2 DEF Written
  <2>3. /\ disk' \in [0..(InputCount + MaxWrites - 1) -> [content : Contents, mtime : Nat]]
        /\ DOMAIN disk' = DOMAIN disk
    BY <2>2 DEF TypeOK
  <2>4. path' \in [Inputs -> DOMAIN disk' \cup {Gone}]
    BY <1>1, <2>3 DEF Written, TypeOK
  <2>5. UNCHANGED <<job, worker, reports, cmd, main, Jobs>>
    BY <1>1, <2>3 DEF Written, poolVars, cmdVars, Jobs
  <2>6. QED
    BY <1>1, <2>1, <2>3, <2>4, <2>5 DEF Written, TypeOK
<1>2. NewChunks \subseteq Chunks \/ writes = MaxWrites
  BY DEF NewChunks, Chunks, TypeOK
<1>3. ASSUME NEW i \in Inputs, WriteInPlace(i)
      PROVE  TypeOK'
  <2> DEFINE content == disk[path[i]].content
  <2>1. path[i] \in DOMAIN disk /\ content \in Contents
    BY <1>3 DEF WriteInPlace, TypeOK
  <2>2. ASSUME NEW k \in DOMAIN content, NEW c \in NewChunks,
               Written(i, path[i], [content EXCEPT ![k] = c])
        PROVE  TypeOK'
    <3>1. c \in Chunks
      BY <1>2, <2>2 DEF Written, TypeOK
    <3>2. [content EXCEPT ![k] = c] \in Contents
      BY <2>1, <2>2, <3>1 DEF Contents
    <3>3. QED  BY <1>1, <2>1, <2>2, <3>2
  <2>3. ASSUME NEW c \in NewChunks, Written(i, path[i], Append(content, c))
        PROVE  TypeOK'
    <3>1. c \in Chunks
      BY <1>2, <2>3 DEF Written, TypeOK
    <3>2. Append(content, c) \in Contents
      BY <2>1, <3>1 DEF Contents
    <3>3. QED  BY <1>1, <2>1, <2>3, <3>2
  <2>4. ASSUME content # <<>>, Written(i, path[i], SubSeq(content, 1, Len(content) - 1))
        PROVE  TypeOK'
    <3>1. SubSeq(content, 1, Len(content) - 1) \in Contents
      BY <2>1, <2>4 DEF Contents
    <3>2. QED  BY <1>1, <2>1, <2>4, <3>1
  <2>5. ASSUME NEW c \in NewChunks, Written(i, path[i], [k \in DOMAIN content |-> c])
        PROVE  TypeOK'
    <3>1. c \in Chunks
      BY <1>2, <2>5 DEF Written, TypeOK
    <3>2. [k \in DOMAIN content |-> c] \in Contents
      BY <2>1, <3>1 DEF Contents
    <3>3. QED  BY <1>1, <2>1, <2>5, <3>2
  <2>6. QED  BY <1>3, <2>2, <2>3, <2>4, <2>5 DEF WriteInPlace
<1>4. ASSUME NEW i \in Inputs, Replace(i)
      PROVE  TypeOK'
  <2>1. PICK c \in NewChunks, d \in NewChunks : Written(i, InputCount + writes, <<c, d>>)
    BY <1>4 DEF Replace
  <2>2. writes # MaxWrites /\ InputCount + writes \in DOMAIN disk
    BY <2>1 DEF Written, TypeOK
  <2>3. <<c, d>> \in Contents
    BY <1>2, <2>2 DEF Contents
  <2>4. QED  BY <1>1, <2>1, <2>2, <2>3
<1>5. ASSUME NEW i \in Inputs, Remove(i)
      PROVE  TypeOK'
  BY <1>5 DEF Remove, TypeOK, Jobs, poolVars, cmdVars
<1>6. CASE TakeOutputName
  BY <1>6 DEF TakeOutputName, TypeOK, Jobs, poolVars, fileVars
<1>7. QED  BY <1>3, <1>4, <1>5, <1>6 DEF Others

\* A job that ends leaves its bytes behind if it made a report.
LEMMA ReturnType ==
    ASSUME Proved!IInv, TypeOK, NEW w \in Workers, NEW o, Return(w, o),
           job[w].phase # "none"
    PROVE  TypeOK'
<1>1. job' = [job EXCEPT ![w] = NoJob] /\ worker' = [worker EXCEPT ![w] = "sending"]
  BY DEF Return, Pool!RunOne
<1>2. UNCHANGED <<main, path, disk, writes, cmd, Jobs, holding>>
  BY DEF Return, Pool!RunOne, fileVars, cmdVars, Jobs
<1>3. reports' \in [Inputs -> Contents]
  <2>1. holding[w] \in Inputs /\ job[w].kept \in Contents
    BY Indices, JobKinds DEF Return, Pool!RunOne
  <2>2. QED  BY <2>1 DEF Return, TypeOK
<1>4. job' \in [Workers -> Jobs]
  BY <1>1 DEF TypeOK, Jobs
<1>5. \A v \in Workers : job'[v] # NoJob <=> worker'[v] = "working"
  BY <1>1, Indices DEF TypeOK
<1>6. QED  BY <1>2, <1>3, <1>4, <1>5 DEF TypeOK

\* A job that goes on has another kind of job.
LEMMA StepType ==
    ASSUME TypeOK, NEW w \in Workers, job[w] # NoJob, NEW j \in Jobs, j # NoJob,
           job' = [job EXCEPT ![w] = j], Step(w)
    PROVE  TypeOK'
  BY DEF TypeOK, Step, poolVars, fileVars, cmdVars, Jobs

\* Every step of a job keeps the types and the bound of its reading.
LEMMA WorkerType ==
    ASSUME Proved!IInv, TypeOK, BoundedReading, NEW w \in Workers, Worker(w)
    PROVE  TypeOK' /\ BoundedReading'
<1> USE BatchTrialBalanceAssumption
<1>1. ASSUME NEW o, Return(w, o), job[w].phase # "none"
      PROVE  TypeOK' /\ BoundedReading'
  BY <1>1, ReturnType DEF Return, BoundedReading, NoJob, TypeOK
<1>2. ASSUME Unreadable(w), job[w].phase # "none"
      PROVE  TypeOK' /\ BoundedReading'
  BY <1>1, <1>2 DEF Unreadable
<1>3. ASSUME job[w].phase # "none", NEW j \in Jobs, j # NoJob,
             job' = [job EXCEPT ![w] = j], Step(w),
             j.phase \in {"open", "read", "restat"} => j.length <= MaxLength,
             j.phase \in {"read", "restat"} => Len(j.bytes) <= j.length
      PROVE  TypeOK' /\ BoundedReading'
  <2>1. TypeOK'
    <3>1. job[w] # NoJob
      BY <1>3 DEF NoJob
    <3>2. QED  BY <1>3, <3>1, StepType
  <2>2. QED  BY <1>3, <2>1 DEF BoundedReading, TypeOK
<1> DEFINE old == job[w]
<1>4. CASE Take(w)
  <2>1. worker' = [worker EXCEPT ![w] = worker'[w]] /\ worker'[w] \in {"working", "done"}
    BY <1>4, Indices DEF Take, Pool!Take
  <2> DEFINE j == IF worker'[w] = "working" THEN [phase |-> "stat", pass |-> 1, kept |-> <<>>]
                  ELSE NoJob
  <2>2. j \in Jobs' /\ (j # NoJob <=> worker'[w] = "working")
    BY DEF Jobs, NoJob, Contents
  <2>3. job' = [job EXCEPT ![w] = j]
    BY <1>4 DEF Take
  <2>4. UNCHANGED <<main, path, disk, writes, reports, cmd, Jobs>>
    BY <1>4 DEF Take, Pool!Take, fileVars, cmdVars, Jobs
  <2>5. job' \in [Workers -> Jobs']
    BY <2>2, <2>3, <2>4 DEF TypeOK
  <2>6. \A v \in Workers : job'[v] # NoJob <=> worker'[v] = "working"
    BY <2>1, <2>2, <2>3, Indices DEF TypeOK
  <2>7. TypeOK'
    BY <2>4, <2>5, <2>6 DEF TypeOK
  <2>8. j.phase \in {"stat", "none"}
    BY DEF NoJob
  <2>9. BoundedReading'
    BY <2>3, <2>8 DEF BoundedReading, TypeOK
  <2>10. QED  BY <2>7, <2>9
<1>5. CASE Stat(w)
  <2>1. job[w].phase = "stat"
    BY <1>5 DEF Stat
  <2>2. CASE Unreadable(w)
    BY <1>2, <2>1, <2>2
  <2>3. CASE Readable(w) /\ ~Unreadable(w)
    <3> DEFINE file == disk[path[holding[w]]]
               j == [phase |-> "open", pass |-> old.pass, kept |-> old.kept,
                     length |-> Len(file.content), mtime |-> file.mtime]
    <3>1. file.content \in Contents /\ file.mtime \in Nat /\ Len(file.content) <= MaxLength
      <4>1. holding[w] \in Inputs
        BY <2>1, JobKinds, Indices DEF TypeOK
      <4>2. QED  BY <2>3, <4>1 DEF Readable, TypeOK
    <3>2. j \in Jobs /\ j # NoJob
      BY <2>1, <3>1, JobKinds DEF Jobs, NoJob, Contents
    <3>3. QED  BY <1>3, <1>5, <2>1, <2>3, <3>1, <3>2 DEF Stat
  <2>4. QED  BY <1>5, <2>2, <2>3 DEF Stat
<1>6. CASE Open(w)
  <2>1. job[w].phase = "open"
    BY <1>6 DEF Open
  <2>2. CASE Unreadable(w)
    BY <1>2, <2>1, <2>2
  <2>3. CASE path[holding[w]] # Gone /\ ~Unreadable(w)
    <3> DEFINE j == [phase |-> "read", pass |-> old.pass, kept |-> old.kept,
                     length |-> old.length, mtime |-> old.mtime,
                     inode |-> path[holding[w]], bytes |-> <<>>]
    <3>1. path[holding[w]] \in DOMAIN disk
      <4>1. holding[w] \in Inputs
        BY <2>1, JobKinds, Indices DEF TypeOK
      <4>2. QED  BY <2>3, <4>1 DEF TypeOK
    <3>2. j \in Jobs /\ j # NoJob
      BY <2>1, <3>1, JobKinds DEF Jobs, NoJob, Contents
    <3>3. old.length <= MaxLength /\ Len(j.bytes) <= j.length
      BY <2>1, JobKinds DEF BoundedReading
    <3>4. QED  BY <1>3, <1>6, <2>1, <2>3, <3>2, <3>3 DEF Open
  <2>4. QED  BY <1>6, <2>2, <2>3 DEF Open
<1>7. CASE Read(w)
  <2>1. job[w].phase = "read"
    BY <1>7 DEF Read
  <2>2. CASE Unreadable(w)
    BY <1>2, <2>1, <2>2
  <2> DEFINE content == disk[old.inode].content
             k == Len(old.bytes) + 1
  <2>3. content \in Contents /\ k \in Nat /\ old.length <= MaxLength
    <3>1. old.inode \in DOMAIN disk /\ old.bytes \in Contents
      BY <2>1, JobKinds
    <3>2. content \in Contents
      BY <3>1 DEF TypeOK
    <3>3. k \in Nat
      BY <3>1 DEF Contents
    <3>4. old.length <= MaxLength
      BY <2>1 DEF BoundedReading
    <3>5. QED  BY <3>2, <3>3, <3>4
  <2>4. CASE /\ k <= Len(content) /\ k <= old.length
             /\ job' = [job EXCEPT ![w].bytes = Append(@, content[k])]
             /\ Step(w)
    <3> DEFINE j == [old EXCEPT !.bytes = Append(old.bytes, content[k])]
    <3>1. job' = [job EXCEPT ![w] = j]
      BY <2>4 DEF TypeOK
    <3>2. Append(old.bytes, content[k]) \in Contents /\ Len(Append(old.bytes, content[k])) = k
      <4>1. content \in Seq(Chunks) /\ old.bytes \in Seq(Chunks)
        BY <2>1, <2>3, JobKinds DEF Contents
      <4>2. k \in 1..Len(content)
        BY <2>3, <2>4
      <4>3. content[k] \in Chunks
        BY <4>1, <4>2, ElementOfSeq
      <4>4. QED  BY <4>1, <4>3, AppendProperties DEF Contents
    <3>3. j \in Jobs /\ j # NoJob /\ j.length = old.length /\ j.phase = "read" /\ Len(j.bytes) = k
      <4> DEFINE more == Append(old.bytes, content[k])
                 new == [old EXCEPT !.bytes = more]
      <4>1. old \in [phase : {"read", "restat"}, pass : {1, 2}, kept : Contents,
                     length : Nat, mtime : Nat, inode : DOMAIN disk, bytes : Contents]
        BY <2>1 DEF Jobs, NoJob, TypeOK
      <4>2. more \in Contents /\ Len(more) = k /\ old.phase = "read"
        BY <2>1, <3>2
      <4> HIDE DEF old, more
      <4>3. /\ new \in [phase : {"read", "restat"}, pass : {1, 2}, kept : Contents,
                     length : Nat, mtime : Nat, inode : DOMAIN disk, bytes : Contents]
            /\ new.length = old.length /\ new.phase = old.phase /\ new.bytes = more
        BY <4>1, <4>2
      <4> HIDE DEF new
      <4>4. /\ new \in Jobs /\ new # NoJob /\ new.length = old.length /\ new.phase = "read"
            /\ Len(new.bytes) = k
        BY <4>2, <4>3 DEF Jobs, NoJob
      <4>5. new = j
        BY DEF new, more
      <4>6. QED  BY <4>4, <4>5
    <3>4. QED  BY <1>3, <2>1, <2>3, <2>4, <3>1, <3>3
  <2>5. CASE /\ job' = [job EXCEPT ![w].phase = "restat"]
             /\ Step(w)
    <3> DEFINE j == [old EXCEPT !.phase = "restat"]
    <3>1. job' = [job EXCEPT ![w] = j]
      BY <2>5 DEF TypeOK
    <3>2. j \in Jobs /\ j # NoJob /\ j.length = old.length /\ j.bytes = old.bytes
      <4>1. old \in [phase : {"read", "restat"}, pass : {1, 2}, kept : Contents,
                     length : Nat, mtime : Nat, inode : DOMAIN disk, bytes : Contents]
        BY <2>1 DEF Jobs, NoJob, TypeOK
      <4> HIDE DEF old
      <4>2. /\ j \in [phase : {"read", "restat"}, pass : {1, 2}, kept : Contents,
                     length : Nat, mtime : Nat, inode : DOMAIN disk, bytes : Contents]
            /\ j.length = old.length /\ j.bytes = old.bytes /\ j.phase = "restat"
        BY <4>1
      <4>3. QED  BY <4>2 DEF Jobs, NoJob
    <3>3. Len(j.bytes) <= j.length
      BY <2>1, <3>2 DEF BoundedReading
    <3>4. QED  BY <1>3, <2>1, <2>3, <2>5, <3>1, <3>2, <3>3
  <2>6. QED  BY <1>7, <2>2, <2>4, <2>5 DEF Read
<1>8. CASE Restat(w)
  <2>1. job[w].phase = "restat"
    BY <1>8 DEF Restat
  <2>2. CASE Unreadable(w)
    BY <1>2, <2>1, <2>2
  <2>3. CASE job' = [job EXCEPT ![w] = [phase |-> "decode", kept |-> old.bytes]] /\ Step(w)
    <3>1. [phase |-> "decode", kept |-> old.bytes] \in Jobs
      BY <2>1, JobKinds DEF Jobs
    <3>2. QED  BY <1>3, <2>1, <2>3, <3>1 DEF NoJob
  <2>4. CASE job' = [job EXCEPT ![w] = [phase |-> "report", kept |-> old.kept]] /\ Step(w)
    <3>1. [phase |-> "report", kept |-> old.kept] \in Jobs
      BY <2>1, JobKinds DEF Jobs
    <3>2. QED  BY <1>3, <2>1, <2>4, <3>1 DEF NoJob
  <2>5. QED  BY <1>8, <2>2, <2>3, <2>4 DEF Restat
<1>9. CASE Decode(w)
  <2>1. job[w].phase = "decode"
    BY <1>9 DEF Decode
  <2>2. CASE Return(w, "rejected")
    BY <1>1, <2>1, <2>2
  <2>3. CASE job' = [job EXCEPT ![w] = [phase |-> "stat", pass |-> 2, kept |-> old.kept]]
             /\ Step(w)
    <3>1. [phase |-> "stat", pass |-> 2, kept |-> old.kept] \in Jobs
      BY <2>1, JobKinds DEF Jobs
    <3>2. QED  BY <1>3, <2>1, <2>3, <3>1 DEF NoJob
  <2>4. QED  BY <1>9, <2>2, <2>3 DEF Decode
<1>10. CASE Report(w)
  BY <1>1, <1>10 DEF Report
<1>11. CASE Panic(w)
  <2>1. job' = [job EXCEPT ![w] = NoJob] /\ worker' = [worker EXCEPT ![w] = "panicked"]
    BY <1>11, Indices DEF Panic, Pool!RunOne
  <2>2. UNCHANGED <<main, path, disk, writes, reports, cmd, Jobs>>
    BY <1>11 DEF Panic, Pool!RunOne, fileVars, cmdVars, Jobs
  <2>3. job' \in [Workers -> Jobs]
    BY <2>1 DEF TypeOK, Jobs
  <2>4. \A v \in Workers : job'[v] # NoJob <=> worker'[v] = "working"
    BY <2>1, Indices DEF TypeOK
  <2>5. QED  BY <2>1, <2>2, <2>3, <2>4 DEF TypeOK, BoundedReading, NoJob
<1>12. CASE Send(w)
  <2>1. worker[w] = "sending" /\ worker' = [worker EXCEPT ![w] = "idle"]
    BY <1>12 DEF Send, Pool!Send
  <2>2. UNCHANGED <<job, main, path, disk, writes, reports, cmd, Jobs>>
    BY <1>12 DEF Send, Pool!Send, fileVars, cmdVars, Jobs
  <2>3. QED  BY <2>1, <2>2, Indices DEF TypeOK, BoundedReading
<1>13. QED
  BY <1>4, <1>5, <1>6, <1>7, <1>8, <1>9, <1>10, <1>11, <1>12 DEF Worker

--------------------------------------------------------------------------------
(* All or nothing *)

Complete == [k \in 1..InputCount |-> Row(k - 1)]
AllReported == \A i \in Inputs : ran[i] = "report"

\* What is to be written and what was published is complete, and the pool has
\* returned: no worker is left to make a report.
CommandInv ==
    /\ cmd \in {"writing", "publishing"} => AllReported /\ rows = Complete
    /\ (output # NoOutput /\ output.owner = "us") =>
          main = "returned" /\ AllReported /\ output.rows = Complete

\* Workers are born in order.
Unborn == \A v \in Workers : v > spawned => worker[v] = "unborn"

IInv == Proved!IInv /\ TypeOK /\ Unborn /\ BoundedReading /\ CommandInv

\* Spawning starts the next worker in order, and only spawned ones act.
LEMMA NextUnborn ==
    ASSUME Proved!IInv, Unborn, [Next]_vars
    PROVE  Unborn'
<1> USE BatchTrialBalanceAssumption DEF Unborn
<1>1. spawned \in Nat /\ Workers \subseteq Nat
  BY DEF Proved!IInv, Proved!TypeOK, Workers, Pool!Workers
<1>2. CASE Pool!MainStep
  <2>1. CASE Pool!Spawn
    BY <1>1, <2>1, Indices DEF Pool!Spawn
  <2>2. CASE ~Pool!Spawn
    BY <1>2, <2>2 DEF Pool!MainStep, Pool!Validate, Pool!Receive, Pool!Disconnected, Pool!Place
  <2>3. QED  BY <2>1, <2>2
<1>3. ASSUME NEW w \in Workers, Pool!WorkerStep(w)
      PROVE  Unborn'
  <2>1. spawned' = spawned /\ worker[w] # "unborn" /\
        \A v \in Workers \ {w} : worker'[v] = worker[v]
    BY <1>3, Indices DEF Pool!WorkerStep, Pool!Take, Pool!RunOne, Pool!Send
  <2>2. QED  BY <1>1, <2>1
<1>4. CASE UNCHANGED Pool!vars
  BY <1>4 DEF Pool!vars
<1>5. QED
  BY <1>2, <1>3, <1>4, StepRefines DEF Pool!Next, Pool!Terminated, Workers

\* The calling thread's steps, those of the pool included, keep the types.
LEMMA CommandType ==
    ASSUME Proved!IInv, TypeOK, Unborn, BoundedReading, Command
    PROVE  TypeOK' /\ BoundedReading'
<1>1. CASE Start
  BY <1>1 DEF Start, TypeOK, BoundedReading, Jobs, poolVars, fileVars
<1>2. CASE Schedule
  <2>1. UNCHANGED <<job, path, disk, writes, reports, Jobs>> /\ cmd = "scheduling"
    BY <1>2 DEF Schedule, fileVars, Jobs
  <2>2. \A v \in Workers : worker'[v] = "working" <=> worker[v] = "working"
    <3>1. CASE Pool!Spawn
      <4>1. worker' = worker \/ \E v \in Workers :
                worker[v] = "unborn" /\ worker' = [worker EXCEPT ![v] = "idle"]
        <5>1. CASE spawned < Pool!Bound
          <6>1. spawned + 1 \in Workers /\ spawned + 1 > spawned
            BY <5>1, BatchTrialBalanceAssumption
            DEF Workers, Pool!Workers, Pool!Bound, Proved!IInv, Proved!TypeOK, Proved!Bound
          <6>2. QED  BY <3>1, <5>1, <6>1 DEF Pool!Spawn, Unborn
        <5>2. QED  BY <3>1, <5>1 DEF Pool!Spawn
      <4>2. QED  BY <4>1, Indices
    <3>2. CASE ~Pool!Spawn
      BY <1>2, <3>2 DEF Schedule, Pool!MainStep, Pool!Validate, Pool!Receive,
         Pool!Disconnected, Pool!Place
    <3>3. QED  BY <3>1, <3>2
  <2>3. /\ cmd' \in {"scheduling", "collecting", "failed", "panicked"}
        /\ cmd' = "collecting" => main' = "returned"
    <3>1. \/ main' = "returned" /\ cmd' = "collecting"
          \/ main' = "rejected" /\ cmd' = "failed"
          \/ main' = "panicked" /\ cmd' = "panicked"
          \/ cmd' = cmd
      BY <1>2 DEF Schedule
    <3>2. QED  BY <2>1, <3>1
  <2>4. QED  BY <2>1, <2>2, <2>3 DEF TypeOK, BoundedReading
<1>3. CASE Collect
  BY <1>3 DEF Collect, TypeOK, BoundedReading, Jobs, poolVars, fileVars
<1>4. CASE Write
  BY <1>4 DEF Write, TypeOK, BoundedReading, Jobs, poolVars, fileVars
<1>5. CASE Publish
  BY <1>5 DEF Publish, TypeOK, BoundedReading, Jobs, poolVars, fileVars
<1>6. QED  BY <1>1, <1>2, <1>3, <1>4, <1>5 DEF Command

\* Every step keeps the types and the bound of readings.
LEMMA NextType ==
    ASSUME Proved!IInv, TypeOK, Unborn, BoundedReading, [Next]_vars
    PROVE  TypeOK' /\ BoundedReading'
<1>1. ASSUME Others
      PROVE  BoundedReading'
  <2>1. job' = job
    BY <1>1 DEF Others, WriteInPlace, Replace, Remove, Written, TakeOutputName
  <2>2. QED  BY <2>1 DEF BoundedReading
<1>2. CASE Terminated \/ UNCHANGED vars
  BY <1>2 DEF Terminated, vars, TypeOK, BoundedReading, Jobs, poolVars, fileVars, cmdVars
<1>3. QED  BY <1>1, <1>2, CommandType, WorkerType, OthersType DEF Next

\* Rows stay what they are as long as no report is made any more.
LEMMA ReportsStay ==
    ASSUME Proved!IInv, TypeOK, main = "returned", [Next]_vars
    PROVE  UNCHANGED <<main, ran, reports, results>>
<1>1. \A w \in Workers : worker[w] \in {"done", "panicked"} /\ job[w].phase = "none"
  <2>1. \A w \in Workers : worker[w] \in {"done", "panicked"}
    BY Indices DEF Proved!IInv, Proved!QuietAtEnd
  <2>2. QED  BY <2>1 DEF TypeOK, NoJob
<1>2. CASE Command
  <2>1. ~Pool!MainStep
    BY DEF Pool!MainStep, Pool!Validate, Pool!Spawn, Pool!Receive, Pool!Disconnected, Pool!Place
  <2>2. QED  BY <1>2, <2>1 DEF Command, Start, Schedule, Collect, Write, Publish, poolVars
<1>3. ASSUME NEW w \in Workers, Worker(w)
      PROVE  FALSE
  <2>1. ~Pool!RunOne(w) /\ ~Pool!Take(w) /\ ~Pool!Send(w)
    BY <1>1 DEF Pool!RunOne, Pool!Take, Pool!Send
  <2>2. job[w].phase # "none"
    BY <1>3, <2>1 DEF Worker, Take, Send, Stat, Open, Read, Restat, Decode, Report, Panic
  <2>3. QED  BY <1>1, <2>2
<1>4. CASE Others
  <2>1. UNCHANGED <<poolVars, reports>>
    BY <1>4 DEF Others, WriteInPlace, Replace, Remove, Written, TakeOutputName
  <2>2. QED  BY <2>1 DEF poolVars
<1>5. CASE Terminated \/ UNCHANGED vars
  BY <1>5 DEF Terminated, vars, poolVars
<1>6. QED  BY <1>2, <1>3, <1>4, <1>5 DEF Next

\* Every step keeps complete what is to be written and what was published.
LEMMA NextCommand == IInv /\ [Next]_vars => CommandInv'
<1> SUFFICES ASSUME IInv, [Next]_vars
             PROVE  CommandInv'
  OBVIOUS
<1>1. main = "returned" =>
        /\ main' = main
        /\ AllReported => AllReported'
        /\ Complete' = Complete
  BY ReportsStay DEF IInv, AllReported, Complete, Row
<1>2. CASE Collect
  <2>1. main = "returned"
    BY <1>2 DEF Collect, IInv, TypeOK
  <2>2. \A i \in Inputs : ran[i] = results[i]
    BY <2>1, Indices DEF IInv, Proved!IInv, Proved!OrderedResults
  <2>3. cmd' = "writing" => AllReported' /\ rows' = Complete'
    BY <1>1, <1>2, <2>1, <2>2 DEF Collect, AllReported, Complete
  <2>4. QED  BY <1>1, <1>2, <2>1, <2>3 DEF Collect, CommandInv, IInv
<1>3. CASE Write
  BY <1>1, <1>3 DEF Write, CommandInv, IInv, TypeOK
<1>4. CASE Publish
  BY <1>1, <1>4 DEF Publish, CommandInv, IInv, TypeOK, NoOutput
<1>5. CASE Start
  BY <1>1, <1>5 DEF Start, CommandInv, IInv, NoOutput
<1>6. CASE Schedule
  <2>1. cmd' \notin {"writing", "publishing"} /\ UNCHANGED output
    <3>1. cmd' \in {"collecting", "failed", "panicked", cmd} /\ cmd = "scheduling"
      <4>1. \/ main' = "returned" /\ cmd' = "collecting"
            \/ main' = "rejected" /\ cmd' = "failed"
            \/ main' = "panicked" /\ cmd' = "panicked"
            \/ cmd' = cmd
        BY <1>6 DEF Schedule
      <4>2. QED  BY <1>6, <4>1 DEF Schedule
    <3>2. QED  BY <1>6, <3>1 DEF Schedule
  <2>2. QED  BY <1>1, <2>1 DEF CommandInv, IInv, NoOutput
<1>7. ASSUME UNCHANGED <<cmd, rows>>, UNCHANGED output \/ output'.owner = "other"
      PROVE  CommandInv'
  BY <1>1, <1>7 DEF CommandInv, IInv, TypeOK, NoOutput
<1>8. ASSUME NEW w \in Workers, Worker(w)
      PROVE  UNCHANGED cmdVars
  BY <1>8 DEF Worker, Take, Send, Stat, Open, Read, Restat, Decode, Report, Panic,
     Unreadable, Return, Step
<1>9. CASE Others
  <2>1. UNCHANGED <<cmd, rows>> /\ (UNCHANGED output \/ output' = [owner |-> "other"])
    BY <1>9 DEF Others, WriteInPlace, Replace, Remove, Written, TakeOutputName, cmdVars
  <2>2. QED  BY <1>7, <2>1
<1>10. CASE Terminated \/ UNCHANGED vars
  BY <1>7, <1>10 DEF Terminated, vars, cmdVars
<1>11. QED
  BY <1>2, <1>3, <1>4, <1>5, <1>6, <1>7, <1>8, <1>9, <1>10 DEF Next, Command, cmdVars

\* The command starts without jobs, rows or an output of its own.
LEMMA InitIInv == Init => TypeOK /\ Unborn /\ BoundedReading /\ CommandInv
<1> USE BatchTrialBalanceAssumption
<1> SUFFICES ASSUME Init
             PROVE  TypeOK /\ Unborn /\ BoundedReading /\ CommandInv
  OBVIOUS
<1>1. <<0, 0>> \in Contents /\ <<>> \in Contents
  <2>1. 0 \in Chunks
    BY DEF Chunks
  <2>2. QED  BY <2>1 DEF Contents
<1>2. Inputs = 0..(InputCount - 1)
  BY DEF Inputs, Pool!Inputs
<1>3. \A w \in Workers : worker[w] = "unborn"
  BY DEF Init, Pool!Init, Workers
<1>4. TypeOK
  BY <1>1, <1>2, <1>3 DEF Init, TypeOK, Jobs, NoJob
<1>5. Unborn /\ BoundedReading /\ CommandInv
  BY <1>3 DEF Init, Unborn, BoundedReading, CommandInv, NoJob, NoOutput
<1>6. QED  BY <1>4, <1>5

\* The inductive invariant holds in every state of every run of the command.
THEOREM Invariance == Spec => []IInv
<1>1. Init => TypeOK /\ Unborn /\ BoundedReading /\ CommandInv
  BY InitIInv
<1>2. Proved!IInv /\ TypeOK /\ Unborn /\ BoundedReading /\ CommandInv /\ [Next]_vars
          => (TypeOK /\ Unborn /\ BoundedReading /\ CommandInv)'
  BY NextType, NextUnborn, NextCommand DEF IInv
<1>3. IInv <=> Proved!IInv /\ TypeOK /\ Unborn /\ BoundedReading /\ CommandInv
  BY DEF IInv
<1>4. QED  BY <1>1, <1>2, <1>3, PoolInvariant, PTL DEF Spec

\* The types of jobs and files, for any number of inputs, workers and writes.
THEOREM TypeCorrect == Spec => []TypeOK
<1>1. IInv => TypeOK
  BY DEF IInv
<1>2. QED  BY <1>1, Invariance, PTL

\* A reading is bounded by the length found before it and by the limit, however
\* the file grows in the meantime.
THEOREM ReadingBounded == Spec => []BoundedReading
<1>1. IInv => BoundedReading
  BY DEF IInv
<1>2. QED  BY <1>1, Invariance, PTL

\* All or nothing: what the run publishes has a report for every manifest row,
\* in manifest order, for any number of rows and workers.
THEOREM PublishedIsComplete == Spec => []AllOrNothing
<1>1. IInv => AllOrNothing
  <2> SUFFICES ASSUME IInv, output # NoOutput, output.owner = "us"
               PROVE  /\ Len(output.rows) = InputCount
                      /\ \A i \in Inputs : ran[i] = "report" /\ output.rows[i + 1] = Row(i)
    BY DEF AllOrNothing
  <2>1. output.rows = Complete /\ AllReported
    BY DEF IInv, CommandInv
  <2>2. InputCount \in Nat /\ Inputs = 0..(InputCount - 1)
    BY BatchTrialBalanceAssumption, Indices DEF IInv
  <2>3. Len(output.rows) = InputCount
    BY <2>1, <2>2 DEF Complete
  <2>4. ASSUME NEW i \in Inputs
        PROVE  output.rows[i + 1] = Row(i)
    <3>1. i + 1 \in 1..InputCount /\ (i + 1) - 1 = i
      BY <2>2
    <3>2. QED  BY <2>1, <3>1 DEF Complete
  <2>5. QED  BY <2>1, <2>3, <2>4 DEF AllReported
<1>2. QED  BY <1>1, Invariance, PTL

--------------------------------------------------------------------------------
(* Neither torn nor stale, for any number of inputs, workers, chunks and writes.   *)
(* Where every write is dated, an unchanged modification time says that the bytes  *)
(* read so far are those of the path.  Where times may lie, a chunk that was       *)
(* overwritten or cut off never has its old value again, so that a second reading  *)
(* which finds every chunk of the first has found a content that stood from the    *)
(* end of the first reading on.                                                    *)

Content(i) == disk[path[i]].content

\* Paths lead to different inodes, none of which is one a later file will get,
\* and to contents that are part of the history; times and, in a world in which
\* they grow, chunks are no later than the last write.
FilesInv ==
    /\ world \in {"coarse", "recurring"}
    /\ history \in [Inputs -> SUBSET Contents] /\ disturbed \in [Inputs -> BOOLEAN]
    /\ \A i \in Inputs : path[i] # Gone =>
          /\ path[i] = i \/ path[i] \in InputCount..(InputCount + writes - 1)
          /\ \A k \in Inputs \ {i} : path[k] # path[i]
          /\ Content(i) \in history[i]
    /\ \A n \in DOMAIN disk :
          /\ disk[n].mtime <= writes
          /\ Coarse => \A k \in DOMAIN disk[n].content : disk[n].content[k] <= writes

\* An input is reported once, and disturbed only by a write while it is decoded.
HandsInv ==
    /\ \A i \in Inputs : i >= next => ran[i] = NotRun /\ ~disturbed[i]
    /\ \A w \in Workers : job[w].phase # "none" => ran[holding[w]] = NotRun

Below(b) == \A k \in DOMAIN b : b[k] <= writes
Holds(c, b, k) == k \in DOMAIN c /\ c[k] = b[k]
Good(i, b, k) == path[i] # Gone /\ Holds(Content(i), b, k)
Safe(i, b) == b \in history[i] /\ ~disturbed[i]
Reading == {"read", "restat"}
Second(j) == j.phase \in {"stat", "open", "read", "restat"} /\ j.pass = 2

\* The inode that job j on input i has open is of no other input, ever; a
\* reading ends at the length it was held to.
InodeKept(i, j) ==
    j.phase \in Reading =>
        /\ j.inode = i \/ j.inode \in InputCount..(InputCount + writes - 1)
        /\ \A k \in Inputs \ {i} : path[k] # j.inode
        /\ j.phase = "restat" => Len(j.bytes) = j.length

\* Every write is dated: as long as the path has the time the reading is held
\* to, it leads to the inode read, and that begins with the bytes read.
DatedReading(i, j) ==
    j.phase \in {"open"} \cup Reading =>
        /\ j.mtime <= writes
        /\ path[i] # Gone => disk[path[i]].mtime >= j.mtime
        /\ (path[i] # Gone /\ disk[path[i]].mtime = j.mtime) =>
              /\ Len(Content(i)) = j.length
              /\ j.phase \in Reading =>
                    j.inode = path[i] /\ \A k \in DOMAIN j.bytes : Holds(Content(i), j.bytes, k)

DatedJob(i, j) ==
    /\ DatedReading(i, j)
    /\ (Second(j) \/ j.phase \in {"decode", "report"}) => j.kept \in history[i]

\* No content comes back: between the readings, either the path has the bytes
\* kept and nobody disturbed them, or it never will have them all again.
GrowingBetween(i, j) ==
    (j.phase = "decode" \/ (j.phase = "stat" /\ j.pass = 2)) =>
        /\ (\A k \in DOMAIN j.kept : Good(i, j.kept, k)) => j.kept \in history[i]
        /\ (path[i] # Gone /\ Content(i) = j.kept) => ~disturbed[i]

\* The second reading finds them for good, or misses some chunk.
GrowingOpen(i, j) ==
    (j.phase = "open" /\ j.pass = 2) =>
        \/ Safe(i, j.kept)
        \/ j.length # Len(j.kept)
        \/ \E k \in DOMAIN j.kept : ~Good(i, j.kept, k)

GrowingReading(i, j) ==
    (j.phase \in Reading /\ j.pass = 2) =>
        \/ Safe(i, j.kept)
        \/ j.length # Len(j.kept)
        \/ \E k \in DOMAIN j.kept :
              \/ k \in DOMAIN j.bytes /\ j.bytes[k] # j.kept[k]
              \/ k \notin DOMAIN j.bytes /\ ~Holds(disk[j.inode].content, j.kept, k)

GrowingJob(i, j) ==
    /\ Below(j.kept)
    /\ j.phase \in Reading => Below(j.bytes)
    /\ (j.phase \in {"stat", "open", "read", "restat"} /\ j.pass = 1) => ~disturbed[i]
    /\ GrowingBetween(i, j) /\ GrowingOpen(i, j) /\ GrowingReading(i, j)
    /\ j.phase = "report" => Safe(i, j.kept)

JobInv(i, j) == InodeKept(i, j) /\ (Recurring => DatedJob(i, j)) /\ (Coarse => GrowingJob(i, j))

JobsInv ==
    \A w \in Workers : \A i \in {holding[w]}, j \in {job[w]} :
        j.phase # "none" => JobInv(i, j)

SnapshotInv == FilesInv /\ HandsInv /\ JobsInv /\ ReportIsInstant

--------------------------------------------------------------------------------
\* What the pool's invariant says of inputs, hands and outcomes.
LEMMA Hands ==
    ASSUME Proved!IInv
    PROVE  /\ ran \in [Inputs -> Outcomes \cup {NotRun}] /\ next \in Nat
           /\ holding \in [Workers -> Inputs \cup {InputCount}]
           /\ \A w \in Workers : worker[w] = "working" => holding[w] < next
           /\ \A v, w \in Workers : v # w /\ worker[v] = "working" /\ worker[w] = "working"
                                       => holding[v] # holding[w]
<1> USE Indices DEF Proved!IInv
<1>1. ran \in [Inputs -> Outcomes \cup {NotRun}] /\ next \in Nat
      /\ holding \in [Workers -> Inputs \cup {InputCount}]
  BY BatchTrialBalanceAssumption DEF Proved!TypeOK
<1>2. \A w \in Workers : worker[w] = "working" => holding[w] < next
  BY DEF Proved!HeldInputs, Proved!Busy
<1>3. \A v, w \in Workers : v # w /\ worker[v] = "working" /\ worker[w] = "working"
                                       => holding[v] # holding[w]
  BY DEF Proved!NoDoubleWork, Proved!Busy
<1> QED  BY <1>1, <1>2, <1>3

\* Nothing was read, written or run.
LEMMA InitSnapshot == Init => SnapshotInv
<1> USE BatchTrialBalanceAssumption
<1> SUFFICES ASSUME Init PROVE SnapshotInv
  OBVIOUS
<1>1. <<0, 0>> \in Contents
  BY DEF Contents, Chunks
<1>2. Inputs = 0..(InputCount - 1) /\ writes = 0
  BY DEF Inputs, Pool!Inputs, Init
<1>3. FilesInv
  <2>1. Inputs \subseteq DOMAIN disk
    BY <1>2 DEF Init
  <2>2. \A n \in DOMAIN disk : disk[n] = [content |-> <<0, 0>>, mtime |-> 0]
    BY DEF Init
  <2>3. \A i \in Inputs : path[i] = i /\ history[i] = {<<0, 0>>} /\ disturbed[i] = FALSE
    BY DEF Init
  <2>4. history \in [Inputs -> SUBSET Contents] /\ disturbed \in [Inputs -> BOOLEAN]
    BY <1>1 DEF Init
  <2>5. world \in {"coarse", "recurring"}
    BY DEF Init
  <2> QED  BY <1>2, <2>1, <2>2, <2>3, <2>4, <2>5 DEF FilesInv, Content
<1>4. /\ \A w \in Workers : job[w].phase = "none"
      /\ \A i \in Inputs : ran[i] = NotRun /\ ~disturbed[i]
  BY DEF Init, Pool!Init, NoJob, Inputs
<1>5. NotRun # "report"
  BY DEF NotRun
<1> QED  BY <1>3, <1>4, <1>5 DEF SnapshotInv, HandsInv, JobsInv, ReportIsInstant

--------------------------------------------------------------------------------
(* Writes of other programs *)

\* Where the input i is written, and what: on its inode or a fresh one, and in
\* a world where contents grow, chunk by chunk what is there or a new value.
Fits(i, n, content) ==
    /\ n = path[i] \/ (n = InputCount + writes /\ content # <<>>)
    /\ Coarse => \A k \in DOMAIN content :
          \/ content[k] = writes + 1
          \/ n = path[i] /\ Holds(Content(i), content, k)

\* What a write changes, place by place.
Wrote(i, n, content) ==
    /\ writes' = writes + 1 /\ writes \in Nat
    /\ UNCHANGED <<job, holding, ran, next, world, reports, DOMAIN disk>>
    /\ disk'[n].content = content
    /\ \A m \in DOMAIN disk \ {n} : disk'[m] = disk[m]
    /\ path'[i] = n /\ \A m \in Inputs \ {i} : path'[m] = path[m]
    /\ history'[i] = history[i] \cup {content}
    /\ \A m \in Inputs \ {i} : history'[m] = history[m] /\ disturbed'[m] = disturbed[m]
    /\ disturbed'[i] => disturbed[i] \/ \E w \in Workers : holding[w] = i /\ job[w].phase = "decode"
    /\ history' \in [Inputs -> SUBSET Contents] /\ disturbed' \in [Inputs -> BOOLEAN]
    /\ disk'[n].mtime <= writes + 1
    /\ Recurring => disk'[n].mtime = writes + 1
    /\ Coarse => content \notin history[i]

LEMMA WrittenFacts ==
    ASSUME TypeOK, FilesInv, NEW i \in Inputs, NEW n \in DOMAIN disk, NEW content \in Contents,
           Written(i, n, content)
    PROVE  Wrote(i, n, content)
<1>1. /\ writes' = writes + 1 /\ writes \in Nat
      /\ UNCHANGED <<job, holding, ran, next, world, reports>>
  BY DEF Written, poolVars, cmdVars, TypeOK
<1>2. PICK t \in {writes + 1} \cup (IF Coarse THEN {disk[n].mtime} ELSE {}) :
          disk' = [disk EXCEPT ![n] = [content |-> content, mtime |-> t]]
  BY DEF Written
<1>3. /\ DOMAIN disk' = DOMAIN disk /\ disk'[n] = [content |-> content, mtime |-> t]
      /\ \A m \in DOMAIN disk \ {n} : disk'[m] = disk[m]
  BY <1>2
<1>4. t <= writes + 1 /\ (Recurring => t = writes + 1)
  BY <1>1, <1>2 DEF FilesInv, TypeOK, Recurring, Coarse
<1>5. path'[i] = n /\ \A m \in Inputs \ {i} : path'[m] = path[m]
  BY DEF Written, TypeOK
<1>6. /\ history'[i] = history[i] \cup {content}
      /\ \A m \in Inputs \ {i} : history'[m] = history[m]
      /\ history' \in [Inputs -> SUBSET Contents]
  BY DEF Written, FilesInv
<1>7. /\ \A m \in Inputs \ {i} : disturbed'[m] = disturbed[m]
      /\ disturbed'[i] = (disturbed[i] \/ \E w \in Workers : holding[w] = i /\ job[w].phase = "decode")
      /\ disturbed' \in [Inputs -> BOOLEAN]
  <2> DEFINE held == \E w \in Workers : holding[w] = i /\ job[w].phase = "decode"
  <2>1. disturbed' = [disturbed EXCEPT ![i] = disturbed[i] \/ held]
    BY DEF Written, FilesInv
  <2> HIDE DEF held
  <2>2. disturbed \in [Inputs -> BOOLEAN]
    BY DEF FilesInv
  <2> QED  BY <2>1, <2>2 DEF held
<1>8. Coarse => content \notin history[i]
  <2>1. ~(Coarse /\ Recurring)
    BY DEF Coarse, Recurring
  <2> QED  BY <2>1 DEF Written
<1> QED  BY <1>1, <1>3, <1>4, <1>5, <1>6, <1>7, <1>8 DEF Wrote

\* The writes of other programs are of this kind.
LEMMA WritesFit ==
    ASSUME TypeOK, FilesInv, NEW i \in Inputs, WriteInPlace(i) \/ Replace(i)
    PROVE  \E n \in DOMAIN disk, content \in Contents : Written(i, n, content) /\ Fits(i, n, content)
<1> USE BatchTrialBalanceAssumption
<1>1. CASE WriteInPlace(i)
  <2> DEFINE old == disk[path[i]].content
  <2>1. path[i] \in DOMAIN disk /\ old \in Contents /\ old = Content(i)
    BY <1>1 DEF WriteInPlace, TypeOK, Content
  <2>2. ASSUME NEW c \in Contents, Written(i, path[i], c),
               Coarse => \A k \in DOMAIN c : c[k] = writes + 1 \/ Holds(old, c, k)
        PROVE  \E n \in DOMAIN disk, content \in Contents : Written(i, n, content) /\ Fits(i, n, content)
    BY <2>1, <2>2 DEF Fits
  <2>3. writes < MaxWrites => NewChunks \subseteq Chunks
    BY DEF NewChunks, Chunks, TypeOK
  <2>4. Coarse => NewChunks = {writes + 1}
    BY DEF NewChunks, Coarse, Recurring
  <2>5. ASSUME NEW k \in DOMAIN old, NEW c \in NewChunks, Written(i, path[i], [old EXCEPT ![k] = c])
        PROVE  \E n \in DOMAIN disk, content \in Contents : Written(i, n, content) /\ Fits(i, n, content)
    <3> DEFINE new == [old EXCEPT ![k] = c]
    <3>1. c \in Chunks
      BY <2>3, <2>5 DEF Written
    <3>2. new \in Contents
      BY <2>1, <3>1 DEF Contents
    <3>3. Coarse => \A m \in DOMAIN new : new[m] = writes + 1 \/ Holds(old, new, m)
      BY <2>4, <2>5 DEF Holds
    <3> HIDE DEF new
    <3> QED  BY <2>2, <2>5, <3>2, <3>3 DEF new
  <2>6. ASSUME NEW c \in NewChunks, Written(i, path[i], [k \in DOMAIN old |-> c])
        PROVE  \E n \in DOMAIN disk, content \in Contents : Written(i, n, content) /\ Fits(i, n, content)
    <3> DEFINE new == [k \in DOMAIN old |-> c]
    <3>1. c \in Chunks
      BY <2>3, <2>6 DEF Written
    <3>2. new \in Contents
      BY <2>1, <3>1 DEF Contents
    <3>3. Coarse => \A m \in DOMAIN new : new[m] = writes + 1 \/ Holds(old, new, m)
      BY <2>4, <2>6
    <3> HIDE DEF new
    <3> QED  BY <2>2, <2>6, <3>2, <3>3 DEF new
  <2>7. ASSUME NEW c \in NewChunks, Written(i, path[i], Append(old, c))
        PROVE  \E n \in DOMAIN disk, content \in Contents : Written(i, n, content) /\ Fits(i, n, content)
    <3> DEFINE new == Append(old, c)
    <3>1. c \in Chunks
      BY <2>3, <2>7 DEF Written
    <3>2. new \in Contents
      BY <2>1, <3>1 DEF Contents
    <3>3. Coarse => \A m \in DOMAIN new : new[m] = writes + 1 \/ Holds(old, new, m)
      BY <2>1, <2>4, <2>7 DEF Holds, Contents
    <3> HIDE DEF new
    <3> QED  BY <2>2, <2>7, <3>2, <3>3 DEF new
  <2>8. ASSUME old # <<>>, Written(i, path[i], SubSeq(old, 1, Len(old) - 1))
        PROVE  \E n \in DOMAIN disk, content \in Contents : Written(i, n, content) /\ Fits(i, n, content)
    <3> DEFINE new == SubSeq(old, 1, Len(old) - 1)
    <3>1. new \in Contents
      BY <2>1 DEF Contents
    <3>2. \A m \in DOMAIN new : Holds(old, new, m)
      BY <2>1 DEF Holds, Contents
    <3> HIDE DEF new
    <3> QED  BY <2>2, <2>8, <3>1, <3>2 DEF new
  <2> QED  BY <1>1, <2>5, <2>6, <2>7, <2>8 DEF WriteInPlace
<1>2. CASE Replace(i)
  <2>1. PICK c \in NewChunks, d \in NewChunks : Written(i, InputCount + writes, <<c, d>>)
    BY <1>2 DEF Replace
  <2>2. writes < MaxWrites /\ InputCount + writes \in DOMAIN disk
    BY <2>1 DEF Written, TypeOK
  <2>3. <<c, d>> \in Contents
    BY <2>2 DEF Contents, Chunks, NewChunks, TypeOK
  <2>4. Coarse => c = writes + 1 /\ d = writes + 1
    BY DEF NewChunks, Coarse, Recurring
  <2>5. Fits(i, InputCount + writes, <<c, d>>)
    BY <2>4 DEF Fits
  <2> QED  BY <2>1, <2>2, <2>3, <2>5
<1> QED  BY <1>1, <1>2

\* No other path leads to where an input may be written.
LEMMA Places ==
    ASSUME TypeOK, FilesInv, Inputs = 0..(InputCount - 1), NEW i \in Inputs, NEW m \in Inputs \ {i}
    PROVE  /\ path[i] # Gone => path[m] # path[i]
           /\ path[m] # InputCount + writes
           /\ InputCount + writes # Gone
<1>1. writes \in Nat /\ InputCount \in Nat /\ Gone \notin Nat /\ InputCount + writes \in Nat
  BY BatchTrialBalanceAssumption DEF TypeOK
<1>2. path[m] = Gone \/ path[m] = m \/ path[m] \in InputCount..(InputCount + writes - 1)
  BY DEF FilesInv
<1>3. path[i] # Gone => path[m] # path[i]
  BY DEF FilesInv
<1> QED  BY <1>1, <1>2, <1>3

\* A write keeps the order of the files.
LEMMA WrittenFiles ==
    ASSUME TypeOK, FilesInv, Inputs = 0..(InputCount - 1),
           NEW i \in Inputs, NEW n \in DOMAIN disk, NEW content \in Contents,
           Wrote(i, n, content), Fits(i, n, content)
    PROVE  FilesInv'
<1> USE BatchTrialBalanceAssumption DEF Wrote
<1>1. world' \in {"coarse", "recurring"} /\ (Coarse' <=> Coarse)
  BY DEF FilesInv, Coarse
<1>2. \A m \in Inputs \ {i} : path[m] # n
  <2>1. n = path[i] \/ n = InputCount + writes
    BY DEF Fits
  <2>2. n # Gone
    BY BatchTrialBalanceAssumption DEF TypeOK
  <2> QED  BY <2>1, <2>2, Places
<1>3. n = i \/ n \in InputCount..(InputCount + writes' - 1)
  <2>1. path[i] = n \/ n = InputCount + writes
    BY DEF Fits
  <2>2. n # Gone /\ writes \in Nat /\ InputCount \in Nat
    BY DEF TypeOK
  <2>3. CASE path[i] = n
    BY <2>2, <2>3 DEF FilesInv
  <2>4. CASE n = InputCount + writes
    BY <2>2, <2>4
  <2> QED  BY <2>1, <2>3, <2>4
<1>4. ASSUME NEW m \in Inputs, path'[m] # Gone
      PROVE  /\ path'[m] = m \/ path'[m] \in InputCount..(InputCount + writes' - 1)
             /\ \A k \in Inputs \ {m} : path'[k] # path'[m]
             /\ Content(m)' \in history'[m]
  <2>1. CASE m = i
    BY <1>2, <1>3, <2>1 DEF Content
  <2>2. CASE m # i
    <3>1. path'[m] = path[m] /\ path[m] # n /\ path[m] \in DOMAIN disk
      BY <1>2, <1>4, <2>2 DEF TypeOK
    <3>2. disk'[path'[m]] = disk[path[m]]
      BY <3>1
    <3>3. Content(m)' \in history'[m]
      BY <2>2, <3>1, <3>2, <1>4 DEF FilesInv, Content
    <3>4. \A k \in Inputs \ {m} : path'[k] # path'[m]
      <4>1. ASSUME NEW k \in Inputs \ {m} PROVE path'[k] # path'[m]
        <5>1. CASE k = i  BY <3>1, <5>1
        <5>2. CASE k # i  BY <1>4, <3>1, <5>2 DEF FilesInv
        <5> QED  BY <5>1, <5>2
      <4> QED  BY <4>1
    <3>5. path[m] = m \/ path[m] \in InputCount..(InputCount + writes' - 1)
      BY <1>4, <3>1 DEF FilesInv
    <3> QED  BY <3>1, <3>3, <3>4, <3>5
  <2> QED  BY <2>1, <2>2
<1>5. ASSUME NEW m \in DOMAIN disk
      PROVE  /\ disk'[m].mtime <= writes'
             /\ Coarse => \A k \in DOMAIN disk'[m].content : disk'[m].content[k] <= writes'
  <2>1. CASE m = n
    <3>1. Coarse => \A k \in DOMAIN content : content[k] <= writes + 1
      <4>1. ASSUME Coarse, NEW k \in DOMAIN content PROVE content[k] <= writes + 1
        <5>1. content[k] \in Nat
          BY DEF Contents, Chunks
        <5>2. CASE content[k] = writes + 1
          BY <5>1, <5>2
        <5>3. CASE n = path[i] /\ Holds(Content(i), content, k)
          <6>1. k \in DOMAIN disk[n].content /\ disk[n].content[k] = content[k]
            BY <5>3 DEF Holds, Content
          <6>2. content[k] <= writes
            BY <4>1, <6>1 DEF FilesInv
          <6> QED  BY <5>1, <6>2
        <5> QED  BY <4>1, <5>2, <5>3 DEF Fits
      <4> QED  BY <4>1
    <3> QED  BY <2>1, <3>1
  <2>2. CASE m # n
    <3>1. disk'[m] = disk[m] /\ disk[m].mtime \in Nat /\ disk[m].content \in Contents
      BY <2>2 DEF TypeOK
    <3>2. \A k \in DOMAIN disk[m].content : disk[m].content[k] \in Nat
      BY <3>1 DEF Contents, Chunks
    <3> QED  BY <3>1, <3>2 DEF FilesInv
  <2> QED  BY <2>1, <2>2
<1>6. history' \in [Inputs -> SUBSET Contents] /\ disturbed' \in [Inputs -> BOOLEAN]
  OBVIOUS
<1>7. DOMAIN disk' = DOMAIN disk
  OBVIOUS
<1> QED  BY <1>1, <1>4, <1>5, <1>6, <1>7 DEF FilesInv

\* The kinds of a job on an input, as JobKinds has them of a worker.
Kinds(j) ==
    /\ j.phase \in {"stat", "open", "read", "restat", "decode", "report"}
    /\ j.kept \in Contents
    /\ j.phase \in {"stat", "open", "read", "restat"} => j.pass \in {1, 2}
    /\ j.phase \in {"open", "read", "restat"} => j.length \in Nat /\ j.mtime \in Nat
    /\ j.phase \in Reading => j.inode \in DOMAIN disk /\ j.bytes \in Contents

\* What was no later than the last write is no later than the next one.
LEMMA BelowGrows ==
    ASSUME NEW b \in Contents, Below(b), writes \in Nat, writes' = writes + 1
    PROVE  Below(b)'
<1>1. b \in Seq(Chunks) /\ Chunks \subseteq Nat
  BY DEF Contents, Chunks
<1>2. ASSUME NEW k \in DOMAIN b, b[k] <= writes
      PROVE  b[k] <= writes + 1
  <2>1. k \in 1..Len(b)
    BY <1>1
  <2>2. b[k] \in Chunks
    BY <1>1, <2>1
  <2>3. b[k] \in Nat
    BY <1>1, <2>2
  <2> QED  BY <1>2, <2>3
<1> QED  BY <1>2 DEF Below

\* A write to another input does not concern a job.
LEMMA WrittenElsewhere ==
    ASSUME TypeOK, FilesInv, NEW i \in Inputs, NEW n \in DOMAIN disk, NEW content \in Contents,
           Wrote(i, n, content), Fits(i, n, content), Inputs = 0..(InputCount - 1),
           NEW h \in Inputs, h # i, NEW j, Kinds(j), JobInv(h, j)
    PROVE  JobInv(h, j)'
<1> USE BatchTrialBalanceAssumption
<1>1. /\ path'[h] = path[h] /\ history'[h] = history[h] /\ disturbed'[h] = disturbed[h]
      /\ writes \in Nat /\ writes' = writes + 1
      /\ (Coarse' <=> Coarse) /\ (Recurring' <=> Recurring)
  BY DEF Wrote, Coarse, Recurring
<1>2. path[h] # n /\ (j.phase \in Reading => j.inode # n)
  <2>1. n = path[i] \/ n = InputCount + writes
    BY DEF Fits
  <2>2. path[h] # n
    <3>1. n # Gone
      BY DEF TypeOK
    <3> QED  BY <2>1, <3>1, Places
  <2>3. j.phase \in Reading => j.inode # n
    BY <2>1 DEF JobInv, InodeKept, TypeOK
  <2> QED  BY <2>2, <2>3
<1>3. /\ path[h] # Gone => disk'[path[h]] = disk[path[h]]
      /\ j.phase \in Reading => disk'[j.inode] = disk[j.inode]
  BY <1>2 DEF Wrote, TypeOK, Kinds
<1>4. InodeKept(h, j)'
  <2>1. j.phase \in Reading => \A k \in Inputs \ {h} : path'[k] # j.inode
    BY <1>2 DEF JobInv, InodeKept, Wrote
  <2> QED  BY <1>1, <2>1 DEF JobInv, InodeKept
<1>5. path[h] # Gone => Content(h)' = Content(h)
  BY <1>1, <1>3 DEF Content
<1>6. ASSUME Recurring PROVE DatedJob(h, j)'
  <2>1. DatedReading(h, j)'
    BY <1>1, <1>3, <1>5, <1>6 DEF JobInv, DatedJob, DatedReading, Kinds, Reading, Holds
  <2> QED  BY <1>1, <1>6, <2>1 DEF JobInv, DatedJob, Second
<1>7. ASSUME Coarse PROVE GrowingJob(h, j)'
  <2>1. \A k \in DOMAIN j.kept : Good(h, j.kept, k)' = Good(h, j.kept, k)
    BY <1>1, <1>5 DEF Good, Holds
  <2>2. GrowingBetween(h, j)'
    BY <1>1, <1>5, <1>7, <2>1 DEF JobInv, GrowingJob, GrowingBetween
  <2>3. GrowingOpen(h, j)'
    BY <1>1, <1>7, <2>1 DEF JobInv, GrowingJob, GrowingOpen, Safe
  <2>4. GrowingReading(h, j)'
    BY <1>1, <1>3, <1>7 DEF JobInv, GrowingJob, GrowingReading, Safe, Holds
  <2>5. Below(j.kept)' /\ (j.phase \in Reading => Below(j.bytes)')
    <3>1. Below(j.kept) /\ (j.phase \in Reading => Below(j.bytes))
      BY <1>7 DEF JobInv, GrowingJob
    <3> QED  BY <1>1, <3>1, BelowGrows DEF Kinds
  <2> QED  BY <1>1, <1>7, <2>2, <2>3, <2>4, <2>5 DEF JobInv, GrowingJob, Safe
<1> QED  BY <1>1, <1>4, <1>6, <1>7 DEF JobInv

\* A write to the input of a job: dated, it is later than what the job knows; in
\* a world where contents grow, no chunk kept comes back by it.
LEMMA WrittenHere ==
    ASSUME TypeOK, FilesInv, NEW i \in Inputs, NEW n \in DOMAIN disk, NEW content \in Contents,
           Wrote(i, n, content), Fits(i, n, content), Inputs = 0..(InputCount - 1),
           NEW j, Kinds(j), JobInv(i, j),
           disturbed'[i] => disturbed[i] \/ j.phase = "decode"
    PROVE  JobInv(i, j)'
<1> USE BatchTrialBalanceAssumption
<1>1. /\ path'[i] = n /\ history'[i] = history[i] \cup {content} /\ disk'[n].content = content
      /\ writes \in Nat /\ writes' = writes + 1 /\ n # Gone
      /\ (Coarse' <=> Coarse) /\ (Recurring' <=> Recurring)
  BY DEF Wrote, Coarse, Recurring, TypeOK
<1>2. InodeKept(i, j)'
  <2>1. j.phase \in Reading => \A k \in Inputs \ {i} : path'[k] # j.inode
    BY DEF JobInv, InodeKept, Wrote
  <2> QED  BY <1>1, <2>1 DEF JobInv, InodeKept
<1>3. Content(i)' = content
  BY <1>1 DEF Content
<1>4. ASSUME Recurring PROVE DatedJob(i, j)'
  <2>1. disk'[path'[i]].mtime = writes + 1
    BY <1>1, <1>4 DEF Wrote
  <2>2. DatedReading(i, j)'
    <3>1. j.phase \in {"open"} \cup Reading => j.mtime \in Nat /\ j.mtime <= writes
      BY <1>4 DEF JobInv, DatedJob, DatedReading, Kinds, Reading
    <3> QED  BY <1>1, <2>1, <3>1 DEF DatedReading
  <2> QED  BY <1>1, <1>4, <2>2 DEF JobInv, DatedJob, Second
<1>5. ASSUME Coarse PROVE GrowingJob(i, j)'
  <2>1. ASSUME NEW k \in DOMAIN j.kept, Holds(content, j.kept, k)
        PROVE  n = path[i] /\ Holds(Content(i), j.kept, k)
    <3>1. content[k] \in Nat /\ content[k] <= writes /\ k \in DOMAIN content
      BY <1>5, <2>1 DEF JobInv, GrowingJob, Below, Holds, Kinds, Contents, Chunks
    <3>2. content[k] # writes + 1
      BY <1>1, <3>1
    <3> QED  BY <1>5, <2>1, <3>1, <3>2 DEF Fits, Holds
  <2>2. ASSUME NEW k \in DOMAIN j.kept, Good(i, j.kept, k)'
        PROVE  Good(i, j.kept, k)
    BY <1>1, <1>3, <2>1, <2>2 DEF Good, Holds
  <2>3. GrowingBetween(i, j)'
    <3> SUFFICES ASSUME j.phase = "decode" \/ (j.phase = "stat" /\ j.pass = 2)
                 PROVE  /\ (\A k \in DOMAIN j.kept : Good(i, j.kept, k)') => j.kept \in history'[i]
                        /\ content # j.kept
      BY <1>1, <1>3 DEF GrowingBetween
    <3>1. (\A k \in DOMAIN j.kept : Good(i, j.kept, k)) => j.kept \in history[i]
      BY <1>5 DEF JobInv, GrowingJob, GrowingBetween
    <3>2. (\A k \in DOMAIN j.kept : Good(i, j.kept, k)') => j.kept \in history'[i]
      BY <1>1, <2>2, <3>1
    <3>3. ASSUME content = j.kept PROVE FALSE
      <4>1. \A k \in DOMAIN j.kept : n = path[i] /\ Holds(Content(i), j.kept, k)
        BY <2>1, <3>3 DEF Holds
      <4>2. j.kept \in history[i]
        BY <1>1, <3>1, <4>1 DEF Good
      <4> QED  BY <1>5, <3>3, <4>2 DEF Wrote
    <3> QED  BY <3>2, <3>3
  <2>4. GrowingOpen(i, j)'
    BY <1>1, <1>5, <2>2 DEF JobInv, GrowingJob, GrowingOpen, Safe
  <2>5. GrowingReading(i, j)'
    <3>1. ASSUME j.phase \in Reading, NEW k \in DOMAIN j.kept,
                 ~Holds(disk[j.inode].content, j.kept, k)
          PROVE  ~Holds(disk'[j.inode].content, j.kept, k)
      <4>1. CASE j.inode = n
        BY <1>1, <2>1, <3>1, <4>1 DEF Content
      <4>2. CASE j.inode # n
        BY <3>1, <4>2 DEF Wrote, Kinds
      <4> QED  BY <4>1, <4>2
    <3> QED  BY <1>1, <1>5, <3>1 DEF JobInv, GrowingJob, GrowingReading, Safe, Holds, Reading
  <2>6. Below(j.kept)' /\ (j.phase \in Reading => Below(j.bytes)')
    <3>1. Below(j.kept) /\ (j.phase \in Reading => Below(j.bytes))
      BY <1>5 DEF JobInv, GrowingJob
    <3> QED  BY <1>1, <3>1, BelowGrows DEF Kinds
  <2> QED  BY <1>1, <1>5, <2>3, <2>4, <2>5, <2>6 DEF JobInv, GrowingJob, Safe, Kinds
<1> QED  BY <1>1, <1>2, <1>4, <1>5 DEF JobInv

\* A job has one of the kinds its phase says.
LEMMA KindsOf ==
    ASSUME TypeOK, NEW w \in Workers, job[w].phase # "none"
    PROVE  Kinds(job[w]) /\ worker[w] = "working"
<1>1. job[w] \in Jobs /\ job[w] # NoJob
  BY DEF TypeOK, NoJob
<1>2. job[w].phase \in {"stat", "open", "read", "restat", "decode", "report"}
  BY <1>1 DEF Jobs
<1>3. worker[w] = "working"
  BY <1>1 DEF TypeOK
<1> QED  BY <1>2, <1>3, JobKinds DEF Kinds, Reading

\* Where a worker has a job it holds an input handed out, alone.
LEMMA Alone ==
    ASSUME Proved!IInv, TypeOK, NEW w \in Workers, job[w].phase # "none"
    PROVE  /\ holding[w] \in Inputs /\ holding[w] \in Nat /\ next \in Nat /\ holding[w] < next
           /\ \A v \in Workers \ {w} : job[v].phase # "none" => holding[v] # holding[w]
<1>1. \A v \in Workers : job[v].phase # "none" => worker[v] = "working"
  BY KindsOf
<1>2. holding[w] \in Inputs /\ next \in Nat /\ holding[w] < next
  BY <1>1, Hands, Indices
<1>3. holding[w] \in Nat
  BY <1>2, Indices, BatchTrialBalanceAssumption
<1>4. \A v \in Workers \ {w} : job[v].phase # "none" => holding[v] # holding[w]
  BY <1>1, Hands
<1> QED  BY <1>2, <1>3, <1>4

\* A write, of any input, keeps the invariant.
LEMMA WrittenSnapshot ==
    ASSUME Proved!IInv, TypeOK, SnapshotInv, NEW i \in Inputs, NEW n \in DOMAIN disk,
           NEW content \in Contents, Written(i, n, content), Fits(i, n, content)
    PROVE  SnapshotInv'
<1> USE DEF SnapshotInv
<1>1. Wrote(i, n, content) /\ Inputs = 0..(InputCount - 1)
  BY WrittenFacts, Indices
<1>2. FilesInv'
  BY <1>1, WrittenFiles
<1>3. UNCHANGED <<job, holding, ran, next, world, reports>>
  BY <1>1 DEF Wrote
<1>4. ASSUME NEW w \in Workers, NEW h \in {holding[w]}, NEW j \in {job[w]}, j.phase # "none"
      PROVE  JobInv(h, j)'
  <2>1. Kinds(j) /\ h \in Inputs /\ JobInv(h, j)
    BY <1>4, KindsOf, Alone DEF JobsInv
  <2>2. CASE h # i
    BY <1>1, <2>1, <2>2, WrittenElsewhere
  <2>3. CASE h = i
    <3>1. disturbed'[i] => disturbed[i] \/ j.phase = "decode"
      <4>1. \A v \in Workers : holding[v] = i /\ job[v].phase = "decode" => v = w
        BY <1>4, <2>3, Alone
      <4> QED  BY <1>1, <1>4, <4>1 DEF Wrote
    <3> QED  BY <1>1, <2>1, <2>3, <3>1, WrittenHere
  <2> QED  BY <2>2, <2>3
<1>5. JobsInv'
  BY <1>3, <1>4 DEF JobsInv
<1>6. \A w \in Workers : holding[w] = i /\ job[w].phase = "decode" =>
          i < next /\ i \in Nat /\ next \in Nat /\ ran[i] = NotRun
  BY Alone DEF HandsInv
<1>7. ~disturbed[i] /\ disturbed'[i] => ran[i] = NotRun /\ ~(i >= next)
  BY <1>1, <1>6 DEF Wrote
<1>8. HandsInv'
  <2>1. ASSUME NEW m \in Inputs, m >= next PROVE ran[m] = NotRun /\ ~disturbed'[m]
    <3>1. ran[m] = NotRun /\ disturbed[m] = FALSE
      BY <2>1 DEF HandsInv, FilesInv
    <3> QED  BY <1>1, <1>7, <2>1, <3>1 DEF Wrote
  <2> QED  BY <1>3, <2>1 DEF HandsInv
<1>9. ReportIsInstant'
  <2>1. ASSUME NEW m \in Inputs, ran[m] = "report"
        PROVE  reports[m] \in history'[m] /\ (Recurring \/ ~disturbed'[m])
    <3>1. history[m] \subseteq history'[m]
      BY <1>1 DEF Wrote
    <3>2. disturbed'[m] => disturbed[m]
      BY <1>1, <1>7, <2>1 DEF Wrote, NotRun
    <3> QED  BY <2>1, <3>1, <3>2 DEF ReportIsInstant
  <2> QED  BY <1>3, <2>1 DEF ReportIsInstant, Recurring
<1> QED  BY <1>2, <1>5, <1>8, <1>9

--------------------------------------------------------------------------------
(* Steps that leave the files alone, and a path that goes *)

\* As long as the files stay, so does what is said of a job.
LEMMA KeptJob ==
    ASSUME UNCHANGED fileVars, NEW h, NEW j, JobInv(h, j)
    PROVE  JobInv(h, j)'
<1>1. UNCHANGED <<path, disk, writes, world, history, disturbed>>
  BY DEF fileVars
<1>2. InodeKept(h, j)'
  BY <1>1 DEF JobInv, InodeKept
<1>3. Recurring' => DatedJob(h, j)'
  BY <1>1 DEF JobInv, DatedJob, DatedReading, Recurring, Content, Holds, Second
<1>4. Coarse' => GrowingJob(h, j)'
  BY <1>1 DEF JobInv, GrowingJob, GrowingBetween, GrowingOpen, GrowingReading, Coarse,
     Content, Holds, Good, Safe, Below
<1> QED  BY <1>2, <1>3, <1>4 DEF JobInv

\* As long as the files stay, so does what is said of them.
LEMMA KeptFiles ==
    ASSUME UNCHANGED fileVars, FilesInv
    PROVE  FilesInv'
  BY DEF fileVars, FilesInv, Content, Coarse

\* A path that leads nowhere takes nothing from what is said of a job.
LEMMA RemovedJob ==
    ASSUME TypeOK, NEW i \in Inputs, Remove(i), NEW h \in Inputs, NEW j, Kinds(j), JobInv(h, j)
    PROVE  JobInv(h, j)'
<1>1. /\ UNCHANGED <<disk, writes, world, history, disturbed>>
      /\ path'[i] = Gone /\ \A m \in Inputs \ {i} : path'[m] = path[m]
  BY DEF Remove, TypeOK
<1>2. path'[h] # Gone => path'[h] = path[h]
  BY <1>1
<1>3. path'[h] # Gone => Content(h)' = Content(h)
  BY <1>1, <1>2 DEF Content
<1>4. InodeKept(h, j)'
  <2>1. j.phase \in Reading => j.inode # Gone
    BY BatchTrialBalanceAssumption DEF Kinds, TypeOK
  <2> QED  BY <1>1, <2>1 DEF JobInv, InodeKept
<1>5. Recurring' => DatedJob(h, j)'
  BY <1>1, <1>2, <1>3 DEF JobInv, DatedJob, DatedReading, Recurring, Holds, Second
<1>6. ASSUME Coarse PROVE GrowingJob(h, j)'
  <2>1. \A k \in DOMAIN j.kept : Good(h, j.kept, k)' => Good(h, j.kept, k)
    BY <1>2, <1>3 DEF Good, Holds
  <2>2. GrowingBetween(h, j)'
    BY <1>1, <1>2, <1>3, <1>6, <2>1 DEF JobInv, GrowingJob, GrowingBetween
  <2>3. GrowingOpen(h, j)'
    BY <1>1, <1>6, <2>1 DEF JobInv, GrowingJob, GrowingOpen, Safe
  <2>4. GrowingReading(h, j)'
    BY <1>1, <1>6 DEF JobInv, GrowingJob, GrowingReading, Safe, Holds
  <2> QED  BY <1>1, <1>6, <2>2, <2>3, <2>4 DEF JobInv, GrowingJob, Safe, Below
<1> QED  BY <1>1, <1>4, <1>5, <1>6 DEF JobInv, Coarse

\* Removing a file keeps the invariant.
LEMMA RemovedSnapshot ==
    ASSUME Proved!IInv, TypeOK, SnapshotInv, NEW i \in Inputs, Remove(i)
    PROVE  SnapshotInv'
<1> USE DEF SnapshotInv
<1>1. /\ UNCHANGED <<disk, writes, world, history, disturbed, job, holding, ran, next, reports>>
      /\ path'[i] = Gone /\ \A m \in Inputs \ {i} : path'[m] = path[m]
  BY DEF Remove, TypeOK, poolVars
<1>2. FilesInv'
  BY <1>1 DEF FilesInv, Content, Coarse
<1>3. ASSUME NEW w \in Workers, NEW h \in {holding[w]}, NEW j \in {job[w]}, j.phase # "none"
      PROVE  JobInv(h, j)'
  BY <1>3, KindsOf, Alone, RemovedJob DEF JobsInv
<1>4. JobsInv'
  BY <1>1, <1>3 DEF JobsInv
<1> QED  BY <1>1, <1>2, <1>4 DEF HandsInv, ReportIsInstant, Recurring

\* Steps that touch neither files nor jobs.
LEMMA StaysSnapshot ==
    ASSUME SnapshotInv, UNCHANGED <<fileVars, job, holding, ran, next, reports>>
    PROVE  SnapshotInv'
<1> USE DEF SnapshotInv
<1>1. FilesInv'
  BY KeptFiles
<1>2. ASSUME NEW w \in Workers, NEW h \in {holding[w]}, NEW j \in {job[w]}, j.phase # "none"
      PROVE  JobInv(h, j)'
  BY <1>2, KeptJob DEF JobsInv
<1>3. JobsInv'
  BY <1>2 DEF JobsInv
<1> QED  BY <1>1, <1>3 DEF HandsInv, ReportIsInstant, Recurring, fileVars

\* A step of one job.
LEMMA StepSnapshot ==
    ASSUME Proved!IInv, TypeOK, SnapshotInv, NEW w \in Workers, NEW j,
           job' = [job EXCEPT ![w] = j], UNCHANGED <<fileVars, holding, ran, next, reports>>,
           j.phase # "none" => JobInv(holding[w], j) /\ ran[holding[w]] = NotRun
    PROVE  SnapshotInv'
<1> USE DEF SnapshotInv
<1>1. FilesInv'
  BY KeptFiles
<1>2. ASSUME NEW v \in Workers, NEW h \in {holding[v]}, NEW k \in {job'[v]}, k.phase # "none"
      PROVE  JobInv(h, k)'
  <2>1. JobInv(h, k)
    <3>1. CASE v = w
      BY <1>2, <3>1 DEF TypeOK
    <3>2. CASE v # w
      BY <1>2, <3>2 DEF TypeOK, JobsInv
    <3> QED  BY <3>1, <3>2
  <2> QED  BY <2>1, KeptJob
<1>3. JobsInv'
  BY <1>2 DEF JobsInv
<1>4. HandsInv'
  BY DEF HandsInv, TypeOK, fileVars
<1> QED  BY <1>1, <1>3, <1>4 DEF ReportIsInstant, Recurring, fileVars

--------------------------------------------------------------------------------
(* The steps of a job *)

\* A file that has the length and all chunks of a reading has its bytes.
LEMMA SameContent ==
    ASSUME NEW c \in Contents, NEW d \in Contents, Len(c) = Len(d),
           \A k \in DOMAIN d : Holds(c, d, k)
    PROVE  c = d
<1>1. c \in Seq(Chunks) /\ d \in Seq(Chunks)
  BY DEF Contents
<1>2. \A k \in 1..Len(d) : c[k] = d[k]
  BY <1>1 DEF Holds
<1> QED  BY <1>1, <1>2

\* A job starts on an input that nobody held or disturbed.
LEMMA TakeSnapshot ==
    ASSUME Proved!IInv, TypeOK, SnapshotInv, NEW w \in Workers, Take(w)
    PROVE  SnapshotInv'
<1> USE DEF SnapshotInv
<1>1. UNCHANGED <<fileVars, reports, ran>> /\ Pool!Take(w) /\ job[w].phase = "none"
  <2>1. worker[w] = "idle"
    BY DEF Take, Pool!Take
  <2> QED  BY <2>1, KindsOf DEF Take, Pool!Take
<1>2. \/ /\ next < InputCount /\ next' = next + 1
         /\ holding' = [holding EXCEPT ![w] = next]
         /\ job' = [job EXCEPT ![w] = [phase |-> "stat", pass |-> 1, kept |-> <<>>]]
      \/ next' = next /\ holding' = holding /\ job' = [job EXCEPT ![w] = NoJob]
  BY Indices DEF Take, Pool!Take
<1>3. CASE next' = next /\ holding' = holding /\ job' = [job EXCEPT ![w] = NoJob]
  BY <1>1, <1>3, StepSnapshot DEF NoJob
<1>4. CASE /\ next < InputCount /\ next' = next + 1
           /\ holding' = [holding EXCEPT ![w] = next]
           /\ job' = [job EXCEPT ![w] = [phase |-> "stat", pass |-> 1, kept |-> <<>>]]
  <2>1. next \in Inputs /\ next \in Nat
    BY <1>4, Hands, Indices, BatchTrialBalanceAssumption
  <2>2. ran[next] = NotRun /\ ~disturbed[next]
    BY <2>1 DEF HandsInv
  <2> DEFINE new == [phase |-> "stat", pass |-> 1, kept |-> <<>>]
  <2>3. JobInv(next, new)
    BY <2>2 DEF JobInv, InodeKept, DatedJob, DatedReading, GrowingJob, GrowingBetween,
       GrowingOpen, GrowingReading, Second, Reading, Below
  <2>4. new.phase # "none"
    OBVIOUS
  <2> HIDE DEF new
  <2>5. holding'[w] = next /\ job'[w] = new
    BY <1>4, Hands DEF TypeOK, new
  <2>6. \A v \in Workers \ {w} : holding'[v] = holding[v] /\ job'[v] = job[v]
    BY <1>4, Hands DEF TypeOK
  <2>7. ASSUME NEW v \in Workers, NEW h \in {holding'[v]}, NEW j \in {job'[v]}, j.phase # "none"
        PROVE  JobInv(h, j)'
    <3>1. JobInv(h, j)
      <4>1. CASE v = w
        BY <2>3, <2>5, <2>7, <4>1
      <4>2. CASE v # w
        BY <2>6, <2>7, <4>2 DEF JobsInv
      <4> QED  BY <4>1, <4>2
    <3> QED  BY <1>1, <3>1, KeptJob
  <2>8. JobsInv'
    BY <2>7 DEF JobsInv
  <2>9. HandsInv'
    <3>1. ASSUME NEW m \in Inputs, m >= next' PROVE ran'[m] = NotRun /\ ~disturbed'[m]
      <4>1. m >= next
        BY <1>4, <2>1, <3>1, Indices, BatchTrialBalanceAssumption
      <4> QED  BY <1>1, <4>1 DEF HandsInv, fileVars
    <3>2. ASSUME NEW v \in Workers, job'[v].phase # "none" PROVE ran'[holding'[v]] = NotRun
      BY <1>1, <2>2, <2>5, <2>6, <3>2 DEF HandsInv
    <3> QED  BY <3>1, <3>2 DEF HandsInv
  <2>10. FilesInv'
    BY <1>1, KeptFiles
  <2> QED  BY <1>1, <2>8, <2>9, <2>10 DEF ReportIsInstant, Recurring, fileVars
<1> QED  BY <1>2, <1>3, <1>4

\* A job ends: its input was run, and a report is of the bytes kept.
LEMMA ReturnSnapshot ==
    ASSUME Proved!IInv, TypeOK, SnapshotInv, NEW w \in Workers, NEW o, Return(w, o),
           job[w].phase # "none", o = "report" => job[w].phase = "report"
    PROVE  SnapshotInv'
<1> USE DEF SnapshotInv
<1> DEFINE h == holding[w]
<1>1. /\ h \in Inputs /\ h \in Nat /\ next \in Nat /\ h < next
      /\ \A v \in Workers \ {w} : job[v].phase # "none" => holding[v] # h
  BY Alone
<1>2. /\ UNCHANGED <<fileVars, holding, next>> /\ job' = [job EXCEPT ![w] = NoJob]
      /\ reports' = IF o = "report" THEN [reports EXCEPT ![h] = job[w].kept] ELSE reports
  BY DEF Return, Pool!RunOne
<1>3. ran'[h] = o /\ \A m \in Inputs \ {h} : ran'[m] = ran[m]
  BY <1>1, Hands DEF Return, Pool!RunOne
<1>4. FilesInv'
  BY <1>2, KeptFiles
<1>5. job'[w].phase = "none" /\ \A v \in Workers \ {w} : job'[v] = job[v]
  BY <1>2 DEF TypeOK, NoJob
<1>6. ASSUME NEW v \in Workers, NEW i \in {holding[v]}, NEW j \in {job'[v]}, j.phase # "none"
      PROVE  JobInv(i, j)'
  BY <1>2, <1>5, <1>6, KeptJob DEF JobsInv
<1>7. JobsInv'
  BY <1>2, <1>6 DEF JobsInv
<1>8. HandsInv'
  <2>1. ASSUME NEW m \in Inputs, m >= next PROVE ran'[m] = NotRun /\ ~disturbed'[m]
    BY <1>1, <1>2, <1>3, <2>1 DEF HandsInv, fileVars
  <2>2. ASSUME NEW v \in Workers, job'[v].phase # "none" PROVE ran'[holding[v]] = NotRun
    <3>1. v # w /\ job[v].phase # "none" /\ holding[v] # h
      BY <1>1, <1>5, <2>2
    <3>2. holding[v] \in Inputs
      BY <3>1, Alone
    <3> QED  BY <1>3, <3>1, <3>2 DEF HandsInv
  <2> QED  BY <1>2, <2>1, <2>2 DEF HandsInv
<1>9. ReportIsInstant'
  <2>1. ASSUME o = "report"
        PROVE  job[w].kept \in history[h] /\ (Recurring \/ ~disturbed[h])
    BY <2>1 DEF JobsInv, JobInv, DatedJob, GrowingJob, Safe, FilesInv, Recurring, Coarse
  <2>2. ASSUME NEW m \in Inputs, ran'[m] = "report"
        PROVE  reports'[m] \in history[m] /\ (Recurring \/ ~disturbed[m])
    <3>1. CASE m = h
      BY <1>1, <1>2, <1>3, <2>1, <2>2, <3>1 DEF TypeOK
    <3>2. CASE m # h
      <4>1. ran[m] = "report" /\ reports'[m] = reports[m]
        BY <1>1, <1>2, <1>3, <2>2, <3>2 DEF TypeOK
      <4> QED  BY <4>1 DEF ReportIsInstant
    <3> QED  BY <3>1, <3>2
  <2> QED  BY <1>2, <2>2 DEF ReportIsInstant, Recurring, fileVars
<1> QED  BY <1>4, <1>7, <1>8, <1>9

\* A job that goes on.
LEMMA GoesOn ==
    ASSUME Proved!IInv, TypeOK, SnapshotInv, NEW w \in Workers, NEW j,
           job[w].phase # "none", job' = [job EXCEPT ![w] = j], Step(w), JobInv(holding[w], j)
    PROVE  SnapshotInv'
<1>1. UNCHANGED <<fileVars, holding, ran, next, reports>>
  BY DEF Step, poolVars
<1>2. ran[holding[w]] = NotRun
  BY DEF SnapshotInv, HandsInv
<1> QED  BY <1>1, <1>2, StepSnapshot

\* The first look at the file: what the reading will be held to.
LEMMA StatSnapshot ==
    ASSUME Proved!IInv, TypeOK, SnapshotInv, NEW w \in Workers, Stat(w), ~Unreadable(w)
    PROVE  SnapshotInv'
<1> DEFINE h == holding[w]
           old == job[w]
           file == disk[path[h]]
           new == [phase |-> "open", pass |-> old.pass, kept |-> old.kept,
                   length |-> Len(file.content), mtime |-> file.mtime]
<1>1. old.phase = "stat" /\ path[h] # Gone /\ job' = [job EXCEPT ![w] = new] /\ Step(w)
  BY DEF Stat, Readable
<1>2. h \in Inputs /\ Kinds(old) /\ JobInv(h, old)
  BY <1>1, Alone, KindsOf DEF SnapshotInv, JobsInv
<1>3. path[h] \in DOMAIN disk /\ Content(h) = file.content /\ Content(h) \in Contents
  BY <1>1, <1>2 DEF TypeOK, Content
<1>4. InodeKept(h, new)
  BY DEF InodeKept, Reading
<1>5. ASSUME Recurring PROVE DatedJob(h, new)
  <2>1. file.mtime \in Nat /\ file.mtime <= writes
    BY <1>3 DEF TypeOK, SnapshotInv, FilesInv
  <2>2. DatedReading(h, new)
    BY <1>3, <2>1 DEF DatedReading, Reading
  <2>3. Second(new) => Second(old)
    BY <1>1 DEF Second
  <2> QED  BY <1>2, <1>5, <2>2, <2>3 DEF DatedJob, JobInv
<1>6. ASSUME Coarse PROVE GrowingJob(h, new)
  <2>1. Below(old.kept) /\ (old.pass = 1 => ~disturbed[h]) /\ GrowingBetween(h, old)
    BY <1>1, <1>2, <1>6 DEF JobInv, GrowingJob
  <2>2. GrowingOpen(h, new)
    <3> SUFFICES ASSUME old.pass = 2, Len(file.content) = Len(old.kept),
                        \A k \in DOMAIN old.kept : Good(h, old.kept, k)
                 PROVE  Safe(h, old.kept)
      BY DEF GrowingOpen
    <3>1. Content(h) = old.kept
      BY <1>2, <1>3, SameContent DEF Good, Kinds
    <3> QED  BY <1>1, <2>1, <3>1 DEF GrowingBetween, Safe
  <2> QED  BY <2>1, <2>2 DEF GrowingJob, GrowingBetween, GrowingReading, Reading
<1>7. JobInv(h, new)
  BY <1>4, <1>5, <1>6 DEF JobInv
<1> HIDE DEF new
<1> QED  BY <1>1, <1>7, GoesOn

\* The file is opened: the inode of the path, and nothing read yet.
LEMMA OpenSnapshot ==
    ASSUME Proved!IInv, TypeOK, SnapshotInv, NEW w \in Workers, Open(w), ~Unreadable(w)
    PROVE  SnapshotInv'
<1> DEFINE h == holding[w]
           old == job[w]
           new == [phase |-> "read", pass |-> old.pass, kept |-> old.kept,
                   length |-> old.length, mtime |-> old.mtime,
                   inode |-> path[h], bytes |-> <<>>]
<1>1. old.phase = "open" /\ path[h] # Gone /\ job' = [job EXCEPT ![w] = new] /\ Step(w)
  BY DEF Open
<1>2. h \in Inputs /\ Kinds(old) /\ JobInv(h, old)
  BY <1>1, Alone, KindsOf DEF SnapshotInv, JobsInv
<1>3. InodeKept(h, new)
  BY <1>1, <1>2 DEF InodeKept, SnapshotInv, FilesInv
<1>4. ASSUME Recurring PROVE DatedJob(h, new)
  <2>1. DatedReading(h, new)
    BY <1>1, <1>2, <1>4 DEF JobInv, DatedJob, DatedReading, Reading
  <2>2. Second(new) => Second(old)
    BY <1>1 DEF Second
  <2> QED  BY <1>2, <1>4, <2>1, <2>2 DEF DatedJob, JobInv
<1>5. ASSUME Coarse PROVE GrowingJob(h, new)
  <2>1. Below(old.kept) /\ (old.pass = 1 => ~disturbed[h]) /\ GrowingOpen(h, old)
    BY <1>1, <1>2, <1>5 DEF JobInv, GrowingJob
  <2>2. GrowingReading(h, new)
    BY <1>1, <2>1 DEF GrowingOpen, GrowingReading, Good, Content
  <2>3. Below(new.bytes)
    BY DEF Below
  <2> QED  BY <2>1, <2>2, <2>3 DEF GrowingJob, GrowingBetween, GrowingOpen
<1>6. JobInv(h, new)
  BY <1>3, <1>4, <1>5 DEF JobInv
<1> HIDE DEF new
<1> QED  BY <1>1, <1>6, GoesOn

\* One chunk more is read, from the inode that was opened.
LEMMA ChunkSnapshot ==
    ASSUME Proved!IInv, TypeOK, SnapshotInv, NEW w \in Workers, job[w].phase = "read",
           NEW k, k = Len(job[w].bytes) + 1, k <= Len(disk[job[w].inode].content),
           job' = [job EXCEPT ![w].bytes = Append(@, disk[job[w].inode].content[k])], Step(w)
    PROVE  SnapshotInv'
<1> DEFINE h == holding[w]
           old == job[w]
           content == disk[old.inode].content
           more == Append(old.bytes, content[k])
           new == [old EXCEPT !.bytes = more]
<1>1. h \in Inputs /\ Kinds(old) /\ JobInv(h, old)
  BY Alone, KindsOf DEF SnapshotInv, JobsInv
<1>2. /\ old.inode \in DOMAIN disk /\ old.bytes \in Contents /\ content \in Contents
      /\ old.bytes \in Seq(Chunks) /\ content \in Seq(Chunks)
  BY <1>1 DEF Kinds, Reading, TypeOK, Contents
<1>3. k \in DOMAIN content /\ content[k] \in Chunks /\ k \in Nat
  <2>1. k = Len(old.bytes) + 1 /\ k <= Len(content)
    OBVIOUS
  <2> HIDE DEF old, content
  <2>2. /\ Len(old.bytes) \in Nat /\ Len(content) \in Nat
        /\ DOMAIN content = 1..Len(content) /\ \A m \in DOMAIN content : content[m] \in Chunks
    BY <1>2
  <2> QED  BY ONLY <2>1, <2>2
<1>4. /\ DOMAIN more = DOMAIN old.bytes \cup {k} /\ k \notin DOMAIN old.bytes
      /\ more[k] = content[k] /\ \A m \in DOMAIN old.bytes : more[m] = old.bytes[m]
  BY <1>2, <1>3
<1>5. job' = [job EXCEPT ![w] = new]
  BY DEF TypeOK
<1>6. /\ new.phase = "read" /\ new.pass = old.pass /\ new.kept = old.kept
      /\ new.length = old.length /\ new.mtime = old.mtime /\ new.inode = old.inode
      /\ new.bytes = more
  <2>1. old \in [phase : {"read", "restat"}, pass : {1, 2}, kept : Contents, length : Nat,
                 mtime : Nat, inode : DOMAIN disk, bytes : Contents]
    BY DEF TypeOK, Jobs, NoJob
  <2> HIDE DEF old
  <2> QED  BY <2>1 DEF old
<1> HIDE DEF more, new
<1>7. InodeKept(h, new)
  BY <1>1, <1>6 DEF JobInv, InodeKept, Reading
<1>8. ASSUME Recurring PROVE DatedJob(h, new)
  <2>1. DatedReading(h, old)
    BY <1>1, <1>8 DEF JobInv, DatedJob
  <2>2. DatedReading(h, new)
    <3> USE <1>6 DEF DatedReading, Reading
    <3>1. ASSUME path[h] # Gone, disk[path[h]].mtime = new.mtime
          PROVE  /\ Len(Content(h)) = new.length /\ new.inode = path[h]
                 /\ \A m \in DOMAIN new.bytes : Holds(Content(h), new.bytes, m)
      <4>1. /\ Len(Content(h)) = old.length /\ old.inode = path[h] /\ Content(h) = content
            /\ \A m \in DOMAIN old.bytes : Holds(content, old.bytes, m)
        BY <2>1, <3>1 DEF Content
      <4>2. \A m \in DOMAIN more : Holds(content, more, m)
        BY <1>3, <1>4, <4>1 DEF Holds
      <4> QED  BY <4>1, <4>2
    <3> QED  BY <2>1, <3>1
  <2>3. Second(new) => Second(old)
    BY <1>6 DEF Second
  <2> QED  BY <1>1, <1>6, <1>8, <2>2, <2>3 DEF DatedJob, JobInv
<1>9. ASSUME Coarse PROVE GrowingJob(h, new)
  <2>1. /\ Below(old.kept) /\ Below(old.bytes) /\ (old.pass = 1 => ~disturbed[h])
        /\ GrowingReading(h, old)
    BY <1>1, <1>9 DEF JobInv, GrowingJob, Reading
  <2>2. Below(more)
    <3>1. content[k] <= writes
      BY <1>2, <1>3, <1>9 DEF SnapshotInv, FilesInv
    <3> QED  BY <1>4, <2>1, <3>1 DEF Below
  <2>3. GrowingReading(h, new)
    <3>1. ASSUME NEW m \in DOMAIN old.kept, m \in DOMAIN old.bytes, old.bytes[m] # old.kept[m]
          PROVE  m \in DOMAIN more /\ more[m] # old.kept[m]
      BY <1>4, <3>1
    <3>2. ASSUME NEW m \in DOMAIN old.kept, m \notin DOMAIN old.bytes,
                 ~Holds(content, old.kept, m)
          PROVE  IF m = k THEN m \in DOMAIN more /\ more[m] # old.kept[m]
                 ELSE m \notin DOMAIN more
      BY <1>3, <1>4, <3>2 DEF Holds
    <3>3. CASE old.pass = 2
      <4>1. \/ Safe(h, old.kept)
            \/ old.length # Len(old.kept)
            \/ \E m \in DOMAIN old.kept :
                  \/ m \in DOMAIN old.bytes /\ old.bytes[m] # old.kept[m]
                  \/ m \notin DOMAIN old.bytes /\ ~Holds(content, old.kept, m)
        BY <2>1, <3>3 DEF GrowingReading, Reading
      <4>2. \/ Safe(h, old.kept)
            \/ old.length # Len(old.kept)
            \/ \E m \in DOMAIN old.kept :
                  \/ m \in DOMAIN more /\ more[m] # old.kept[m]
                  \/ m \notin DOMAIN more /\ ~Holds(content, old.kept, m)
        BY <3>1, <3>2, <4>1
      <4> QED  BY <1>6, <4>2 DEF GrowingReading
    <3>4. CASE old.pass # 2
      BY <1>6, <3>4 DEF GrowingReading
    <3> QED  BY <3>3, <3>4
  <2> QED  BY <1>6, <2>1, <2>2, <2>3 DEF GrowingJob, GrowingBetween, GrowingOpen
<1>10. JobInv(h, new)
  BY <1>7, <1>8, <1>9 DEF JobInv
<1> QED  BY <1>5, <1>10, GoesOn

\* A reading ends where it was held to, or goes on.
LEMMA ReadSnapshot ==
    ASSUME Proved!IInv, TypeOK, BoundedReading, SnapshotInv, NEW w \in Workers,
           Read(w), ~Unreadable(w)
    PROVE  SnapshotInv'
<1> DEFINE h == holding[w]
           old == job[w]
           content == disk[old.inode].content
           k == Len(old.bytes) + 1
           new == [old EXCEPT !.phase = "restat"]
<1>1. old.phase = "read" /\ Step(w)
  BY DEF Read
<1>2. \/ /\ k <= Len(content)
         /\ job' = [job EXCEPT ![w].bytes = Append(@, content[k])]
      \/ k > old.length /\ job' = [job EXCEPT ![w].phase = "restat"]
  BY DEF Read
<1>3. CASE k <= Len(content) /\ job' = [job EXCEPT ![w].bytes = Append(@, content[k])]
  BY <1>1, <1>3, ChunkSnapshot
<1>4. CASE k > old.length /\ job' = [job EXCEPT ![w].phase = "restat"]
  <2>1. h \in Inputs /\ Kinds(old) /\ JobInv(h, old)
    BY <1>1, Alone, KindsOf DEF SnapshotInv, JobsInv
  <2>2. Len(old.bytes) = old.length
    <3>1. Len(old.bytes) \in Nat /\ old.length \in Nat /\ Len(old.bytes) <= old.length
      BY <1>1, <2>1 DEF BoundedReading, Kinds, Reading, Contents
    <3> QED  BY <1>4, <3>1
  <2>3. /\ new.phase = "restat" /\ new.pass = old.pass /\ new.kept = old.kept
        /\ new.length = old.length /\ new.mtime = old.mtime /\ new.inode = old.inode
        /\ new.bytes = old.bytes
    <3>1. old \in [phase : {"read", "restat"}, pass : {1, 2}, kept : Contents, length : Nat,
                   mtime : Nat, inode : DOMAIN disk, bytes : Contents]
      BY <1>1 DEF TypeOK, Jobs, NoJob
    <3> HIDE DEF old
    <3> QED  BY <3>1
  <2>4. job' = [job EXCEPT ![w] = new]
    BY <1>4 DEF TypeOK
  <2> HIDE DEF new
  <2>5. InodeKept(h, new)
    BY <1>1, <2>1, <2>2, <2>3 DEF JobInv, InodeKept, Reading
  <2>6. Recurring => DatedJob(h, new)
    BY <1>1, <2>1, <2>3 DEF JobInv, DatedJob, DatedReading, Second, Reading
  <2>7. Coarse => GrowingJob(h, new)
    BY <1>1, <2>1, <2>3 DEF JobInv, GrowingJob, GrowingBetween, GrowingOpen, GrowingReading,
       Reading
  <2>8. JobInv(h, new)
    BY <2>5, <2>6, <2>7 DEF JobInv
  <2> QED  BY <1>1, <2>3, <2>4, <2>8, GoesOn
<1> QED  BY <1>2, <1>3, <1>4

\* The file is as it was found: what was read is its content, and the second
\* time what was kept is.
LEMMA RestatSnapshot ==
    ASSUME Proved!IInv, TypeOK, SnapshotInv, NEW w \in Workers, Restat(w), ~Unreadable(w)
    PROVE  SnapshotInv'
<1> DEFINE h == holding[w]
           old == job[w]
           first == [phase |-> "decode", kept |-> old.bytes]
           second == [phase |-> "report", kept |-> old.kept]
<1>1. /\ old.phase = "restat" /\ Step(w) /\ path[h] # Gone
      /\ Len(Content(h)) = old.length /\ disk[path[h]].mtime = old.mtime
      /\ \/ old.pass = 1 /\ job' = [job EXCEPT ![w] = first]
         \/ old.pass = 2 /\ old.bytes = old.kept /\ job' = [job EXCEPT ![w] = second]
  BY DEF Restat, Unchanged, Content
<1>2. h \in Inputs /\ Kinds(old) /\ JobInv(h, old)
  BY <1>1, Alone, KindsOf DEF SnapshotInv, JobsInv
<1>3. /\ Content(h) \in Contents /\ old.bytes \in Contents
      /\ Len(Content(h)) = Len(old.bytes) /\ Content(h) \in history[h]
  BY <1>1, <1>2 DEF TypeOK, Content, Kinds, Reading, JobInv, InodeKept, SnapshotInv, FilesInv
<1>4. CASE old.pass = 1 /\ job' = [job EXCEPT ![w] = first]
  <2>1. ASSUME Recurring PROVE old.bytes \in history[h]
    <3>1. \A k \in DOMAIN old.bytes : Holds(Content(h), old.bytes, k)
      BY <1>1, <1>2, <2>1 DEF JobInv, DatedJob, DatedReading, Reading
    <3> QED  BY <1>3, <3>1, SameContent
  <2>2. ASSUME Coarse PROVE GrowingJob(h, first)
    <3>1. Below(old.bytes) /\ ~disturbed[h]
      BY <1>1, <1>2, <1>4, <2>2 DEF JobInv, GrowingJob, Reading
    <3>2. (\A k \in DOMAIN old.bytes : Good(h, old.bytes, k)) => old.bytes \in history[h]
      BY <1>3, SameContent DEF Good
    <3> QED  BY <3>1, <3>2 DEF GrowingJob, GrowingBetween, GrowingOpen, GrowingReading, Reading
  <2>3. JobInv(h, first)
    BY <2>1, <2>2 DEF JobInv, InodeKept, DatedJob, DatedReading, Reading
  <2>4. first.phase # "none"
    OBVIOUS
  <2> HIDE DEF first
  <2> QED  BY <1>1, <1>4, <2>3, GoesOn
<1>5. CASE old.pass = 2 /\ old.bytes = old.kept /\ job' = [job EXCEPT ![w] = second]
  <2>1. Recurring => old.kept \in history[h]
    BY <1>1, <1>2, <1>5 DEF JobInv, DatedJob, Second
  <2>2. ASSUME Coarse PROVE GrowingJob(h, second)
    <3>1. Below(old.kept) /\ GrowingReading(h, old)
      BY <1>2, <2>2 DEF JobInv, GrowingJob
    <3>2. Safe(h, old.kept)
      BY <1>1, <1>3, <1>5, <3>1 DEF GrowingReading, Reading
    <3> QED  BY <3>1, <3>2 DEF GrowingJob, GrowingBetween, GrowingOpen, GrowingReading, Reading
  <2>3. JobInv(h, second)
    BY <2>1, <2>2 DEF JobInv, InodeKept, DatedJob, DatedReading, Reading
  <2> HIDE DEF second
  <2> QED  BY <1>1, <1>5, <2>3, GoesOn
<1> QED  BY <1>1, <1>4, <1>5

\* The bytes are decoded: the second reading begins.
LEMMA DecodeSnapshot ==
    ASSUME Proved!IInv, TypeOK, SnapshotInv, NEW w \in Workers, Decode(w), ~Return(w, "rejected")
    PROVE  SnapshotInv'
<1> DEFINE h == holding[w]
           old == job[w]
           new == [phase |-> "stat", pass |-> 2, kept |-> old.kept]
<1>1. old.phase = "decode" /\ job' = [job EXCEPT ![w] = new] /\ Step(w)
  BY DEF Decode
<1>2. JobInv(h, old)
  BY <1>1 DEF SnapshotInv, JobsInv
<1>3. Recurring => DatedJob(h, new)
  BY <1>1, <1>2 DEF JobInv, DatedJob, DatedReading, Reading
<1>4. Coarse => GrowingJob(h, new)
  BY <1>1, <1>2 DEF JobInv, GrowingJob, GrowingBetween, GrowingOpen, GrowingReading, Reading
<1>5. JobInv(h, new)
  BY <1>3, <1>4 DEF JobInv, InodeKept, Reading
<1> HIDE DEF new
<1> QED  BY <1>1, <1>5, GoesOn

--------------------------------------------------------------------------------
\* Every step keeps the invariant.
LEMMA NextSnapshot ==
    ASSUME IInv, SnapshotInv, [Next]_vars
    PROVE  SnapshotInv'
<1>1. Proved!IInv /\ TypeOK /\ BoundedReading
  BY DEF IInv
<1>2. ASSUME NEW i \in Inputs, WriteInPlace(i) \/ Replace(i)
      PROVE  SnapshotInv'
  BY <1>1, <1>2, WritesFit, WrittenSnapshot DEF SnapshotInv
<1>3. CASE Others
  <2>1. CASE TakeOutputName
    BY <2>1, StaysSnapshot DEF TakeOutputName, poolVars
  <2> QED  BY <1>1, <1>2, <1>3, <2>1, RemovedSnapshot DEF Others
<1>4. CASE Command
  <2>1. UNCHANGED <<fileVars, job, reports>>
    BY <1>4 DEF Command, Start, Schedule, Collect, Write, Publish
  <2>2. UNCHANGED <<holding, ran, next>>
    BY <1>4 DEF Command, Start, Schedule, Collect, Write, Publish, poolVars, Pool!MainStep,
       Pool!Validate, Pool!Spawn, Pool!Receive, Pool!Disconnected, Pool!Place
  <2> QED  BY <2>1, <2>2, StaysSnapshot
<1>5. ASSUME NEW w \in Workers, Worker(w)
      PROVE  SnapshotInv'
  <2>1. ASSUME NEW o, Return(w, o), job[w].phase # "none", o = "report" => job[w].phase = "report"
        PROVE  SnapshotInv'
    BY <1>1, <2>1, ReturnSnapshot
  <2>2. ASSUME Unreadable(w), job[w].phase # "none"
        PROVE  SnapshotInv'
    BY <2>1, <2>2 DEF Unreadable
  <2>3. CASE Take(w)
    BY <1>1, <2>3, TakeSnapshot
  <2>4. CASE Stat(w)
    BY <1>1, <2>2, <2>4, StatSnapshot DEF Stat
  <2>5. CASE Open(w)
    BY <1>1, <2>2, <2>5, OpenSnapshot DEF Open
  <2>6. CASE Read(w)
    BY <1>1, <2>2, <2>6, ReadSnapshot DEF Read
  <2>7. CASE Restat(w)
    BY <1>1, <2>2, <2>7, RestatSnapshot DEF Restat
  <2>8. CASE Decode(w)
    BY <1>1, <2>1, <2>8, DecodeSnapshot DEF Decode
  <2>9. CASE Report(w)
    BY <2>1, <2>9 DEF Report
  <2>10. CASE Panic(w)
    <3>1. UNCHANGED <<fileVars, holding, ran, next, reports>> /\ job' = [job EXCEPT ![w] = NoJob]
      BY <1>1, <2>10, Indices DEF Panic, Pool!RunOne
    <3> QED  BY <1>1, <3>1, StepSnapshot DEF NoJob
  <2>11. CASE Send(w)
    BY <2>11, StaysSnapshot DEF Send, Pool!Send
  <2> QED  BY <1>5, <2>3, <2>4, <2>5, <2>6, <2>7, <2>8, <2>9, <2>10, <2>11 DEF Worker
<1>6. CASE Terminated \/ UNCHANGED vars
  BY <1>6, StaysSnapshot DEF Terminated, vars, poolVars
<1> QED  BY <1>3, <1>4, <1>5, <1>6 DEF Next

\* A report is made from a content that its file had at one instant, and that
\* nobody overwrote while it was decoded: for any number of inputs, workers and
\* chunks, whatever other programs write, and whenever.
THEOREM SnapshotIsInstant == Spec => []ReportIsInstant
<1>1. Init => SnapshotInv
  BY InitSnapshot
<1>2. IInv /\ SnapshotInv /\ [Next]_vars => SnapshotInv'
  BY NextSnapshot
<1>3. SnapshotInv => ReportIsInstant
  BY DEF SnapshotInv
<1> QED  BY <1>1, <1>2, <1>3, Invariance, PTL DEF Spec

--------------------------------------------------------------------------------
(* The command implements AtomicBatch *)

Made == [i \in Inputs |-> IF ran[i] = "report" THEN <<reports[i]>> ELSE <<>>]

\* A step that makes no report and leaves the output alone is one of other
\* programs writing, or none.
LEMMA Silent ==
    ASSUME UNCHANGED <<ran, reports, output>>,
           \A i \in Inputs : history[i] \subseteq history'[i]
    PROVE  Atomic!WriteFiles
<1>1. Inputs = Atomic!Inputs
  BY DEF Inputs, Pool!Inputs, Atomic!Inputs
<1> QED  BY <1>1 DEF Atomic!WriteFiles

\* A job that ends makes a report from a content of its file, the first one of
\* that company, or none.
LEMMA ReturnIsReport ==
    ASSUME Proved!IInv, TypeOK, SnapshotInv, SnapshotInv', NEW w \in Workers, NEW o,
           Return(w, o), job[w].phase # "none"
    PROVE  [Atomic!Next]_(Atomic!vars)
<1> DEFINE h == holding[w]
<1>1. /\ UNCHANGED <<history, output>> /\ ran[h] = NotRun
      /\ reports' = IF o = "report" THEN [reports EXCEPT ![h] = job[w].kept] ELSE reports
  BY DEF Return, Pool!RunOne, fileVars, cmdVars, SnapshotInv, HandsInv
<1>2. h \in Inputs /\ Inputs = Atomic!Inputs
  BY Alone DEF Inputs, Pool!Inputs, Atomic!Inputs
<1>3. ran'[h] = o /\ \A m \in Inputs \ {h} : ran'[m] = ran[m]
  BY <1>2, Hands DEF Return, Pool!RunOne
<1>4. CASE o = "report"
  <2>1. reports'[h] \in history[h]
    BY <1>1, <1>2, <1>3, <1>4 DEF SnapshotInv, ReportIsInstant
  <2>2. Made' = [Made EXCEPT ![h] = <<reports'[h]>>] /\ Made[h] = <<>>
    <3>1. \A m \in Inputs \ {h} : reports'[m] = reports[m]
      BY <1>1, <1>2 DEF TypeOK
    <3>2. Made'[h] = <<reports'[h]>> /\ Made[h] = <<>>
      BY <1>1, <1>2, <1>3, <1>4 DEF Made, NotRun
    <3>3. \A m \in Inputs \ {h} : Made'[m] = Made[m]
      BY <1>3, <3>1 DEF Made
    <3>4. /\ Made = [m \in Inputs |-> Made[m]] /\ Made' = [m \in Inputs |-> Made'[m]]
      BY DEF Made
    <3> HIDE DEF Made, h
    <3> QED  BY <1>2, <3>2, <3>3, <3>4
  <2>3. PICK i \in Inputs : i = h
    BY <1>2
  <2>4. Atomic!Report(i)
    BY <1>1, <1>2, <2>1, <2>2, <2>3 DEF Atomic!Report, Made
  <2> QED  BY <1>2, <2>4 DEF Atomic!Next
<1>5. CASE o # "report"
  <2>1. Made' = Made
    BY <1>1, <1>2, <1>3, <1>5 DEF Made, NotRun
  <2> QED  BY <1>1, <2>1 DEF Atomic!vars, Made
<1> QED  BY <1>4, <1>5

\* What is published is complete, of every company its report.
LEMMA PublishesAll ==
    ASSUME IInv, Publish
    PROVE  [Atomic!Next]_(Atomic!vars)
<1>1. UNCHANGED <<ran, reports, history>> /\ AllReported /\ rows = Complete
  BY DEF Publish, poolVars, fileVars, IInv, CommandInv
<1>2. Inputs = 0..(InputCount - 1) /\ Inputs = Atomic!Inputs /\ InputCount \in Nat
  BY BatchTrialBalanceAssumption DEF Inputs, Pool!Inputs, Atomic!Inputs
<1>3. \A i \in Inputs : Made[i] = <<reports[i]>>
  BY <1>1 DEF Made, AllReported
<1>4. rows = [k \in 1..InputCount |-> [index |-> k - 1, bytes |-> Made[k - 1][1]]]
  BY <1>1, <1>2, <1>3 DEF Complete, Row
<1>5. Made' = Made
  BY <1>1 DEF Made
<1>6. CASE output = NoOutput /\ output' = [owner |-> "us", rows |-> rows]
  <2>1. Atomic!Publish
    BY <1>1, <1>2, <1>3, <1>4, <1>5, <1>6 DEF Atomic!Publish, Atomic!Nobody, NoOutput, Made
  <2> QED  BY <2>1 DEF Atomic!Next
<1>7. CASE UNCHANGED output
  BY <1>1, <1>5, <1>7 DEF Atomic!vars, Made
<1> QED  BY <1>6, <1>7 DEF Publish

\* Every step of the command is one of AtomicBatch, or one that it does not see.
LEMMA NextAtomic ==
    ASSUME IInv, SnapshotInv, SnapshotInv', [Next]_vars
    PROVE  [Atomic!Next]_(Atomic!vars)
<1>1. Proved!IInv /\ TypeOK
  BY DEF IInv
<1>2. ASSUME UNCHANGED <<ran, reports, output>>, \A i \in Inputs : history[i] \subseteq history'[i]
      PROVE  [Atomic!Next]_(Atomic!vars)
  BY <1>2, Silent DEF Atomic!Next
<1>3. CASE Others
  <2>1. ASSUME NEW i \in Inputs, NEW n, NEW content, Written(i, n, content)
        PROVE  [Atomic!Next]_(Atomic!vars)
    <3>1. \A m \in Inputs : history[m] \subseteq history'[m]
      BY <2>1 DEF Written, SnapshotInv, FilesInv
    <3> QED  BY <1>2, <2>1, <3>1 DEF Written, poolVars, cmdVars
  <2>2. ASSUME NEW i \in Inputs, WriteInPlace(i) \/ Replace(i)
        PROVE  [Atomic!Next]_(Atomic!vars)
    BY <2>1, <2>2 DEF WriteInPlace, Replace
  <2>3. ASSUME NEW i \in Inputs, Remove(i)
        PROVE  [Atomic!Next]_(Atomic!vars)
    BY <1>2, <2>3 DEF Remove, poolVars, cmdVars
  <2>4. CASE TakeOutputName
    <3>1. Atomic!TakeName
      BY <2>4 DEF TakeOutputName, Atomic!TakeName, Atomic!Nobody, Atomic!Other, NoOutput,
         poolVars, fileVars
    <3> QED  BY <3>1 DEF Atomic!Next
  <2> QED  BY <1>3, <2>2, <2>3, <2>4 DEF Others
<1>4. CASE Command
  <2>1. CASE Publish
    BY <2>1, PublishesAll
  <2>2. CASE ~Publish
    <3>1. UNCHANGED <<ran, reports, output, history>>
      BY <1>4, <2>2 DEF Command, Start, Schedule, Collect, Write, poolVars, fileVars,
         Pool!MainStep, Pool!Validate, Pool!Spawn, Pool!Receive, Pool!Disconnected, Pool!Place
    <3> QED  BY <1>2, <3>1
  <2> QED  BY <2>1, <2>2
<1>5. ASSUME NEW w \in Workers, Worker(w)
      PROVE  [Atomic!Next]_(Atomic!vars)
  <2>1. ASSUME NEW o, Return(w, o), job[w].phase # "none"
        PROVE  [Atomic!Next]_(Atomic!vars)
    BY <1>1, <2>1, ReturnIsReport
  <2>2. ASSUME Unreadable(w), job[w].phase # "none"
        PROVE  [Atomic!Next]_(Atomic!vars)
    BY <2>1, <2>2 DEF Unreadable
  <2>3. ASSUME Step(w)
        PROVE  [Atomic!Next]_(Atomic!vars)
    BY <1>2, <2>3 DEF Step, poolVars, fileVars, cmdVars
  <2>4. CASE Take(w) \/ Send(w)
    BY <1>2, <2>4 DEF Take, Send, Pool!Take, Pool!Send, fileVars, cmdVars
  <2>5. CASE Stat(w) \/ Open(w)
    BY <2>2, <2>3, <2>5 DEF Stat, Open
  <2>6. CASE Read(w) \/ Restat(w)
    BY <2>2, <2>3, <2>6 DEF Read, Restat
  <2>7. CASE Decode(w) \/ Report(w)
    BY <2>1, <2>3, <2>7 DEF Decode, Report
  <2>8. CASE Panic(w)
    BY <1>1, <1>2, <2>8, Indices DEF Panic, Pool!RunOne, fileVars, cmdVars
  <2> QED  BY <1>5, <2>4, <2>5, <2>6, <2>7, <2>8 DEF Worker
<1>6. CASE Terminated \/ UNCHANGED vars
  BY <1>2, <1>6 DEF Terminated, vars, poolVars, fileVars, cmdVars
<1> QED  BY <1>3, <1>4, <1>5, <1>6 DEF Next

\* The command is atomic: for any number of rows, workers and chunks, and whatever
\* other programs do to the files and the output name, its steps are those of
\* AtomicBatch.
THEOREM CommandIsAtomic == Spec => BatchIsAtomic
<1>1. Init => Atomic!Init
  <2> SUFFICES ASSUME Init PROVE Atomic!Init
    OBVIOUS
  <2>1. \A i \in Inputs : ran[i] # "report"
    BY DEF Init, Pool!Init, Inputs, Pool!Inputs, NotRun
  <2>2. Made = [i \in Inputs |-> <<>>] /\ Inputs = Atomic!Inputs
    BY <2>1 DEF Made, Inputs, Pool!Inputs, Atomic!Inputs
  <2>3. output \in {NoOutput, [owner |-> "other"]}
    BY DEF Init
  <2> QED  BY <2>2, <2>3 DEF Atomic!Init, Atomic!Nobody, Atomic!Other, NoOutput, Made
<1>2. IInv /\ SnapshotInv /\ [Next]_vars => SnapshotInv'
  BY NextSnapshot
<1>3. IInv /\ SnapshotInv /\ SnapshotInv' /\ [Next]_vars => [Atomic!Next]_(Atomic!vars)
  BY NextAtomic
<1> QED
  BY <1>1, <1>2, <1>3, InitSnapshot, Invariance, PTL DEF Spec, BatchIsAtomic, Atomic!Spec

================================================================================
