--------------------------- MODULE BatchTrialBalance ----------------------------
(****************************************************************************)
(* batch-trial-balance (batch_trial_balance.rs, snapshot_file, attest_file  *)
(* and snapshot_still_matches of batch_extract.rs): one report per manifest *)
(* row, all of them or no output.  Each job of the pool of BatchScheduler   *)
(* reads its company file into memory, decodes the bytes, reads the file    *)
(* once more to see that it still has them, and reports; other programs     *)
(* write the files, or put others in their place, at any time.              *)
(*                                                                          *)
(* A file is a sequence of chunks, each read by one call (HASH_BUFFER_BYTES);*)
(* a digest stands for the content it is of.                                *)
(****************************************************************************)
EXTENDS Naturals, Sequences

CONSTANTS
    InputCount, Requested, MaxWorkers,  \* as in BatchScheduler
    MaxLength,  \* MAX_SNAPSHOT_FILE_BYTES, in chunks
    MaxWrites,  \* bound on the writes of other programs
    Worlds,     \* what the writes of other programs are like, see below
    Gone        \* a path that leads to no file

ASSUME BatchTrialBalanceAssumption ==
    /\ InputCount \in Nat /\ Requested \in Nat /\ MaxWorkers \in Nat \ {0}
    /\ MaxLength \in Nat /\ MaxWrites \in Nat
    /\ Worlds \subseteq {"coarse", "recurring"}
    /\ Gone \notin Nat

Outcomes == {"report", "rejected", "inputError"}
NotRun == "none"

VARIABLES
    main, spawned, next, worker, holding, channel, gathered, results, ran,
    job,        \* of each worker: where it is with its input
    path,       \* of each input: its inode, or Gone
    disk,       \* of each inode: content and modification time
    writes,     \* writes of other programs so far
    world,      \* "coarse": a write may leave the modification time as it was;
                \* "recurring": it may bring an earlier content back
    reports,    \* of each reported input: the bytes its report was made from
    cmd,        \* the calling thread, around the pool
    rows,       \* the reports to be written, in order
    output,     \* the consolidated output
    history,    \* ghost: the contents each input has had
    disturbed   \* ghost: was the input written while its bytes were decoded?

Pool == INSTANCE BatchScheduler
Inputs == Pool!Inputs
Workers == Pool!Workers

poolVars == <<main, spawned, next, worker, holding, channel, gathered, results, ran>>
fileVars == <<path, disk, writes, world, history, disturbed>>
cmdVars == <<cmd, rows, output>>
vars == <<poolVars, job, reports, fileVars, cmdVars>>

NoJob == [phase |-> "none"]
NoOutput == [owner |-> "nobody"]
Chunks == 0..(MaxWrites + 1)
Coarse == world = "coarse"
Recurring == world = "recurring"
NewChunks == IF Recurring THEN {0, 1} ELSE {writes + 1}

Init ==
    /\ Pool!Init
    /\ job = [w \in Workers |-> NoJob]
    /\ path = [i \in Inputs |-> i]
    /\ disk = [n \in 0..(InputCount + MaxWrites - 1) |-> [content |-> <<0, 0>>, mtime |-> 0]]
    /\ writes = 0
    /\ world \in Worlds
    /\ history = [i \in Inputs |-> {<<0, 0>>}]
    /\ disturbed = [i \in Inputs |-> FALSE]
    /\ reports = [i \in Inputs |-> <<>>]
    /\ cmd = "start"
    /\ rows = <<>>
    /\ output \in {NoOutput, [owner |-> "other"]}

--------------------------------------------------------------------------------
(* Other programs *)

\* The input i is put on inode n with a new content.
Written(i, n, content) ==
    /\ writes < MaxWrites
    /\ Recurring \/ content \notin history[i]
    /\ writes' = writes + 1
    /\ \E t \in {writes + 1} \cup (IF Coarse THEN {disk[n].mtime} ELSE {}) :
          disk' = [disk EXCEPT ![n] = [content |-> content, mtime |-> t]]
    /\ path' = [path EXCEPT ![i] = n]
    /\ history' = [history EXCEPT ![i] = @ \cup {content}]
    /\ disturbed' = [disturbed EXCEPT ![i] =
                        @ \/ \E w \in Workers : holding[w] = i /\ job[w].phase = "decode"]
    /\ UNCHANGED <<world, poolVars, job, reports, cmdVars>>

\* In place: one chunk over, or all of them, one more, or the last one off.
WriteInPlace(i) ==
    /\ path[i] # Gone
    /\ LET content == disk[path[i]].content IN
       \/ \E k \in DOMAIN content, c \in NewChunks :
             Written(i, path[i], [content EXCEPT ![k] = c])
       \/ \E c \in NewChunks : Written(i, path[i], [k \in DOMAIN content |-> c])
       \/ \E c \in NewChunks : Written(i, path[i], Append(content, c))
       \/ content # <<>> /\ Written(i, path[i], SubSeq(content, 1, Len(content) - 1))

\* By a new file of the same name; open files keep the old one.
Replace(i) ==
    \E c, d \in NewChunks : Written(i, InputCount + writes, <<c, d>>)

Remove(i) ==
    /\ path[i] # Gone
    /\ path' = [path EXCEPT ![i] = Gone]
    /\ UNCHANGED <<world, poolVars, job, reports, disk, writes, history, disturbed, cmdVars>>

TakeOutputName ==
    /\ output = NoOutput
    /\ output' = [owner |-> "other"]
    /\ UNCHANGED <<poolVars, job, reports, fileVars, cmd, rows>>

--------------------------------------------------------------------------------
(* A job.  The pool sees the whole of it as RunOne. *)

Step(w) == UNCHANGED <<poolVars, reports, fileVars, cmdVars>>

\* run_one ends with outcome o; a panic of the processor ends the worker.
Return(w, o) ==
    /\ Pool!RunOne(w)
    /\ worker'[w] = "sending" /\ ran'[holding[w]] = o
    /\ reports' = IF o = "report"
                  THEN [reports EXCEPT ![holding[w]] = job[w].kept] ELSE reports
    /\ job' = [job EXCEPT ![w] = NoJob]
    /\ UNCHANGED <<fileVars, cmdVars>>

Panic(w) ==
    /\ job[w].phase \in {"decode", "report"}
    /\ Pool!RunOne(w)
    /\ worker'[w] = "panicked"
    /\ job' = [job EXCEPT ![w] = NoJob]
    /\ UNCHANGED <<reports, fileVars, cmdVars>>

\* A failed first reading is an input error, a failed second one a rejection.
Unreadable(w) == Return(w, IF job[w].pass = 1 THEN "inputError" ELSE "rejected")

Take(w) ==
    /\ Pool!Take(w)
    /\ job' = [job EXCEPT ![w] =
                  IF worker'[w] = "working" THEN [phase |-> "stat", pass |-> 1, kept |-> <<>>]
                  ELSE NoJob]
    /\ UNCHANGED <<reports, fileVars, cmdVars>>

Readable(w) ==
    LET p == path[holding[w]] IN p # Gone /\ Len(disk[p].content) <= MaxLength

\* fs::metadata: the length and the time that the reading is held to.
Stat(w) ==
    /\ job[w].phase = "stat"
    /\ \/ /\ Readable(w)
          /\ LET file == disk[path[holding[w]]] IN
             job' = [job EXCEPT ![w] =
                        [phase |-> "open", pass |-> @.pass, kept |-> @.kept,
                         length |-> Len(file.content), mtime |-> file.mtime]]
          /\ Step(w)
       \/ ~Readable(w) /\ Unreadable(w)

\* File::open: from here on the reading stays with this inode.
Open(w) ==
    /\ job[w].phase = "open"
    /\ \/ /\ path[holding[w]] # Gone
          /\ job' = [job EXCEPT ![w] =
                        [phase |-> "read", pass |-> @.pass, kept |-> @.kept,
                         length |-> @.length, mtime |-> @.mtime,
                         inode |-> path[holding[w]], bytes |-> <<>>]]
          /\ Step(w)
       \/ path[holding[w]] = Gone /\ Unreadable(w)

\* Mutant: what exceeds the expected length is found at the end of the file.
ReadUnbounded(w) ==
    /\ job[w].phase = "read"
    /\ LET content == disk[job[w].inode].content
           k == Len(job[w].bytes) + 1
       IN \/ /\ k <= Len(content)
             /\ job' = [job EXCEPT ![w].bytes = Append(@, content[k])]
             /\ Step(w)
          \/ /\ k > Len(content) /\ Len(job[w].bytes) = job[w].length
             /\ job' = [job EXCEPT ![w].phase = "restat"]
             /\ Step(w)
          \/ k > Len(content) /\ Len(job[w].bytes) # job[w].length /\ Unreadable(w)

\* One call of read: a chunk of the expected ones, one too many, or the end.
Read(w) ==
    /\ job[w].phase = "read"
    /\ LET content == disk[job[w].inode].content
           k == Len(job[w].bytes) + 1
           more == k <= Len(content)
       IN \/ /\ more /\ k <= job[w].length
             /\ job' = [job EXCEPT ![w].bytes = Append(@, content[k])]
             /\ Step(w)
          \/ /\ ~more /\ k > job[w].length
             /\ job' = [job EXCEPT ![w].phase = "restat"]
             /\ Step(w)
          \/ more /\ k > job[w].length /\ Unreadable(w)
          \/ ~more /\ k <= job[w].length /\ Unreadable(w)

Unchanged(w) ==
    LET p == path[holding[w]] IN
    p # Gone /\ Len(disk[p].content) = job[w].length /\ disk[p].mtime = job[w].mtime

\* Mutant: of the second reading only the length is compared.
RestatSameLength(w) ==
    /\ job[w].phase = "restat"
    /\ \/ /\ Unchanged(w)
          /\ \/ /\ job[w].pass = 1
                /\ job' = [job EXCEPT ![w] = [phase |-> "decode", kept |-> @.bytes]]
             \/ /\ job[w].pass = 2 /\ Len(job[w].bytes) = Len(job[w].kept)
                /\ job' = [job EXCEPT ![w] = [phase |-> "report", kept |-> @.kept]]
          /\ Step(w)
       \/ ~Unchanged(w) /\ Unreadable(w)

\* fs::metadata again; the second reading must find the bytes of the first.
Restat(w) ==
    /\ job[w].phase = "restat"
    /\ \/ /\ Unchanged(w)
          /\ \/ /\ job[w].pass = 1
                /\ job' = [job EXCEPT ![w] = [phase |-> "decode", kept |-> @.bytes]]
             \/ /\ job[w].pass = 2 /\ job[w].bytes = job[w].kept
                /\ job' = [job EXCEPT ![w] = [phase |-> "report", kept |-> @.kept]]
          /\ Step(w)
       \/ ~Unchanged(w) /\ Unreadable(w)
       \/ job[w].pass = 2 /\ job[w].bytes # job[w].kept /\ Unreadable(w)

\* build_ledger on the bytes of the first reading.
Decode(w) ==
    /\ job[w].phase = "decode"
    /\ \/ /\ job' = [job EXCEPT ![w] = [phase |-> "stat", pass |-> 2, kept |-> @.kept]]
          /\ Step(w)
       \/ Return(w, "rejected")

\* The Trial Balance of the ledger, or a refusal (see Ledger).
Report(w) ==
    /\ job[w].phase = "report"
    /\ \E o \in {"report", "rejected"} : Return(w, o)

--------------------------------------------------------------------------------
(* The calling thread *)

\* An output that exists, a date that does not parse, a fiscal year that starts
\* after the report: refused before any file is opened.
Start ==
    /\ cmd = "start"
    /\ cmd' \in IF output = NoOutput THEN {"scheduling", "failed"} ELSE {"failed"}
    /\ UNCHANGED <<poolVars, job, reports, fileVars, rows, output>>

\* schedule_snapshot_jobs, but for what its workers do.
Schedule ==
    /\ cmd = "scheduling"
    /\ Pool!MainStep
    /\ cmd' = CASE main' = "returned" -> "collecting"
               [] main' = "rejected" -> "failed"
               [] main' = "panicked" -> "panicked"
               [] OTHER -> cmd
    /\ UNCHANGED <<job, reports, fileVars, rows, output>>

Row(i) == [index |-> i, bytes |-> reports[i]]

\* Mutant: rows without a report are left out.
CollectReported ==
    /\ cmd = "collecting"
    /\ rows' = SelectSeq([k \in 1..InputCount |-> Row(k - 1)],
                         LAMBDA r : results[r.index] = "report")
    /\ cmd' = "writing"
    /\ UNCHANGED <<poolVars, job, reports, fileVars, output>>

Collect ==
    /\ cmd = "collecting"
    /\ \/ /\ \A i \in Inputs : results[i] = "report"
          /\ rows' = [k \in 1..InputCount |-> Row(k - 1)]
          /\ cmd' = "writing"
       \/ /\ \E i \in Inputs : results[i] # "report"
          /\ cmd' = "failed"
          /\ UNCHANGED rows
    /\ UNCHANGED <<poolVars, job, reports, fileVars, output>>

\* write_consolidated_sqlite: the staged database is written and synced, or the
\* stage is removed.
Write ==
    /\ cmd = "writing"
    /\ cmd' \in {"publishing", "failed"}
    /\ UNCHANGED <<poolVars, job, reports, fileVars, rows, output>>

\* Mutant: published by a rename, over whatever has the name by then.
PublishOver ==
    /\ cmd = "publishing"
    /\ \/ /\ output' = [owner |-> "us", rows |-> rows]
          /\ cmd' \in {"succeeded", "failed"}
       \/ cmd' = "failed" /\ UNCHANGED output
    /\ UNCHANGED <<poolVars, job, reports, fileVars, rows>>

\* publish_staged_path, never forced (see Publication): a link to a name that
\* must be free.  The call also fails when it cannot unlink the stage then.
Publish ==
    /\ cmd = "publishing"
    /\ \/ /\ output = NoOutput
          /\ output' = [owner |-> "us", rows |-> rows]
          /\ cmd' \in {"succeeded", "failed"}
       \/ cmd' = "failed" /\ UNCHANGED output
    /\ UNCHANGED <<poolVars, job, reports, fileVars, rows>>

Ended == cmd \in {"succeeded", "failed", "panicked"}
Terminated == Ended /\ UNCHANGED vars

Others ==
    \/ \E i \in Inputs : WriteInPlace(i) \/ Replace(i) \/ Remove(i)
    \/ TakeOutputName
Command == Start \/ Schedule \/ Collect \/ Write \/ Publish
Send(w) == Pool!Send(w) /\ UNCHANGED <<job, reports, fileVars, cmdVars>>
Worker(w) ==
    \/ Take(w) \/ Stat(w) \/ Open(w) \/ Read(w) \/ Restat(w)
    \/ Decode(w) \/ Report(w) \/ Panic(w) \/ Send(w)

Next == Command \/ (\E w \in Workers : Worker(w)) \/ Others \/ Terminated
Spec == Init /\ [][Next]_vars

--------------------------------------------------------------------------------
Contents == Seq(Chunks)
Jobs ==
    {NoJob}
    \cup [phase : {"stat"}, pass : {1, 2}, kept : Contents]
    \cup [phase : {"open"}, pass : {1, 2}, kept : Contents, length : Nat, mtime : Nat]
    \cup [phase : {"read", "restat"}, pass : {1, 2}, kept : Contents, length : Nat,
          mtime : Nat, inode : DOMAIN disk, bytes : Contents]
    \cup [phase : {"decode", "report"}, kept : Contents]

\* A worker has a job exactly as long as it runs one, a path leads to an inode,
\* and the pool has returned before there is anything to collect or write.
TypeOK ==
    /\ job \in [Workers -> Jobs]
    /\ \A w \in Workers : job[w] # NoJob <=> worker[w] = "working"
    /\ disk \in [0..(InputCount + MaxWrites - 1) -> [content : Contents, mtime : Nat]]
    /\ path \in [Inputs -> DOMAIN disk \cup {Gone}]
    /\ writes \in 0..MaxWrites
    /\ reports \in [Inputs -> Contents]
    /\ cmd \in {"start", "scheduling", "collecting", "writing", "publishing",
                "succeeded", "failed", "panicked"}
    /\ cmd \in {"collecting", "writing", "publishing"} => main = "returned"

\* The command with its workers, its readings chunk by chunk, its staged output
\* and the writes of others in between does what AtomicBatch does in single steps:
\* no report is of a mixture of contents, none is made twice or of another company's
\* file, nothing is published before the last of them, in another order or in parts,
\* and what the name stood for when it was published is never lost.
Atomic == INSTANCE AtomicBatch
    WITH made <- [i \in Inputs |-> IF ran[i] = "report" THEN <<reports[i]>> ELSE <<>>]
BatchIsAtomic == Atomic!Spec

\* All or nothing: an output of this run has one row per manifest row, in
\* manifest order, each of a report that was made from that row's file.
AllOrNothing ==
    (output # NoOutput /\ output.owner = "us") =>
        /\ Len(output.rows) = InputCount
        /\ \A i \in Inputs : ran[i] = "report" /\ output.rows[i + 1] = Row(i)

\* Neither torn nor stale: a report is made from a content its file had at one
\* instant, although the file is read chunk by chunk while others write it; and
\* nobody wrote the file while the bytes of a report were decoded ("a source
\* mutation between scheduler read and decoder read fails closed"), which takes
\* no help from modification times as long as no earlier content comes back.
ReportIsInstant ==
    \A i \in Inputs :
        ran[i] = "report" => reports[i] \in history[i] /\ (Recurring \/ ~disturbed[i])

\* Memory is bounded by what was reserved: no reading of a file that grows goes
\* beyond the length it was found to have, nor that beyond the limit.
BoundedReading ==
    \A w \in Workers :
        /\ job[w].phase \in {"open", "read", "restat"} => job[w].length <= MaxLength
        /\ job[w].phase \in {"read", "restat"} => Len(job[w].bytes) <= job[w].length
================================================================================
