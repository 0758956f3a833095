------------------------------ MODULE Publication ------------------------------
(****************************************************************************)
(* How openqbw-cli processes publish one output path (main.rs:              *)
(* ensure_safe_destination, write_staged_file, publish_staged_path).        *)
(*                                                                          *)
(* Every publisher is a process that writes its artifact in a private stage *)
(* beside the destination and then moves it into place.  All publishers,    *)
(* and other programs, race on the same destination; a process may crash    *)
(* between any two system calls.  A file or directory is identified by its  *)
(* inode: publisher p's artifact is the value p itself, so that two paths   *)
(* holding the same value are hard links of one file.                       *)
(****************************************************************************)
EXTENDS Naturals, FiniteSets

CONSTANTS
    Publishers,     \* the racing processes
    Guarded,        \* those that protect an input file (all but batch runs)
    Forced,         \* those started with --force
    DirPublishers,  \* those whose artifact is a directory (migrate-csv)
    Others,         \* outputs of other programs
    OtherDirs,      \* those of Others that are non-empty directories
    Source,         \* the protected input file
    EmptyDir,       \* an empty directory, which rename may replace
    Nothing,        \* an unused path
    MaxSwaps        \* bound: how often other programs touch these paths

Items == Publishers \cup Others \cup {Source, EmptyDir}

ASSUME PublicationAssumption ==
    /\ Guarded \subseteq Publishers
    /\ Forced \subseteq Guarded       \* batch publication passes force = false
    /\ DirPublishers \subseteq Guarded
    /\ OtherDirs \subseteq Others
    /\ Nothing \notin Items
    /\ Publishers \cap (Others \cup {Source, EmptyDir}) = {}
    /\ Others \cap {Source, EmptyDir} = {}
    /\ Source # EmptyDir
    /\ MaxSwaps \in Nat

VARIABLES
    dest,      \* what the destination path names
    input,     \* what the protected input path names
    stage,     \* per publisher: what its private stage path names
    backup,    \* per publisher: what its backup path names
    written,   \* per publisher: the artifact is complete
    pc,        \* per publisher: the next system call
    swaps      \* how often other programs intervened so far

vars == <<dest, input, stage, backup, written, pc, swaps>>

Final == {"ok", "failed", "crashed"}
Labels == {"ensure", "write", "checkInput", "checkAlias", "compareAlias",
           "checkOccupied", "moveAside", "recheckInput", "recompare",
           "place", "unlinkStage", "checkRestore", "restore"} \cup Final

\* The type of the state.  A stage names its owner's artifact or nothing, and
\* nobody sets its own artifact aside.
TypeOK ==
    /\ dest \in Items \cup {Nothing}
    /\ input \in {Source, Nothing}
    /\ DOMAIN stage = Publishers
    /\ \A p \in Publishers : stage[p] \in {p, Nothing}
    /\ backup \in [Publishers -> Items \cup {Nothing}]
    /\ written \in [Publishers -> BOOLEAN]
    /\ pc \in [Publishers -> Labels]
    /\ swaps \in 0..MaxSwaps
    /\ \A p \in Publishers : backup[p] # p

IsDir(x) == x \in DirPublishers \cup OtherDirs \cup {EmptyDir}

\* rename(2) of item x onto a path that names y: absent targets, files over
\* files and directories over an empty directory.
CanReplace(x, y) ==
    \/ y = Nothing
    \/ ~IsDir(x) /\ ~IsDir(y)
    \/ IsDir(x) /\ y = EmptyDir

Init ==
    /\ dest \in Others \cup {Nothing, EmptyDir}
    /\ input = Source
    /\ stage = [p \in Publishers |-> Nothing]
    /\ backup = [p \in Publishers |-> Nothing]
    /\ written = [p \in Publishers |-> FALSE]
    /\ pc = [p \in Publishers |-> "ensure"]
    /\ swaps = 0

--------------------------------------------------------------------------------
Goto(p, l) == pc' = [pc EXCEPT ![p] = l]

\* Every error return removes the stage: explicitly, or by dropping the TempDir.
Fail(p) ==
    /\ Goto(p, "failed")
    /\ stage' = [stage EXCEPT ![p] = Nothing]

\* same_file(input, path), once both paths are known to exist.
SameFile(x) == input = x

\* The early refusal of the callers, before anything is staged.  It is only
\* advisory, publication checks again, so its calls are one step.
EnsureSafeDestination(p) ==
    /\ pc[p] = "ensure"
    /\ \/ /\ dest # Nothing
          /\ \/ p \notin Forced
             \/ p \in Guarded /\ (input = Nothing \/ SameFile(dest))
          /\ Fail(p)
          /\ UNCHANGED written
       \/ /\ dest = Nothing \/ p \in Forced
          /\ dest = Nothing \/ (input # Nothing /\ ~SameFile(dest))
          /\ Goto(p, "write")
          /\ stage' = [stage EXCEPT ![p] = p]
          /\ UNCHANGED written
    /\ UNCHANGED <<dest, input, backup, swaps>>

\* Mutant: a failed write is published all the same.
WriteStagePublishesPartial(p) ==
    /\ pc[p] = "write"
    /\ \/ written' = [written EXCEPT ![p] = TRUE]
       \/ UNCHANGED written
    /\ Goto(p, IF p \in Guarded THEN "checkInput" ELSE "checkOccupied")
    /\ UNCHANGED <<dest, input, stage, backup, swaps>>

\* The writer fills the stage, or fails and the stage is removed.
WriteStage(p) ==
    /\ pc[p] = "write"
    /\ \/ /\ written' = [written EXCEPT ![p] = TRUE]
          /\ Goto(p, IF p \in Guarded THEN "checkInput" ELSE "checkOccupied")
          /\ UNCHANGED stage
       \/ /\ Fail(p)
          /\ UNCHANGED written
    /\ UNCHANGED <<dest, input, backup, swaps>>

CheckInput(p) ==
    /\ pc[p] = "checkInput"
    /\ \/ input # Nothing /\ Goto(p, "checkAlias") /\ UNCHANGED stage
       \/ input = Nothing /\ Fail(p)
    /\ UNCHANGED <<dest, input, backup, written, swaps>>

\* same_file returns false at once when the destination does not exist.
CheckAlias(p) ==
    /\ pc[p] = "checkAlias"
    /\ Goto(p, IF dest = Nothing THEN "checkOccupied" ELSE "compareAlias")
    /\ UNCHANGED <<dest, input, stage, backup, written, swaps>>

\* canonicalize reports an error for a path that has disappeared since.
CompareAlias(p) ==
    /\ pc[p] = "compareAlias"
    /\ \/ /\ input = Nothing \/ dest = Nothing \/ SameFile(dest)
          /\ Fail(p)
       \/ /\ input # Nothing /\ dest # Nothing /\ ~SameFile(dest)
          /\ Goto(p, "checkOccupied")
          /\ UNCHANGED stage
    /\ UNCHANGED <<dest, input, backup, written, swaps>>

CheckOccupied(p) ==
    /\ pc[p] = "checkOccupied"
    /\ \/ dest = Nothing /\ Goto(p, "place") /\ UNCHANGED stage
       \/ dest # Nothing /\ p \in Forced /\ Goto(p, "moveAside") /\ UNCHANGED stage
       \/ dest # Nothing /\ p \notin Forced /\ Fail(p)
    /\ UNCHANGED <<dest, input, backup, written, swaps>>

\* Mutants: no second identity check; the old output deleted, not renamed; an
\* output that has gone since the check is waited for.
MoveAsideUnchecked(p) ==
    /\ pc[p] = "moveAside"
    /\ \/ /\ dest # Nothing
          /\ backup' = [backup EXCEPT ![p] = dest]
          /\ dest' = Nothing
          /\ Goto(p, "place")
          /\ UNCHANGED stage
       \/ /\ Fail(p)
          /\ UNCHANGED <<dest, backup>>
    /\ UNCHANGED <<input, written, swaps>>

MoveAsideDeletes(p) ==
    /\ pc[p] = "moveAside"
    /\ dest' = Nothing
    /\ Goto(p, "place")
    /\ UNCHANGED <<input, stage, backup, written, swaps>>

MoveAsideWaits(p) ==
    /\ pc[p] = "moveAside"
    /\ dest # Nothing
    /\ backup' = [backup EXCEPT ![p] = dest]
    /\ dest' = Nothing
    /\ Goto(p, "recheckInput")
    /\ UNCHANGED <<input, stage, written, swaps>>

\* rename(destination, backup), the backup name being unused.  It fails when
\* the destination has gone, and may fail for reasons of the file system.
MoveAside(p) ==
    /\ pc[p] = "moveAside"
    /\ \/ /\ dest # Nothing
          /\ backup' = [backup EXCEPT ![p] = dest]
          /\ dest' = Nothing
          /\ Goto(p, IF p \in Guarded THEN "recheckInput" ELSE "place")
          /\ UNCHANGED stage
       \/ /\ Fail(p)
          /\ UNCHANGED <<dest, backup>>
    /\ UNCHANGED <<input, written, swaps>>

RecheckInput(p) ==
    /\ pc[p] = "recheckInput"
    /\ Goto(p, IF input = Nothing THEN "checkRestore" ELSE "recompare")
    /\ UNCHANGED <<dest, input, stage, backup, written, swaps>>

\* The identity of what was set aside.  When the input disappears between
\* exists and canonicalize the error is returned at once, with no restore.
Recompare(p) ==
    /\ pc[p] = "recompare"
    /\ \/ input = Nothing /\ Fail(p)
       \/ /\ input # Nothing
          /\ Goto(p, IF SameFile(backup[p]) THEN "checkRestore" ELSE "place")
          /\ UNCHANGED stage
    /\ UNCHANGED <<dest, input, backup, written, swaps>>

\* Mutant: an error of the final link leaves the old output aside.
PlaceFailedNoRestore(p) == Fail(p)

\* An error of the final rename or link: restore only if a backup was taken.
PlaceFailed(p) ==
    \/ backup[p] # Nothing /\ Goto(p, "checkRestore") /\ UNCHANGED stage
    \/ backup[p] = Nothing /\ Fail(p)

\* Mutant: files are renamed into place, which replaces.
PlaceByRename(p) ==
    /\ pc[p] = "place"
    /\ CanReplace(p, dest)
    /\ dest' = p
    /\ Goto(p, "ok")
    /\ stage' = [stage EXCEPT ![p] = Nothing]
    /\ UNCHANGED <<input, backup, written, swaps>>

\* hard_link never replaces a destination; the rename of a directory may
\* replace an empty one.  Either may also be refused by the file system.
Place(p) ==
    /\ pc[p] = "place"
    /\ \/ /\ p \in DirPublishers
          /\ CanReplace(p, dest)
          /\ dest' = p
          /\ Goto(p, "ok")
          /\ stage' = [stage EXCEPT ![p] = Nothing]
       \/ /\ p \notin DirPublishers
          /\ dest = Nothing
          /\ dest' = p
          /\ Goto(p, "unlinkStage")
          /\ UNCHANGED stage
       \/ /\ PlaceFailed(p)
          /\ UNCHANGED dest
    /\ UNCHANGED <<input, backup, written, swaps>>

UnlinkStage(p) ==
    /\ pc[p] = "unlinkStage"
    /\ \/ /\ stage' = [stage EXCEPT ![p] = Nothing]
          /\ Goto(p, "ok")
       \/ PlaceFailed(p)
    /\ UNCHANGED <<dest, input, backup, written, swaps>>

CheckRestore(p) ==
    /\ pc[p] = "checkRestore"
    /\ \/ dest = Nothing /\ Goto(p, "restore") /\ UNCHANGED stage
       \/ dest # Nothing /\ Fail(p)
    /\ UNCHANGED <<dest, input, backup, written, swaps>>

\* rename(backup, destination): its result is ignored, and it replaces a file
\* that appeared since the check.  Two names of one file are left as they are.
Restore(p) ==
    /\ pc[p] = "restore"
    /\ \/ /\ backup[p] # dest
          /\ CanReplace(backup[p], dest)
          /\ dest' = backup[p]
          /\ backup' = [backup EXCEPT ![p] = Nothing]
       \/ UNCHANGED <<dest, backup>>
    /\ Fail(p)
    /\ UNCHANGED <<input, written, swaps>>

\* The process dies: whatever it had done so far stays on disk.
Crash(p) ==
    /\ pc[p] \notin Final
    /\ Goto(p, "crashed")
    /\ UNCHANGED <<dest, input, stage, backup, written, swaps>>

Step(p) ==
    \/ EnsureSafeDestination(p) \/ WriteStage(p) \/ CheckInput(p)
    \/ CheckAlias(p) \/ CompareAlias(p) \/ CheckOccupied(p) \/ MoveAside(p)
    \/ RecheckInput(p) \/ Recompare(p) \/ Place(p) \/ UnlinkStage(p)
    \/ CheckRestore(p) \/ Restore(p)

--------------------------------------------------------------------------------
\* Other programs replace or remove the destination, also by a hard link of
\* the input, and remove or put back the input.
SwapDestination ==
    /\ swaps < MaxSwaps
    /\ swaps' = swaps + 1
    /\ dest' \in (Others \cup {Nothing, EmptyDir, input}) \ {dest}
    /\ UNCHANGED <<input, stage, backup, written, pc>>

SwapInput ==
    /\ swaps < MaxSwaps
    /\ swaps' = swaps + 1
    /\ input' \in {Source, Nothing} \ {input}
    /\ UNCHANGED <<dest, stage, backup, written, pc>>

\* Every process has ended and nobody touches the paths any more.
Settled ==
    /\ \A p \in Publishers : pc[p] \in Final
    /\ UNCHANGED vars

Next ==
    \/ \E p \in Publishers : Step(p) \/ Crash(p)
    \/ SwapDestination
    \/ SwapInput
    \/ Settled

Spec == Init /\ [][Next]_vars

\* A running process makes its next system call; nobody is obliged to crash.
FairSpec == Spec /\ \A p \in Publishers : WF_vars(Step(p))

--------------------------------------------------------------------------------
Linked(x) ==
    \/ dest = x \/ input = x
    \/ \E p \in Publishers : stage[p] = x \/ backup[p] = x

\* Nothing incomplete is ever published: what the destination or a backup
\* names, if a publisher made it, was completely written before.  The stage
\* exists so that "a failure produces no partial report".
OnlyCompleteArtifacts ==
    \A p \in Publishers :
        (dest = p \/ \E q \in Publishers : backup[q] = p) => written[p]

\* A publication that goes on to place its artifact has not set the protected
\* input aside: the alias that another program swaps in after the first
\* identity check is caught by the second one.
InputNeverSetAside ==
    \A p \in Guarded :
        pc[p] \in {"place", "unlinkStage", "ok"} => backup[p] # Source

\* Without --force a publisher replaces nothing at the destination, whatever
\* appeared there after its checks (hard_link creates, it never replaces; the
\* rename of a directory may take the place of an empty one).
UnforcedNeverReplaces ==
    [][\A p \in Publishers \ Forced :
          pc'[p] # pc[p] /\ dest' # dest => dest \in {Nothing, EmptyDir}]_vars

\* A step of a publisher removes the last name of a file only if that is its
\* own artifact, an empty directory, or if it is the restoring rename.
OnlyRestoreDestroys ==
    [][\A p \in Publishers : \A x \in Items :
          pc'[p] # pc[p] /\ Linked(x) /\ ~Linked(x)'
              => x \in {p, EmptyDir} \/ pc[p] = "restore"]_vars

\* The documentation of publish_staged_path (main.rs:2449): it "never deletes a
\* path that could have been swapped after identity validation".  The
\* restoring rename does, when another process publishes in between.
NeverDeletesSwapped ==
    [][\A p \in Publishers : \A x \in Items \ {p, EmptyDir} :
          pc'[p] # pc[p] /\ Linked(x) => Linked(x)']_vars

\* A publisher that fails with its backup still aside leaves an output at the
\* destination, except when the restoring rename itself fails or the input
\* disappears inside the second identity check.
FailureLeavesOutput ==
    [][\A p \in Publishers :
          pc[p] \notin Final \cup {"restore", "recompare"} /\ backup[p] # Nothing
              => (pc'[p] = "failed" => dest # Nothing)]_vars

\* Every publisher that is not killed comes to an end.
EveryPublisherEnds == \A p \in Publishers : <>(pc[p] \in Final)
================================================================================
