--------------------------- MODULE PublicationProofs ---------------------------
(****************************************************************************)
(* Safety of publication, for any number of publishers, outputs and swaps.  *)
(****************************************************************************)
EXTENDS Publication, TLAPS

\* The labels at which a publisher has not set anything aside.
BeforeAside == {"ensure", "write", "checkInput", "checkAlias", "compareAlias",
                "checkOccupied", "moveAside"}

\* The labels at which the artifact may already have been placed.
AfterPlace == {"unlinkStage", "checkRestore", "restore"} \cup Final

\* A place other than its stage names the artifact of p.
Placed(p) == dest = p \/ \E q \in Publishers : backup[q] = p

\* Past the writer the artifact is complete.
WrittenPastWrite ==
    \A p \in Publishers :
        pc[p] \notin {"ensure", "write", "failed", "crashed"} => written[p]

\* Only a publisher that was placed, hence written, can be named elsewhere.
PlacedIsWritten ==
    \A p \in Publishers : Placed(p) => written[p] /\ pc[p] \in AfterPlace

\* Nothing is aside before the rename that sets it aside.
AsideAfterMove ==
    \A p \in Publishers : pc[p] \in BeforeAside => backup[p] = Nothing

\* Only --force leads past the rename that sets an output aside.
UnforcedMovesNothing ==
    \A p \in Publishers \ Forced :
        /\ backup[p] = Nothing
        /\ pc[p] \notin {"moveAside", "recheckInput", "recompare",
                         "checkRestore", "restore"}

IInv ==
    /\ TypeOK
    /\ UnforcedMovesNothing
    /\ WrittenPastWrite
    /\ PlacedIsWritten
    /\ AsideAfterMove
    /\ InputNeverSetAside

--------------------------------------------------------------------------------
\* Before the first step no publisher holds a stage, a backup or a reading.
LEMMA InitIInv == Init => IInv
  BY PublicationAssumption
  DEF Init, IInv, TypeOK, WrittenPastWrite, PlacedIsWritten, Placed, AsideAfterMove, UnforcedMovesNothing,
      InputNeverSetAside, Items, Labels, Final, BeforeAside, AfterPlace

\* Every step of a publisher keeps the inductive invariant.
LEMMA StepIInv ==
    ASSUME IInv, NEW p \in Publishers, Step(p)
    PROVE  IInv'
<1> USE PublicationAssumption
    DEF IInv, TypeOK, WrittenPastWrite, PlacedIsWritten, Placed, AsideAfterMove, UnforcedMovesNothing,
        InputNeverSetAside, Items, Labels, Final, BeforeAside, AfterPlace,
        Goto, Fail, SameFile, CanReplace, PlaceFailed
<1>1. CASE EnsureSafeDestination(p)  BY <1>1 DEF EnsureSafeDestination
<1>2. CASE WriteStage(p)
  <2>1. CASE pc'[p] = "failed"        BY <1>2, <2>1 DEF WriteStage
  <2>2. CASE pc'[p] # "failed"
    <3>1. written' = [written EXCEPT ![p] = TRUE]
      BY <1>2, <2>2 DEF WriteStage
    <3>2. pc' = [pc EXCEPT ![p] = "checkInput"] \/ pc' = [pc EXCEPT ![p] = "checkOccupied"]
      BY <1>2, <2>2 DEF WriteStage
    <3>3. UNCHANGED <<dest, input, stage, backup, swaps>>
      BY <1>2, <2>2 DEF WriteStage
    <3>4. TypeOK'                     BY <3>1, <3>2, <3>3
    <3>5. WrittenPastWrite'           BY <3>1, <3>2, <3>3
    <3>6. PlacedIsWritten'            BY <1>2, <3>1, <3>2, <3>3 DEF WriteStage
    <3>7. AsideAfterMove' /\ UnforcedMovesNothing' /\ InputNeverSetAside'
      BY <1>2, <3>1, <3>2, <3>3 DEF WriteStage
    <3>8. QED  BY <3>4, <3>5, <3>6, <3>7
  <2>3. QED  BY <2>1, <2>2
<1>3. CASE CheckInput(p)             BY <1>3 DEF CheckInput
<1>4. CASE CheckAlias(p)             BY <1>4 DEF CheckAlias
<1>5. CASE CompareAlias(p)           BY <1>5 DEF CompareAlias
<1>6. CASE CheckOccupied(p)          BY <1>6 DEF CheckOccupied
<1>7. CASE MoveAside(p)              BY <1>7 DEF MoveAside
<1>8. CASE RecheckInput(p)           BY <1>8 DEF RecheckInput
<1>9. CASE Recompare(p)              BY <1>9 DEF Recompare
<1>10. CASE Place(p)                 BY <1>10 DEF Place
<1>11. CASE UnlinkStage(p)           BY <1>11 DEF UnlinkStage
<1>12. CASE CheckRestore(p)          BY <1>12 DEF CheckRestore
<1>13. CASE Restore(p)               BY <1>13 DEF Restore
<1>14. QED
  BY <1>1, <1>2, <1>3, <1>4, <1>5, <1>6, <1>7, <1>8, <1>9, <1>10, <1>11,
     <1>12, <1>13 DEF Step

\* So do a crash, another program's swap and a stuttering step.
LEMMA NextIInv == IInv /\ [Next]_vars => IInv'
<1> SUFFICES ASSUME IInv, [Next]_vars PROVE IInv'
  OBVIOUS
<1>1. ASSUME NEW p \in Publishers, Step(p) PROVE IInv'
  BY <1>1, StepIInv
<1> USE PublicationAssumption
    DEF IInv, TypeOK, WrittenPastWrite, PlacedIsWritten, Placed, AsideAfterMove, UnforcedMovesNothing,
        InputNeverSetAside, Items, Labels, Final, BeforeAside, AfterPlace, Goto
<1>2. ASSUME NEW p \in Publishers, Crash(p) PROVE IInv'
  BY <1>2 DEF Crash
<1>3. CASE SwapDestination
  BY <1>3 DEF SwapDestination
<1>4. CASE SwapInput
  BY <1>4 DEF SwapInput
<1>5. CASE UNCHANGED vars
  BY <1>5 DEF vars
<1>6. QED
  BY <1>1, <1>2, <1>3, <1>4, <1>5 DEF Next, Settled

\* The inductive invariant holds whatever publishers and other programs do.
THEOREM Invariance == Spec => []IInv
  BY InitIInv, NextIInv, PTL DEF Spec

\* A reader, a crash or a later publisher never meets a partial artifact under
\* the destination's name or a backup's.
THEOREM CompleteArtifacts == Spec => []OnlyCompleteArtifacts
<1>1. IInv => OnlyCompleteArtifacts
  BY DEF IInv, PlacedIsWritten, Placed, OnlyCompleteArtifacts
<1>2. QED  BY <1>1, Invariance, PTL

\* No publication that goes ahead has renamed the protected input.
THEOREM InputStays == Spec => []InputNeverSetAside
<1>1. IInv => InputNeverSetAside
  BY DEF IInv
<1>2. QED  BY <1>1, Invariance, PTL

--------------------------------------------------------------------------------
\* A step that is not p's leaves p's label alone.
LEMMA ActsAlone ==
    ASSUME IInv, Next, NEW p \in Publishers, pc'[p] # pc[p]
    PROVE  Step(p) \/ Crash(p)
<1>1. ASSUME NEW q \in Publishers, Step(q), q # p PROVE pc'[p] = pc[p]
  BY <1>1 DEF IInv, TypeOK, Step, EnsureSafeDestination, WriteStage, CheckInput,
     CheckAlias, CompareAlias, CheckOccupied, MoveAside, RecheckInput, Recompare,
     Place, UnlinkStage, CheckRestore, Restore, PlaceFailed, Fail, Goto
<1>2. ASSUME NEW q \in Publishers, Crash(q), q # p PROVE pc'[p] = pc[p]
  BY <1>2 DEF IInv, TypeOK, Crash, Goto
<1>3. QED
  BY <1>1, <1>2 DEF Next, SwapDestination, SwapInput, Settled, vars

\* The check of --force and the create-new link, taken together: between them
\* anything may have appeared, and nothing of it is replaced.
THEOREM UnforcedKeeps == Spec => UnforcedNeverReplaces
<1>1. ASSUME IInv, [Next]_vars, NEW p \in Publishers \ Forced,
             pc'[p] # pc[p], dest' # dest
      PROVE  dest \in {Nothing, EmptyDir}
  <2>1. Step(p) \/ Crash(p)
    BY <1>1, ActsAlone DEF vars
  <2>2. CASE Place(p)
    BY <1>1, <2>2 DEF Place, CanReplace, IsDir, PublicationAssumption
  <2>3. pc[p] # "moveAside" /\ pc[p] # "restore"
    BY <1>1 DEF IInv, UnforcedMovesNothing
  <2>4. QED
    BY <1>1, <2>1, <2>2, <2>3
    DEF Step, Crash, EnsureSafeDestination, WriteStage, CheckInput, CheckAlias,
        CompareAlias, CheckOccupied, MoveAside, RecheckInput, Recompare,
        UnlinkStage, CheckRestore, Restore
<1>2. IInv /\ [Next]_vars =>
        [\A p \in Publishers \ Forced :
            pc'[p] # pc[p] /\ dest' # dest => dest \in {Nothing, EmptyDir}]_vars
  BY <1>1
<1>3. QED
  BY <1>2, Invariance, PTL DEF UnforcedNeverReplaces, Spec

\* Whatever other programs do, a publisher's step takes the last name from no
\* file but its own stage, an empty directory or, in the restoring rename, what
\* has just appeared.  MoveAside and Place rename or link onto unused names.
THEOREM NothingElseDestroyed == Spec => OnlyRestoreDestroys
<1>1. ASSUME IInv, [Next]_vars, NEW p \in Publishers, NEW x \in Items,
             pc'[p] # pc[p], Linked(x), ~Linked(x)', x # p, x # EmptyDir,
             pc[p] # "restore"
      PROVE  FALSE
  <2>1. Step(p) \/ Crash(p)
    BY <1>1, ActsAlone DEF vars
  <2>2. CASE MoveAside(p)
    <3>1. backup[p] = Nothing
      BY <1>1, <2>2 DEF MoveAside, IInv, AsideAfterMove, BeforeAside
    <3>2. QED
      BY <1>1, <2>2, <3>1, PublicationAssumption
      DEF MoveAside, Linked, IInv, TypeOK, Items, Fail
  <2>3. CASE Place(p)
    BY <1>1, <2>3, PublicationAssumption
    DEF Place, PlaceFailed, Linked, IInv, TypeOK, Items, Fail, CanReplace, IsDir
  <2>4. CASE ~MoveAside(p) /\ ~Place(p)
    <3>1. dest' = dest /\ input' = input /\ backup' = backup
      BY <1>1, <2>1, <2>4
      DEF Step, Crash, EnsureSafeDestination, WriteStage, CheckInput, CheckAlias,
          CompareAlias, CheckOccupied, RecheckInput, Recompare, UnlinkStage,
          CheckRestore, Restore
    <3>2. \A q \in Publishers : stage[q] = x => stage'[q] = x
      BY <1>1, <2>1, <2>4, PublicationAssumption
      DEF Step, Crash, EnsureSafeDestination, WriteStage, CheckInput, CheckAlias,
          CompareAlias, CheckOccupied, RecheckInput, Recompare, UnlinkStage,
          CheckRestore, Restore, IInv, TypeOK, Items, Fail, PlaceFailed
    <3>3. QED  BY <1>1, <3>1, <3>2 DEF Linked
  <2>5. QED  BY <2>2, <2>3, <2>4
<1>2. IInv /\ [Next]_vars =>
        [\A p \in Publishers : \A x \in Items :
            pc'[p] # pc[p] /\ Linked(x) /\ ~Linked(x)'
                => x \in {p, EmptyDir} \/ pc[p] = "restore"]_vars
  BY <1>1
<1>3. QED
  BY <1>2, Invariance, PTL DEF OnlyRestoreDestroys, Spec

\* A publisher that gives up after its backup was taken sees an output at the
\* destination, unless the restoring rename itself fails: no error return after
\* the rename is reached with the name free.
THEOREM FailureRestores == Spec => FailureLeavesOutput
<1>1. ASSUME IInv, [Next]_vars, NEW p \in Publishers,
             pc[p] \notin Final \cup {"restore", "recompare"}, backup[p] # Nothing,
             pc'[p] = "failed"
      PROVE  dest # Nothing
  <2>1. pc[p] \in Labels /\ pc[p] \notin BeforeAside \cup {"failed"}
    BY <1>1 DEF IInv, TypeOK, AsideAfterMove, Final
  <2>2. Step(p) \/ Crash(p)
    BY <1>1, <2>1, ActsAlone DEF vars
  <2>3. CASE CheckRestore(p)
    BY <1>1, <2>3 DEF CheckRestore, Goto, IInv, TypeOK
  <2>4. CASE ~CheckRestore(p)
    <3>1. RecheckInput(p) \/ Place(p) \/ UnlinkStage(p) \/ Crash(p)
      BY <1>1, <2>1, <2>2, <2>4
      DEF Step, EnsureSafeDestination, WriteStage, CheckInput, CheckAlias, CompareAlias,
          CheckOccupied, MoveAside, Recompare, Restore, BeforeAside
    <3>2. pc'[p] # "failed"
      BY <1>1, <3>1 DEF RecheckInput, Place, PlaceFailed, UnlinkStage, Crash, Goto, IInv, TypeOK
    <3>3. QED  BY <1>1, <3>2
  <2>5. QED  BY <2>3, <2>4
<1>2. IInv /\ [Next]_vars =>
        [\A p \in Publishers :
            pc[p] \notin Final \cup {"restore", "recompare"} /\ backup[p] # Nothing
                => (pc'[p] = "failed" => dest # Nothing)]_vars
  BY <1>1
<1>3. QED
  BY <1>2, Invariance, PTL DEF FailureLeavesOutput, Spec

\* The types of publishers' state and of what the names lead to, for any number
\* of publishers and foreign items.
THEOREM TypeCorrect == Spec => []TypeOK
<1>1. IInv => TypeOK
  BY DEF IInv
<1>2. QED  BY <1>1, Invariance, PTL
================================================================================
