SPECIFICATION Spec
CONSTANTS
    p1 = p1
    p2 = p2
    p3 = p3
    oldFile = oldFile
    oldDir = oldDir
    Source = Source
    EmptyDir = EmptyDir
    Nothing = Nothing
    Publishers <- MCPublishers
    Guarded <- MCGuarded
    Forced <- MCGuarded
    DirPublishers <- MCDirectory
    Others <- MCOthers
    OtherDirs <- MCOtherDirs
    MaxSwaps = 2
INVARIANTS
    OnlyCompleteArtifacts
    InputNeverSetAside
PROPERTIES
    UnforcedNeverReplaces
    OnlyRestoreDestroys
    FailureLeavesOutput
