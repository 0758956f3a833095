SPECIFICATION FairSpec
CONSTANTS
    p1 = p1
    p2 = p2
    p3 = p3
    oldFile = oldFile
    oldDir = oldDir
    Source = Source
    EmptyDir = EmptyDir
    Nothing = Nothing
    Publishers <- MCTwo
    Guarded <- MCTwo
    Forced <- MCTwo
    DirPublishers <- MCNone
    Others <- MCOthers
    OtherDirs <- MCOtherDirs
    MaxSwaps = 1
PROPERTIES
    EveryPublisherEnds
