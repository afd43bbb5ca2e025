\* Every path of the volume may be asked for; its archives are four levels deep.
CONSTANTS
    Dirs <- VolumeDirs
    Files <- VolumeFiles
    Junction <- VolumeJunction
    Broken <- VolumeBroken
    MaxDepth = 5
SPECIFICATION FairSpec
INVARIANTS
    Unpacks
    CompleteHasAll
PROPERTY WalkEnds
CHECK_DEADLOCK FALSE
