\* The same volume: the walk meets the broken link, or loses its session.
CONSTANTS
    Dirs <- VolumeDirs
    Files <- VolumeFiles
    Junction <- VolumeJunction
    Broken <- VolumeBroken
    MaxDepth = 5
SPECIFICATION Spec
INVARIANT TruncationShows
CHECK_DEADLOCK FALSE
