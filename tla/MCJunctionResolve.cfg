\* Two listings at a time on a volume without misleading names.
CONSTANTS
    Listers = {g1, g2}
    Names <- FileNames
    Dirs <- PlainDirs
    Links <- PlainLinks
    Followed <- PlainFollowed
    Chroot <- Mount
SPECIFICATION FairSpec
INVARIANTS
    RightTarget
    DepthIsChroot
PROPERTIES
    ListingIsStable
    ListingAdvances
    ListingEnds
CHECK_DEADLOCK FALSE
