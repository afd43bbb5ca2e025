\* Two pods, as in a rolling update; operators write anything, twice.
CONSTANTS
    Pods = {p1, p2}
    Keys = {k1, k2}
    None = None
    Garbage = Garbage
    Contents <- Anything
    MaxEdits = 2
    MaxFaults = 2
SPECIFICATION FairSpec
INVARIANTS
    TypeOK
    OneKey
    PairMatches
PROPERTIES
    KeyIsKept
    ComesUp
CHECK_DEADLOCK FALSE
