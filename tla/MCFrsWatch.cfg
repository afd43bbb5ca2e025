\* Two FRSs; the sweeper may be faster or slower than the wait.
CONSTANTS
    FRSs = {f1, f2}
    WaitTimeout = 1
    MaxAge = 1
    ApiMayFail = TRUE
SPECIFICATION FairSpec
INVARIANTS
    TypeOK
    VerdictIsTrue
    PendingIsWatched
PROPERTIES
    VerdictIsFinal
    WatcherEnds
    DeletedIsForgotten
