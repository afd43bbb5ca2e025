\* One tab; its FRS, the watch map and the API server change under it.
CONSTANTS
    Users = {u1}
    Windows = {w1}
    FRSs = {f1}
    WaitTimeout = 1
    MaxAge = 1
    ApiMayFail = FALSE
SPECIFICATION FairFlowSpec
INVARIANTS
    ShownIsTrue
PROPERTIES
    UsesWatch
    WaitingEnds
    FailureShows
