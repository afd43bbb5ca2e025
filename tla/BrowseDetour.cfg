\* A user who creates an FRS and waits.
CONSTANTS
    Users = {u1}
    Windows = {w1}
    FRSs = {f1}
    WaitTimeout = 1
    MaxAge = 1
    ApiMayFail = FALSE
SPECIFICATION FairFlowSpec
PROPERTY RedirectsToListing
