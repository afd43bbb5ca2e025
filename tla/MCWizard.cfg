\* Three RestorePoints of two VMs of the same name; the later one of
\* the first VM and the second VM come and go.  Two requests in flight.
CONSTANTS
    p1 = p1
    p2 = p2
    p3 = p3
    Points = {p1, p2, p3}
    Meta <- MCMeta
    NamespaceWhitelist = {"a", "b"}
    Volatile = {p2, p3}
    MaxAsked = 2
SPECIFICATION Spec
INVARIANTS
    EveryPointIsOffered
    OneRestorePoint
    NothingCarriedOver
    WaitingIsRewarded
