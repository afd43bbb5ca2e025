\* Two cookies, two FRSs, two dials, two requests at a time.
CONSTANTS
    Users = {u1, u2}
    FRSs = {f1, f2}
    Sessions = {s1, s2}
    Reqs = {r1, r2}
    NoSession = NoSession
    TTL = 1
SPECIFICATION Spec
INVARIANTS
    TypeOK
    PooledIsOpen
    Isolation
    InUseSurvives
    OrphansWereReplaced
PROPERTIES
    ExpiredNeverRevived
    LateStoresOnly
    UsesPool
SYMMETRY Symmetry
