\* A connect and a delete of the same FRS.
CONSTANTS
    Users = {u1}
    FRSs = {f1}
    Sessions = {s1}
    Reqs = {r1, r2}
    NoSession = NoSession
    TTL = 1
SPECIFICATION Spec
INVARIANT DeleteClosesPooled
