\* Two tabs, two logins, one change of the secret; a TTL of one second.
CONSTANTS
    Tabs = {t1, t2}
    Faults <- MCFaults
    Grace = 1
    MaxLogins = 2
    Secrets = {k1, k2}
    TTL = 2
    Second = 2
SPECIFICATION FairSpec
INVARIANTS
    CleanExit
    DiagnosisIsRight
    ForbiddenNeedsLogin
PROPERTIES
    LoginLasts
    TermEnds
