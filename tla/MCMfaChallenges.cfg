\* Three requests guess at two challenges; one run of the daily job.  Two tabs
\* share three pairs of tokens.
SPECIFICATION CheckSpec
CONSTANTS
    Requests = {r1, r2, r3}
    Challenges = {c1, c2}
    None = None
    MaxAttempts = 2
    MaxClears = 1
    busyTab = t1
    profile = profile
    other = other
    Tabs = {t1, t2}
    Calls <- CallsOf
    Profile = profile
    Absent = Absent
    MaxPair = 3
SYMMETRY Interchangeable
CONSTRAINT Followed
INVARIANTS
    GuessesAreCounted
    OneSignInUntilCleared
    ResetVoidsChallenges
    SignOutHolds
PROPERTIES
    SessionIsKept
