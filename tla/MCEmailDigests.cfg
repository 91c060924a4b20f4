SPECIFICATION FairDigestSpec
CONSTANTS
    u1 = u1
    u2 = u2
    a1 = a1
    a2 = a2
    Users = {u1, u2}
    Alerts = {a1, a2}
    Ownerships <- Either
    Deliveries = {d1, d2}
    MaxToggles = 1
    MaxMailFailures = 1
INVARIANTS
    OptOutHolds
    MarksMatchMails
PROPERTIES
    PendingIsSettled
CHECK_DEADLOCK FALSE
