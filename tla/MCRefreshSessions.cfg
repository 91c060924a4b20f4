SPECIFICATION CheckSpec
CONSTANTS
    u2 = u2
    a1 = a1
    Requests = {r1, r2}
    Tokens <- MCTokens
    NoToken = NoToken
    ShortLived = {1}
    CommitMayFail = TRUE
    Users = {u1, u2}
    Addresses = {a1, a2}
    MaxLinks = 2
    Mailers = {r1, r2}
    Nobody = Nobody
CONSTRAINT OneMishap
SYMMETRY MCSymmetry
INVARIANTS
    SingleUse
    RevokedHasNoSuccessor
    LinksWorkAsMailed
PROPERTIES
    ImplementsRegister
