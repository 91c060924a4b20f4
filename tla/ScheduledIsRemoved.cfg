\* One account asks to be deleted; requests are carried out and time passes.
SPECIFICATION AccountsSpec
CONSTANTS
    Users = {u1}
    Addresses = {a1, a2}
    MaxLinks = 2
    Mailers = {m1}
    Nobody = Nobody
PROPERTY
    ScheduledIsRemoved
CHECK_DEADLOCK FALSE
