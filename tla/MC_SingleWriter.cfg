CONSTANTS
    MaxMsgs = 2
    Burst = 2
    MaxFlood = 1
    u1 = u1
    u2 = u2
    Users <- MCUsers
    AllowedUsers <- MCAllowedUsers
SPECIFICATION Spec
INVARIANTS
    SingleWriter
CHECK_DEADLOCK FALSE
