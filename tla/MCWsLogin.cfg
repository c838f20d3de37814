CONSTANTS
    MaxMsgs = 3
    Burst = 2
    MaxFlood = 1
    u1 = u1
    u2 = u2
    Users <- MCUsers
    AllowedUsers <- MCAllowedUsers
SPECIFICATION Spec
PROPERTIES
    GoroutinesEndAfterClose
CHECK_DEADLOCK FALSE
