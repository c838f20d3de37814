CONSTANTS
    Req = {r1, r2, r3}
    Users = {u1, u2}
    Names = {n1, n2}
    NameOf <- MCNameOf
    Sessions = {s1, s2}
    AllowedUsers = {n1}
    NoSession = NoSession
    r1 = r1
    r2 = r2
    r3 = r3
    u1 = u1
    u2 = u2
    n1 = n1
    n2 = n2
    s1 = s1
    s2 = s2
SPECIFICATION Spec
SYMMETRY MCSymmetry
INVARIANTS
    RootFolderUnique
\* Every login returns: the run ends when all of them have.
CHECK_DEADLOCK FALSE
