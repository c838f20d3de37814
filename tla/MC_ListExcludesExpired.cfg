SPECIFICATION Spec
CONSTANTS
    Req = {r1}
    UploadIds = {u1}
    PartNos = {1, 2}
    c1 = c1
    c2 = c2
    t1 = t1
    t2 = t2
    Channels = {c1, c2}
    NoChannel = NoChannel
    DefaultChannel = c1
    Tokens = {t1, t2}
    BotsOf <- MCBotsOf
    EncryptionKeySet = TRUE
    Retention = 1
    MaxTime = 2
SYMMETRY MCSymmetry
INVARIANT
    ListExcludesExpired
