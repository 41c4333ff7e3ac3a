\* One upload whose writes, rename and hard link may fail, one kill.
SPECIFICATION Spec
CONSTANTS
    a = a
    b = b
    u1 = u1
    u2 = u2
    q1 = q1
    q2 = q2
    Requests = {q1, q2}
    Purger = Purger
    None = None
    Ids = {u1}
    Repos = {r1}
    Byte = {a, b}
    Bodies <- MCShortBodies
    Claims <- MCClaims
    FrameSize = 2
    MaxAge = 1
    RowInterval = 1
    MaxRequests = 3
    MaxKills = 1
    DiskErrors = TRUE
SYMMETRY MCSymmetry
INVARIANTS
    HashOnWrite
