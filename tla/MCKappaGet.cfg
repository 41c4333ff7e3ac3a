\* Nine bytes in five pieces, two pieces a run, two runs at once.
SPECIFICATION FairSpec
CONSTANTS
    origin = origin
    gateway = gateway
    mirror = mirror
    Gets = {g1}
    Kinds = {origin, gateway, mirror}
    Listed <- MCListed
    ByPiece = {gateway}
    Honest = {mirror}
    Spans <- MCSpans
    Size = 9
    PIECE = 2
    Per = 2
    AHEAD = 2
INVARIANTS ReleasedRight BlameIsFair
PROPERTIES Delivered
CHECK_DEADLOCK FALSE
