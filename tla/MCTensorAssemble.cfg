SPECIFICATION FairSpec
CONSTANTS
    hf = hf
    pin = pin
    gw = gw
    Segments <- MCSegments
    Hosts = {hf, pin, gw}
    Origin = hf
    Gateways <- MCGateways
    Ranges <- MCRanges
    GROUP = 3
    GAP = 1
    PIECE = 1
    MAX_BUFFER = 3
    WINDOW = 2
INVARIANTS KeptInOrder CompleteIsRight
PROPERTIES TransferEnds
CHECK_DEADLOCK FALSE
