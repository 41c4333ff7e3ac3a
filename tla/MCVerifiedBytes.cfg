SPECIFICATION FairSpec
CONSTANTS
    hf = hf
    ms = ms
    Requests = {q1, q2}
    Kinds = {hf, ms}
    Order <- MCOrder
    Size = 2
    Hold = 1
    Ranges <- MCOneRange
    MaxAsks = 3
    MaxKills = 1
    None = None
INVARIANTS NeverFinishesWrong CheckedIsRight OneFetch
PROPERTIES LiarsSkipped EveryoneAnswered
CHECK_DEADLOCK FALSE
