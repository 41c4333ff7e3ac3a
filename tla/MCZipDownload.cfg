SPECIFICATION FairSpec
CONSTANTS
    Files <- MCFiles
    Tails <- MCTails
    Downloads = {1, 2}
    TRIES = 2
    WINDOW = 2
    GATEWAY_WINDOW = 1
    HighWater = 2
    MaxTrouble = 2
    LIMIT32 = 30
    LIMIT16 = 9
INVARIANTS TypeOK ResumesInPlace DoneIsRight LengthKept OnePerModel WaitsOnlyWhenFull
PROPERTIES Ends
CHECK_DEADLOCK FALSE
