SPECIFICATION FairSpec
CONSTANTS
    ann = ann
    bob = bob
    Persons = {ann, bob}
    Apps = {"app"}
    Models = {"m1", "m2"}
    Asks <- MCAsks
    Thread <- MCThread
    MaxAsks = 3
    MaxFaults = 1
    MAX_COMMENTS = 3
    MAX_SAVED = 1
    MAX_REQUESTS = 2
INVARIANTS TypeOK AckedStays AllShown SavedKept
PROPERTIES EveryoneAnswered
CHECK_DEADLOCK FALSE
