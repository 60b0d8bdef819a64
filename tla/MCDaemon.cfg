\* A request for a directory, two signals, a crash or a failure.
SPECIFICATION DFairSpec
CONSTANTS
    Requests = {r1}
    Files <- MCFiles
    Bodies <- MCBodies
    MaxRetry = 1
    MaxWrites = 2
    MaxFaults = 1
    MaxSignals = 2
CHECK_DEADLOCK FALSE
INVARIANTS DTypeOK AcceptedHasTask OneHandler NoneLeft
PROPERTIES SignalEnds PublishingEnds
