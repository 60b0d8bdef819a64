\* Two requests that share a target.
SPECIFICATION FairSpec
CONSTANTS
    Requests = {r1, r2}
    Files <- MCFiles
    Bodies <- MCBodies
    MaxRetry = 1
    MaxWrites = 2
    MaxFaults = 1
CHECK_DEADLOCK FALSE
INVARIANTS TypeOK AcceptedHasTask NoEmptyDirs
PROPERTIES PublishingEnds
