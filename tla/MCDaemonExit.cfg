\* The same without failures: what the daemon says when it exits.
SPECIFICATION DSpec
CONSTANTS
    Requests = {r1}
    Files <- MCFiles
    Bodies <- MCBodies
    MaxRetry = 1
    MaxWrites = 1
    MaxFaults = 0
    MaxSignals = 1
CHECK_DEADLOCK FALSE
INVARIANT AllTasksCompleted
