\* Two file sync workers, two executors, a debounce period of two ticks, one fault.
SPECIFICATION FairSpec
CONSTANTS
    Workers = {w1, w2}
    Executors = {e1, e2}
    D = 2
    MaxFaults = 1
    MaxOutstanding = 2
INVARIANTS TypeOK CoveredHasTask FlagHasTask
PROPERTIES DecidesWhenQuiet CommandRuns OrphanedFlagEnds
