\* No failure: one worker and one executor are enough.
SPECIFICATION Spec
CONSTANTS
    Workers = {w1}
    Executors = {e1}
    D = 1
    MaxFaults = 0
    MaxOutstanding = 2
INVARIANT OwedHasTask
