\* No failure and no clear: one check and one upload are enough.
SPECIFICATION Spec
CONSTANTS
    Checks = {c1}
    Uploads = {u1}
    Clears = {}
    Keys = {k1}
    Sizes = {s1}
    Absent = Absent
    NoEntry = NoEntry
    MaxPermits = 1
    MaxDisturbances = 0
INVARIANT RestingCacheIsCurrent
