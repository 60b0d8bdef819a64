\* Two checks, an upload and a full clear of one path, one storage permit, two
\* sizes; up to two failed calls, cancelled requests or crashes.
SPECIFICATION FairSpec
CONSTANTS
    Checks = {c1, c2}
    Uploads = {u1}
    Clears = {w1}
    Keys = {k1}
    Sizes = {s1, s2}
    Absent = Absent
    NoEntry = NoEntry
    MaxPermits = 1
    MaxDisturbances = 2
INVARIANTS TypeOK PermitsExact NoOrphanLock SingleFlight CoherentUnlessRaced
PROPERTIES CheckReturns EntriesWereTrue
