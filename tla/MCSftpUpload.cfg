\* Two uploads at a time to one target, from a source that is replaced once.
SPECIFICATION FairSpec
CONSTANTS
    Uploaders = {u1, u2}
    Files = {"f"}
    Keys = {"k"}
    Locks = {"s"}
    LockOf <- OneLock
    Blocks <- MCBlocks
    Contents <- MCContents
    Absent = Absent
    Nobody = Nobody
    EnableResume = TRUE
    MaxFaults = 2
    MaxReplaced = 1
INVARIANTS WholeObjects TempsResume
PROPERTIES AtomicUploads UploadsReturn
