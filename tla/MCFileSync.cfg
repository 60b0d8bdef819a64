\* Two tasks for one source and one target, two runs at a time.
SPECIFICATION FairSpec
CONSTANTS
    Tasks = {t1, t2}
    Runs = {r1, r2}
    Files = {"f"}
    Keys = {"k"}
    Contents <- MCContents
    SizeOf <- MCSizeOf
    Jobs <- SomeJobs
    Backend = "s3"
    Gone = Gone
    Absent = Absent
    MaxRetry = 1
    RetryCount = 1
    MaxFaults = 1
    MaxRewrites = 1
CHECK_DEADLOCK FALSE
INVARIANTS TypeOK DoneIsStored NothingLost AnnouncedIsStored UploadsBounded
PROPERTY TasksSettle
