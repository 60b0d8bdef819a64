\* One task with delete_after_sync, one failure.
SPECIFICATION Spec
CONSTANTS
    Tasks = {t1}
    Runs = {r1}
    Files = {"f"}
    Keys = {"k"}
    Contents <- MCContents
    SizeOf <- MCSizeOf
    Jobs <- DeleteJobs
    Backend = "sftp"
    Gone = Gone
    Absent = Absent
    MaxRetry = 1
    RetryCount = 1
    MaxFaults = 1
    MaxRewrites = 0
CHECK_DEADLOCK FALSE
INVARIANT UploadedIsTriggered
