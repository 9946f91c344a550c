SPECIFICATION FairSpec
CONSTANTS
    Addrs = {1, 2}
    Cap = 3
    maxfails = 2
    seconds = 1
    RETRY_COUNT = 2
    MaxLines = 3
    MaxTime = 7
    MaxRotations = 1
CHECK_DEADLOCK FALSE
INVARIANTS WatchTypeOK Tallied ReadUpToDate
PROPERTIES Reopens Forgotten TreeWhole
