SPECIFICATION FairSpec
CONSTANTS
    Runs = {r1, r2}
    CAP = 2
    MaxNotices = 1
INVARIANT HostTypeOK
INVARIANT NothingStolen
INVARIANT CalmReplies
PROPERTY RunsEnd
CHECK_DEADLOCK FALSE
