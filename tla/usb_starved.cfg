SPECIFICATION FairSpec
CONSTANTS
    Requests = {"SetAddress", "GetShort", "NoData"}
    MaxEvents = 1
    MaxAborts = 1
PROPERTY SupervisionContinues
CHECK_DEADLOCK FALSE
