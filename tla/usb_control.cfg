SPECIFICATION FairSpec
CONSTANTS
    Requests = {"GetShort", "GetLineEncoding", "GetDescriptor", "SetConfiguration0", "SetConfiguration1", "SetAddress", "SetLineEncoding", "NoData", "Unsupported"}
    MaxEvents = 3
    MaxAborts = 2
INVARIANT ControlTypeOK
INVARIANT NestingBounded
INVARIANT MainListens
INVARIANT SessionAgrees
PROPERTY HandlersEnd
PROPERTY RequestsTaken
CHECK_DEADLOCK FALSE
