SPECIFICATION FairSpec
CONSTANTS
    SIZE = 2
    MaxPrinted = 3
    MaxTyped = 2
    MaxUpsets = 4
INVARIANT StreamTypeOK
PROPERTY RepliesStream
PROPERTY TypingStream
PROPERTY PrintedIsSent
