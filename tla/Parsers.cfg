SPECIFICATION AllSpec
CONSTANTS
    MaxPages = 2
    MaxPolls = 2
    MaxCancels = 2
    MaxItems = 3
    MaxBlocks = 3
    Files = 2
    MaxAttempts = 3
    TypeLists <- ResultTypes
INVARIANTS
    RemoteResultRemoved
    PagesInOrder
    CallLeavesNothing
    BlocksKeepOrder
    WorkDirectoryKept
PROPERTIES
    CallsEnd
    ResultIsPublished
\* Every call ends, every document has a last block.
CHECK_DEADLOCK FALSE
