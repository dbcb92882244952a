CONSTANTS
    Methods = {"pthread", "fork", "socket"}
    MULTITHREAD = 2
    Commands <- MCCommands
    TOTAL_DATA_SIZE = 606
    sizeof <- MCSizeof
    Speeds = {4}
    Ten = 3
    U32 = 1024
    ListCrc <- MCListCrc
    known_crc <- MCKnown
CHECK_DEADLOCK FALSE
SPECIFICATION FairSpec
INVARIANTS
    MemoryRestored
    WithinBlocks
    ContextsAgree
    LongEnough
PROPERTIES
    Reported
