CONSTANTS
    b0 = b0
    b1 = b1
    Addrs <- ThreeAddrs
    Lanes <- OneLane
    Values = {0, 1}
    WBD = 2
    WriteSels <- WholeWord
    ReadSels <- WholeWord
    Pipelined = TRUE
    AvoidOverflow = FALSE
SPECIFICATION FairSpec
INVARIANTS
    IInv
    HandshakeAgrees
    CycUntilAck
PROPERTIES
    Coherent
    BurstSequential
    Progress
