CONSTANTS
    b0 = b0
    b1 = b1
    Addrs <- ThreeAddrs
    Lanes <- TwoLanes
    Values = {0, 1}
    WBD = 2
    WriteSels <- AnyLanes
    ReadSels <- WholeWord
    Pipelined = FALSE
    AvoidOverflow = FALSE
SPECIFICATION Spec
INVARIANTS
    AcceptedWriteStored
