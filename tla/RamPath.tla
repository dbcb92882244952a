------------------------------ MODULE RamPath ------------------------------
(***************************************************************************)
(* The path of a load or a store to the platform RAM: the data port of     *)
(* CPU_CORE, the routing of MIPS1_TOP (mips1_top/rtl/mips1_top.v), the     *)
(* write buffer, and a Wishbone memory that has at most one access         *)
(* outstanding, as PSX_BUS and WB_SLAVE_BFM both see to.                   *)
(*                                                                         *)
(* One step is one rising edge of CLK.  The core decides what to access    *)
(* next, and the memory (with the arbiters in front of it) when to accept  *)
(* and when to answer.                                                     *)
(***************************************************************************)
EXTENDS WriteBuffer

CONSTANTS
    WriteSels,     \* the byte lanes a store may select
    ReadSels,      \* the byte lanes a load may select
    Pipelined,     \* TRUE: the core strobes the next access while one is in
                   \* flight (WB_MASTER_BFM bursts); FALSE: it does not (CPU_CORE)
    AvoidOverflow  \* TRUE: the core never strobes a store that Overflow describes

ASSUME WriteSelsAssumption == WriteSels \subseteq (SUBSET Lanes) \ {{}}
ASSUME ReadSelsAssumption  == ReadSels \subseteq (SUBSET Lanes) \ {{}}
ASSUME PipelinedAssumption == Pipelined \in BOOLEAN
ASSUME AvoidOverflowAssumption == AvoidOverflow \in BOOLEAN

VARIABLES
    CoreDataAdrWriteBuffSelReg,  \* MIPS1_TOP: the access in flight is the buffer's
    inflight,                    \* the access the MEM stage of the core waits for
    rsp,                         \* the data of the last load
    slv,                         \* the access the memory works on
    mem                          \* what the memory holds

vars == << s, m, bufferRegs, CoreDataAdrWriteBuffSelReg, inflight, rsp, slv, mem >>

----------------------------------------------------------------------------
\* The routing of MIPS1_TOP, for addresses inside the RAM.  The strobe reaches
\* the buffer whatever the state of the access before it; the stall the core
\* sees also covers that access.

CoreDataAck   == CoreDataAdrWriteBuffSelReg /\ WB_S_ACK
CoreDataErr   == CoreDataAdrWriteBuffSelReg /\ WB_S_ERR
CoreDataStall == \/ s.op # "none" /\ WB_S_STALL
                 \/ CoreDataAdrWriteBuffSelReg /\ ~WB_S_ACK
CoreAccept    == s.op # "none" /\ ~CoreDataStall

WriteBuffSelReg ==
    CoreDataAdrWriteBuffSelReg' =
        SetFirst(CoreDataAdrWriteBuffSelReg, CoreAccept, WB_S_ACK)

----------------------------------------------------------------------------
\* The data port of the core.

\* The core drives zero on the lanes a store does not select.
Writes ==
    {w \in [op : {"write"}, adr : Addrs, sel : WriteSels, dat : Word] :
        \A l \in Lanes \ w.sel : w.dat[l] = 0}
Reads  == [op : {"read"}, adr : Addrs, sel : ReadSels, dat : {ZeroWord}]

\* A store that finds the buffer at its depth, the top entry partly filled and
\* no entry of its own: the buffer is not "full", and has no room.
Overflow ==
    /\ s.op = "write"
    /\ WbCntVal = WBD
    /\ ~WriteBufferFull
    /\ ~BufferFlushActive
    /\ WbAddrMatch = {}

\* STB is dropped when the access is accepted, CYC when it is answered.
CoreStb ==
    IF s.op # "none" /\ ~CoreAccept THEN UNCHANGED s
    ELSE \/ s' = Idle
         \/ /\ Pipelined \/ (s.op = "none" /\ (inflight.op = "none" \/ CoreDataAck \/ CoreDataErr))
            /\ s' \in Writes \cup Reads
            /\ AvoidOverflow => ~Overflow'

CoreMem ==
    /\ inflight' = IF CoreAccept THEN s
                   ELSE IF CoreDataAck \/ CoreDataErr THEN Idle ELSE inflight
    /\ rsp' = IF CoreDataAck /\ inflight.op = "read"
              THEN Merge(ZeroWord, inflight.sel, mem[slv.adr])
              ELSE rsp

----------------------------------------------------------------------------
\* The memory.  An access is accepted in a cycle without STALL and answered by
\* an ACK in a later one; until that ACK the memory stalls.  It has no reason
\* to answer ERR to an address inside the RAM.

SlaveAccess ==
    /\ slv' = IF WB_M_ACCEPT THEN WB_M_REQ ELSE IF m.ack THEN Idle ELSE slv
    /\ mem' = IF m.ack /\ slv.op = "write"
              THEN [mem EXCEPT ![slv.adr] = Merge(@, slv.sel, slv.dat)]
              ELSE mem

SlaveAnswer ==
    /\ m' \in [ack : BOOLEAN, stall : BOOLEAN, err : {FALSE}]
    /\ m'.ack => slv'.op # "none"
    /\ (slv'.op # "none" /\ ~m'.ack) => m'.stall
    /\ m'.stall => WB_M_CYC'

----------------------------------------------------------------------------
Init ==
    /\ WriteBufferInit
    /\ s = Idle
    /\ m = [ack |-> FALSE, stall |-> FALSE, err |-> FALSE]
    /\ CoreDataAdrWriteBuffSelReg = FALSE
    /\ inflight = Idle
    /\ rsp = ZeroWord
    /\ slv = Idle
    /\ mem = [a \in Addrs |-> ZeroWord]

Clock ==
    /\ WriteBufferEdge
    /\ WriteBuffSelReg
    /\ CoreMem
    /\ SlaveAccess
    /\ SlaveAnswer
    /\ CoreStb

\* The memory answers in the cycle to come, if asked, and is free for the next.
Responsive == m'.ack = (slv'.op # "none") /\ ~m'.stall

Spec     == Init /\ [][Clock]_vars
FairSpec == Spec /\ WF_vars(Clock /\ Responsive)
=============================================================================
