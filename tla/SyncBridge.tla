----------------------------- MODULE SyncBridge -----------------------------
(***************************************************************************)
(* WB_SYNC_BRIDGE (common/rtl/wb_sync_bridge.v): takes a Wishbone access   *)
(* from the clock domain SRC to the domain DST and its answer back.  Each  *)
(* direction is a toggle flop whose change of level the other side detects *)
(* with a register and an XOR.  PSX_BUS uses it between the system bus,    *)
(* whose select register is modelled here, and the register bus.           *)
(*                                                                         *)
(* A step is an edge of CLK_SRC, of CLK_DST or of both.  PSX_TOP drives    *)
(* the two from one clock; the clocks of the bridge may have any ratio.    *)
(* An access is a member of Accesses and the slave answers it with the     *)
(* access itself, so that an answer tells what it is the answer to.        *)
(***************************************************************************)
EXTENDS Naturals

CONSTANTS
    Accesses,  \* address, write enable, select and data of an access
    Refused,   \* the accesses answered ERR: to INTC, with a select it cannot serve
    None       \* no access

ASSUME NoneAssumption == None \notin Accesses
ASSUME RefusedAssumption == Refused \subseteq Accesses

VARIABLES
    \* Registers of the SRC domain.
    SrcWbCycStbTog, SrcWbCycStbReg, DstWbCycTogReg,
    SrcWb,     \* SrcWbAdr, SrcWbWe, ..., SrcWbDatWr
    SrcWbAck, SrcWbDatRd,
    \* Registers of the DST domain.
    DstWbCycStbTogReg, DstWbCycReg, DstWbStbReg, DstWbCycTog,
    DstWb,     \* DstWbAdr, DstWbWe, ..., DstWbDatWr
    DstWbAck, DstWbDatRd,
    \* The system bus and its master.
    s,         \* the access the master strobes
    wait,      \* the access the master waits for
    WbSysRegsSelReg,
    \* The register bus.
    m,         \* ACK, ERR and STALL
    slv        \* the access the slave works on

srcRegs == << SrcWbCycStbTog, SrcWbCycStbReg, DstWbCycTogReg, SrcWb, SrcWbAck, SrcWbDatRd >>
dstRegs == << DstWbCycStbTogReg, DstWbCycReg, DstWbStbReg, DstWbCycTog, DstWb, DstWbAck, DstWbDatRd >>
srcSide == << srcRegs, s, wait, WbSysRegsSelReg >>
dstSide == << dstRegs, m, slv >>
vars    == << srcSide, dstSide >>

----------------------------------------------------------------------------
\* Wires of the bridge.

SrcWbCycStb    == s # None /\ ~SrcWbCycStbReg
SrcCycStb      == DstWbCycTog # DstWbCycTogReg
DstWbCycStbSet == DstWbCycStbTogReg # SrcWbCycStbTog
DstWbCycClr    == DstWbCycReg /\ m.ack
DstWbStbClr    == DstWbStbReg /\ ~m.stall

WB_M_ACCEPT == DstWbCycReg /\ DstWbStbReg /\ ~m.stall

----------------------------------------------------------------------------
\* The SRC domain.

StallReg_Ack ==  \* mutant: the source is released by its ACK
    SrcWbCycStbReg' = (SrcWbCycStb \/ (SrcWbCycStbReg /\ ~SrcWbAck))
StallReg == SrcWbCycStbReg' = (SrcWbCycStb \/ (SrcWbCycStbReg /\ ~SrcCycStb))

SrcToggle_Level ==  \* mutant: a level instead of a toggle
    SrcWbCycStbTog' = (SrcWbCycStb \/ SrcWbCycStbTog)
SrcToggle == SrcWbCycStbTog' = IF SrcWbCycStb THEN ~SrcWbCycStbTog ELSE SrcWbCycStbTog

SrcCapture_Stalled ==  \* mutant: a strobe is captured although it is stalled
    SrcWb' = IF s # None THEN s ELSE SrcWb
SrcCapture == SrcWb' = IF SrcWbCycStb THEN s ELSE SrcWb

SrcRegs ==
    /\ SrcToggle
    /\ StallReg
    /\ DstWbCycTogReg' = DstWbCycTog
    /\ SrcCapture
    /\ SrcWbAck'   = IF SrcCycStb THEN DstWbAck   ELSE SrcWbAck
    /\ SrcWbDatRd' = IF SrcCycStb THEN DstWbDatRd ELSE SrcWbDatRd

\* What the system bus answers its master.
WbSysStall == (s # None /\ SrcWbCycStbReg) \/ (WbSysRegsSelReg /\ ~SrcWbAck)
WbSysAck   == WbSysRegsSelReg /\ SrcWbAck
Accepted   == s # None /\ ~WbSysStall

SysBus ==
    WbSysRegsSelReg' = (Accepted \/ (WbSysRegsSelReg /\ ~(wait # None /\ SrcWbAck)))

\* The master holds its strobe until it is accepted, and waits for the answer.
Master ==
    /\ wait' = IF Accepted THEN s ELSE IF WbSysAck THEN None ELSE wait
    /\ IF s # None /\ ~Accepted THEN UNCHANGED s
       ELSE IF wait' # None THEN s' = None
       ELSE s' \in Accesses \cup {None}

SrcClock == SrcRegs /\ SysBus /\ Master

----------------------------------------------------------------------------
\* The DST domain.

DstRegs ==
    /\ DstWbCycStbTogReg' = SrcWbCycStbTog
    /\ DstWbCycReg' = (DstWbCycStbSet \/ (DstWbCycReg /\ ~DstWbCycClr))
    /\ DstWbStbReg' = (DstWbCycStbSet \/ (DstWbStbReg /\ ~DstWbStbClr))
    /\ DstWbCycTog' = IF DstWbCycClr THEN ~DstWbCycTog ELSE DstWbCycTog
    /\ DstWb' = IF DstWbCycStbSet THEN SrcWb ELSE DstWb
    /\ DstWbAck'   = IF DstWbCycClr THEN m.ack ELSE DstWbAck
    /\ DstWbDatRd' = IF DstWbCycClr THEN slv ELSE DstWbDatRd

\* A slave of the register bus works on one access at a time and stalls until
\* its answer.  INTC alone has an ERR (intc.v:109); the default slave and
\* WB_SLAVE_CTRL have none (psx_bus.v:1048, wb_slave_ctrl.v:89).
Slave ==
    /\ slv' = IF WB_M_ACCEPT THEN DstWb ELSE IF m.ack \/ m.err THEN None ELSE slv
    /\ m' \in [ack : BOOLEAN, err : BOOLEAN, stall : BOOLEAN]
    /\ m'.ack => slv' # None /\ slv' \notin Refused
    /\ m'.err => slv' \in Refused
    /\ slv' # None /\ ~m'.ack /\ ~m'.err => m'.stall

DstClock == DstRegs /\ Slave

----------------------------------------------------------------------------
Init ==
    /\ SrcWbCycStbTog = FALSE /\ SrcWbCycStbReg = FALSE /\ DstWbCycTogReg = FALSE
    /\ SrcWb = None /\ SrcWbAck = FALSE /\ SrcWbDatRd = None
    /\ DstWbCycStbTogReg = FALSE /\ DstWbCycTog = FALSE
    /\ DstWbCycReg = FALSE /\ DstWbStbReg = FALSE
    /\ DstWb = None /\ DstWbAck = FALSE /\ DstWbDatRd = None
    /\ s = None /\ wait = None /\ WbSysRegsSelReg = FALSE
    /\ m = [ack |-> FALSE, err |-> FALSE, stall |-> FALSE]
    /\ slv = None

SrcEdge  == SrcClock /\ UNCHANGED dstSide
DstEdge  == DstClock /\ UNCHANGED srcSide
BothEdges == SrcClock /\ DstClock

Next == SrcEdge \/ DstEdge \/ BothEdges

\* The slave answers what it works on, and does not stall without reason.
Responsive == slv' # None => (m'.ack \/ m'.err) /\ ~m'.stall

Spec     == Init /\ [][Next]_vars
FairSpec ==
    /\ Spec
    /\ WF_vars(SrcEdge \/ BothEdges)
    /\ WF_vars((DstEdge \/ BothEdges) /\ Responsive)
=============================================================================
