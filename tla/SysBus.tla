------------------------------- MODULE SysBus -------------------------------
(***************************************************************************)
(* The system bus of PSX_BUS (psx_top/rtl/psx_bus.v): an arbiter, the      *)
(* decode of the address into one slave select, and a registered select    *)
(* for each slave that routes its answer.  With four masters and one slave *)
(* it is the same structure as the bus of MIPS1_TOP.                       *)
(*                                                                         *)
(* An address is only as much as decides which slave it selects, so an     *)
(* access is the slave it goes to.  One step is one edge of CLK_SYS.       *)
(*                                                                         *)
(* The slaves are those whose answer ends with its access.  The bridge to  *)
(* the registers, whose ACK outlasts it (wb_sync_bridge.v:226), is module  *)
(* SyncBridge, with the select register of this bus.                       *)
(***************************************************************************)
EXTENDS WbArb

CONSTANTS
    Slaves,  \* ROM, DRAM, GPU and the default slave
    None     \* no slave

ASSUME NoneAssumption == None \notin Slaves

VARIABLES
    stb,     \* the slave each master strobes
    wait,    \* the slave each master waits for
    SelReg,  \* WbSys*SelReg of each slave
    slv      \* each slave: the master it serves, and the answer it drives

vars == << cyc, WbArbGntReg, stb, wait, SelReg, slv >>

----------------------------------------------------------------------------
\* PSX_BUS.

\* The strobe of the master that holds the bus, decoded.
Sel(j) == WbCyc /\ stb[WbArbGntReg] = j

WbSysAck   == \E j \in Slaves : SelReg[j] /\ slv[j].ack
WbSysErr   == \E j \in Slaves : SelReg[j] /\ slv[j].err
WbSysStall_Address ==  \* mutant: an answer still due does not stall the next strobe
    \E j \in Slaves : Sel(j) /\ slv[j].stall
WbSysStall == \E j \in Slaves : (Sel(j) /\ slv[j].stall) \/ (SelReg[j] /\ ~slv[j].ack)

\* The strobe goes to the slave whatever the other slaves are doing.
SlaveCyc(j) == WbCyc /\ (Sel(j) \/ SelReg[j])
SlaveAccepts(j) == SlaveCyc(j) /\ Sel(j) /\ ~slv[j].stall

SelRegs_Sticky ==  \* mutant: an error does not clear the select
    SelReg' = [j \in Slaves |->
        \/ Sel(j) /\ ~WbSysStall
        \/ SelReg[j] /\ ~(WbCyc /\ slv[j].ack)]
SelRegs_Drop ==  \* mutant: the select follows the strobe
    SelReg' = [j \in Slaves |-> Sel(j) /\ ~WbSysStall]
SelRegs ==
    SelReg' = [j \in Slaves |->
        \/ Sel(j) /\ ~WbSysStall
        \/ SelReg[j] /\ ~(WbCyc /\ (slv[j].ack \/ slv[j].err))]

----------------------------------------------------------------------------
\* The masters: STB until it is accepted, CYC until the answer.  A master may
\* strobe its next access before the answer to the one before it, to the same
\* slave or to another (psx_bus.v:299-301, cpu_core.v:571-572).

Accepted(i) == stb[i] # None /\ ~Stall(i, WbSysStall)
Answered(i) == Ack(i, WbSysAck) \/ Ack(i, WbSysErr)

StillWaits(i) == IF Accepted(i) THEN stb[i] ELSE IF Answered(i) THEN None ELSE wait[i]

NextStrobe(i) ==
    IF stb[i] # None /\ ~Accepted(i) THEN {stb[i]} ELSE Slaves \cup {None}

MasterEdge ==
    /\ wait' = [i \in Masters |-> StillWaits(i)]
    /\ stb' \in [Masters -> Slaves \cup {None}]
    /\ \A i \in Masters : stb'[i] \in NextStrobe(i)
    /\ cyc' = [i \in Masters |-> stb'[i] # None \/ wait'[i] # None]

----------------------------------------------------------------------------
\* The slaves: one access at a time, a stall until it is answered.

SlaveEdge(j) ==
    /\ slv'[j].who = IF SlaveAccepts(j) THEN WbArbGntReg
                     ELSE IF slv[j].ack \/ slv[j].err THEN NoGnt ELSE slv[j].who
    /\ ~(slv'[j].ack /\ slv'[j].err)
    /\ (slv'[j].ack \/ slv'[j].err) => slv'[j].who # NoGnt
    /\ slv'[j].who # NoGnt /\ ~slv'[j].ack => slv'[j].stall

SlaveStates == [who : Masters \cup {NoGnt}, ack : BOOLEAN, err : BOOLEAN, stall : BOOLEAN]

SlaveEdges ==
    /\ slv' \in [Slaves -> SlaveStates]
    /\ \A j \in Slaves : SlaveEdge(j)

----------------------------------------------------------------------------
Init ==
    /\ ArbInit
    /\ cyc = [i \in Masters |-> FALSE]
    /\ stb = [i \in Masters |-> None]
    /\ wait = [i \in Masters |-> None]
    /\ SelReg = [j \in Slaves |-> FALSE]
    /\ slv = [j \in Slaves |-> [who |-> NoGnt, ack |-> FALSE, err |-> FALSE, stall |-> FALSE]]

Clock == ArbEdge /\ SelRegs /\ MasterEdge /\ SlaveEdges

\* A slave with an access answers it with an ACK, and one without does not stall.
Responsive == \A j \in Slaves : slv'[j].ack = (slv'[j].who # NoGnt) /\ ~slv'[j].stall

Spec     == Init /\ [][Clock]_vars
FairSpec == Spec /\ WF_vars(Clock /\ Responsive)

=============================================================================
