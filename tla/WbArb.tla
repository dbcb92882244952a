------------------------------- MODULE WbArb -------------------------------
(***************************************************************************)
(* The Wishbone arbiters WB_ARB_2M_1S, WB_ARB_3M_1S and WB_ARB_4M_1S       *)
(* (common/rtl/wb_arb_*m_1s.v): N masters share one slave port.  Master 0  *)
(* has the highest priority.  A grant lasts as long as its master keeps    *)
(* CYC up; CYC is the request line.                                        *)
(***************************************************************************)
EXTENDS Naturals

CONSTANT N  \* the number of masters
ASSUME NAssumption == N \in {2, 3, 4}

VARIABLES
    cyc,         \* WB_SLi_CYC_IN of each master i
    WbArbGntReg  \* the master granted, NoGnt for the all-zero register

Masters == 0 .. N - 1
NoGnt   == N

\* The bit that the branch of master r sets after grant g.  In the decodes of
\* three and four masters, the branches of master 1 that follow a grant to
\* master 2 or 3 set the bit of master 0.
GntBit(g, r) == IF g \in Masters /\ g >= 2 /\ r = 1 THEN 0 ELSE r

Highest(S) == CHOOSE r \in S : \A q \in S : r <= q

Requesters == {r \in Masters : cyc[r]}

\* GNT_DECODE: a change is due when nobody holds the bus and somebody asks for
\* it, or when the holder does not ask any more.
WbArbGntRegEn_Preempt ==  \* mutant: a master of higher priority takes the bus
    \/ WbArbGntReg = NoGnt /\ Requesters # {}
    \/ WbArbGntReg # NoGnt /\ (~cyc[WbArbGntReg] \/ \E r \in Requesters : r < WbArbGntReg)
WbArbGntRegEn ==
    \/ WbArbGntReg = NoGnt /\ Requesters # {}
    \/ WbArbGntReg # NoGnt /\ ~cyc[WbArbGntReg]

WbArbGnt_Idle ==  \* mutant: the bus is given up before it is handed over
    IF WbArbGntReg # NoGnt \/ Requesters = {} THEN NoGnt ELSE Highest(Requesters)
WbArbGnt == IF Requesters = {} THEN NoGnt ELSE GntBit(WbArbGntReg, Highest(Requesters))

\* GNT_REG
ArbEdge == WbArbGntReg' = IF WbArbGntRegEn THEN WbArbGnt ELSE WbArbGntReg

ArbInit == WbArbGntReg = NoGnt

\* MASTER_TO_SLAVE_MUX: CYC of the shared slave port.
WbCyc == WbArbGntReg # NoGnt /\ cyc[WbArbGntReg]

\* Back to master i: what the slave answers if i holds the bus; otherwise a
\* stall as long as i asks for it.
Stall(i, stall) == IF WbArbGntReg = i THEN stall ELSE cyc[i]
Ack(i, ack)     == WbArbGntReg = i /\ ack
=============================================================================
