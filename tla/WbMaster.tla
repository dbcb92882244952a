------------------------------ MODULE WbMaster ------------------------------
(***************************************************************************)
(* WB_MASTER (common/rtl/wb_master.v): turns a request on its BUS side     *)
(* into a burst of Wishbone strobes and counts the answers.  The           *)
(* instruction cache and the DMA controllers own one each.                 *)
(*                                                                         *)
(* The BUS side is the argument bus, a record of the request op (or        *)
(* "none"), the word address adr, the length len and whether the address   *)
(* increments; the Wishbone side is the argument m, the ack and stall of   *)
(* the slave.  Byte lanes and the alignment of data are left out.          *)
(***************************************************************************)
EXTENDS Naturals

CONSTANT
    MaxLen,    \* the longest burst, 31 in the code (5-bit timers)
    COMB_CYC   \* CYC is driven by the request as well as by its register

ASSUME MaxLenAssumption  == MaxLen \in Nat \ {0}
ASSUME CombCycAssumption == COMB_CYC \in BOOLEAN

VARIABLES
    BusReqReg,
    WbCyc, WbStb, WbWe, WbCti,
    BurstTmrVal,  \* strobes still to be accepted
    AckTmrVal,    \* answers still to come
    AddrCntVal

masterRegs == << BusReqReg, WbCyc, WbStb, WbWe, WbCti, BurstTmrVal, AckTmrVal, AddrCntVal >>

----------------------------------------------------------------------------
BusReq(bus)      == bus.op # "none"
BusReqRedge(bus) == BusReq(bus) /\ ~BusReqReg

WB_CYC_Reg(bus) == WbCyc  \* mutant: the request does not reach the arbiter at once
WB_CYC(bus) == WbCyc \/ (COMB_CYC /\ BusReq(bus))

BurstTmrDec(bus, m) == WB_CYC(bus) /\ WbStb /\ ~m.stall

WbLastAck_Strobe(bus, m) ==  \* mutant: the last strobe ends the burst
    BusReq(bus) /\ BurstTmrVal = 1 /\ BurstTmrDec(bus, m)
WbLastAck(bus, m)    == BusReq(bus) /\ AckTmrVal = 1 /\ m.ack
WbLastStb(bus, m)    == BusReq(bus) /\ BurstTmrVal = 1 /\ BurstTmrDec(bus, m)
Wb2ndLastStb(bus, m) == BusReq(bus) /\ BurstTmrVal = 2 /\ BurstTmrDec(bus, m)

BUS_ACK(bus, m)      == BusReq(bus) /\ m.ack
BUS_LAST_ACK(bus, m) == WbLastAck(bus, m)

----------------------------------------------------------------------------
WbMasterInit ==
    /\ BusReqReg = FALSE
    /\ WbCyc = FALSE /\ WbStb = FALSE /\ WbWe = FALSE /\ WbCti = "classic"
    /\ BurstTmrVal = 0 /\ AckTmrVal = 0 /\ AddrCntVal = 0

\* The registers of the address and data phases: loaded by the rising edge of
\* the request.
Phases(bus, m) ==
    /\ WbCyc' = (BusReqRedge(bus) \/ (WbCyc /\ ~WbLastAck(bus, m)))
    /\ WbStb' = (BusReqRedge(bus) \/ (WbStb /\ ~WbLastStb(bus, m)))
    /\ WbWe' = ((BusReqRedge(bus) /\ bus.op = "write") \/ (WbWe /\ ~WbLastStb(bus, m)))
    /\ WbCti' = IF BusReqRedge(bus) THEN (IF bus.inc THEN "incr" ELSE "classic")
                ELSE IF Wb2ndLastStb(bus, m) THEN "end"
                ELSE IF WbLastStb(bus, m) THEN "classic" ELSE WbCti

Timers(bus, m) ==
    /\ BurstTmrVal' = IF BusReqRedge(bus) THEN bus.len
                      ELSE IF BurstTmrDec(bus, m) /\ BurstTmrVal # 0 THEN BurstTmrVal - 1
                      ELSE BurstTmrVal
    /\ AckTmrVal' = IF BusReqRedge(bus) THEN bus.len
                    ELSE IF m.ack /\ AckTmrVal # 0 THEN AckTmrVal - 1
                    ELSE AckTmrVal

\* The address counter; an address space of Top words wraps.
AddrCnt(bus, m, Top) ==
    AddrCntVal' = IF BusReqRedge(bus) THEN bus.adr
                  ELSE IF bus.inc /\ BurstTmrDec(bus, m) THEN (AddrCntVal + 1) % Top
                  ELSE AddrCntVal

WbMasterEdge(bus, m, Top) ==
    /\ BusReqReg' = BusReq(bus)
    /\ Phases(bus, m)
    /\ Timers(bus, m)
    /\ AddrCnt(bus, m, Top)

WbMasterTypeOK(Top) ==
    /\ BusReqReg \in BOOLEAN
    /\ WbCyc \in BOOLEAN /\ WbStb \in BOOLEAN /\ WbWe \in BOOLEAN
    /\ WbCti \in {"classic", "incr", "end"}
    /\ BurstTmrVal \in 0 .. MaxLen
    /\ AckTmrVal \in 0 .. MaxLen
    /\ AddrCntVal \in 0 .. Top - 1
=============================================================================
