---------------------------- MODULE WriteBuffer ----------------------------
(***************************************************************************)
(* WB_WRITE_BUFFER (common/rtl/wb_write_buffer.v): the merging write       *)
(* buffer between the data port of the CPU and the platform RAM.           *)
(*                                                                         *)
(* Every register of the block is a VARIABLE and every wire an operator.   *)
(* WriteBufferEdge is one rising edge of CLK with EN high: the conjunction *)
(* of the always blocks, each of which fixes the next value of its own     *)
(* register.  The ports driven from outside, s (the Wishbone slave side)   *)
(* and m (the Wishbone master side), are variables too, but a module that  *)
(* composes the buffer with its neighbours says how they change.           *)
(***************************************************************************)
EXTENDS Naturals

CONSTANTS
    Addrs,   \* word addresses, the bits 31:2 of ADR
    Lanes,   \* the byte lanes of a word, 0..3 in the code
    Values,  \* what a byte lane holds
    WBD      \* depth of the buffer, 2 ** WBD_P2

\* Registers reset to zero, and a burst compares two neighbouring entries.
ASSUME AddrsAssumption  == Addrs \subseteq Nat /\ 0 \in Addrs
ASSUME ValuesAssumption == 0 \in Values
ASSUME WBDAssumption    == WBD \in Nat /\ WBD >= 2

VARIABLES
    s,  \* WB_S_ADR/STB/WE/SEL/DAT_WR_IN: the request strobed, or Idle
    m,  \* WB_M_ACK/STALL/ERR_IN
    WbReadReq, WbReadAddrReg, WbReadSelReg,
    WriteBufferStoreReg,
    BufferFlushReq,
    WbCntVal,
    WbAddrReg, WbSelReg, WbWrDatReg,
    BufferWbCyc, BufferWbStb,
    WbReadWbCyc, WbReadWbStb,
    LastWbCti, LastWbAddrIncrBurst, LastWbSelIncrBurst

readRegs   == << WbReadReq, WbReadAddrReg, WbReadSelReg, WbReadWbCyc, WbReadWbStb >>
flushRegs  == << BufferFlushReq, BufferWbCyc, BufferWbStb >>
entryRegs  == << WriteBufferStoreReg, WbCntVal, WbAddrReg, WbSelReg, WbWrDatReg >>
burstRegs  == << LastWbCti, LastWbAddrIncrBurst, LastWbSelIncrBurst >>
bufferRegs == << readRegs, flushRegs, entryRegs, burstRegs >>

----------------------------------------------------------------------------
\* Types.

Entries == 0 .. WBD - 1
Word    == [Lanes -> Values]
Cti     == {"classic", "incr", "end"}
Request == [op : {"none", "read", "write"}, adr : Addrs,
            sel : SUBSET Lanes, dat : Word]

ZeroWord == [l \in Lanes |-> 0]
Idle     == [op |-> "none", adr |-> 0, sel |-> {}, dat |-> ZeroWord]

----------------------------------------------------------------------------
\* Wires.

BufferFlushActive == BufferFlushReq
WbReadActive_Early == WbReadReq  \* mutant: a read does not wait for the flush
WbReadActive      == ~BufferFlushReq /\ WbReadReq
WbReadAck         == WbReadActive /\ m.ack
WbReadEnd         == WbReadActive /\ (m.ack \/ m.err)

\* The code compares the counter with the literal 4, the default depth.
WriteBufferFull == WbCntVal = WBD /\ WbSelReg[WBD - 1] = Lanes

WB_S_STALL_NoFlush ==  \* mutant: open to requests during a flush
    WriteBufferFull \/ (WbReadActive /\ ~WbReadAck)
WB_S_STALL == WriteBufferFull \/ BufferFlushActive \/ (WbReadActive /\ ~WbReadAck)
WB_S_ACK   == WbReadAck \/ (~BufferFlushActive /\ ~WbReadActive /\ WriteBufferStoreReg)
WB_S_ERR   == m.err

WbReadAddrStb      == s.op = "read"  /\ ~WB_S_STALL
WbWriteAddrDataStb == s.op = "write" /\ ~WB_S_STALL

BufferFlushStb      == WriteBufferFull \/ (WbReadAddrStb /\ WbCntVal # 0 /\ ~BufferFlushReq)
BufferFlushLastAddr == BufferFlushActive /\ ~m.stall /\ WbCntVal = 1
BufferFlushLastAck_Early ==  \* mutant: does not wait for the answer
    BufferFlushActive /\ WbCntVal = 0
BufferFlushLastAck  == BufferFlushActive /\ m.ack /\ WbCntVal = 0
BufferShiftDown     == BufferFlushActive /\ ~m.stall /\ WbCntVal # 0

\* The entry, if any, that holds the address of the request: the lowest
\* numbered of the entries in use that match.
WbAddrMatchOneHot == {i \in Entries : i < WbCntVal /\ WbAddrReg[i] = s.adr}
WbAddrMatch       == {i \in WbAddrMatchOneHot : \A j \in WbAddrMatchOneHot : i <= j}

\* The entry a write is stored into.  The index of a new entry is the
\* counter, and a set bit above the top entry is lost.
WbAddrSelRegEn ==
    {i \in Entries :
        /\ ~BufferFlushActive
        /\ WbWriteAddrDataStb
        /\ \/ i \in WbAddrMatch
           \/ WbAddrMatch = {} /\ i = WbCntVal}

WbAddrIncrBurst_Any == WbAddrReg[1] > WbAddrReg[0]  \* mutant: any higher address
WbAddrIncrBurst == WbAddrReg[1] = WbAddrReg[0] + 1
WbSelIncrBurst  == WbSelReg[1] = Lanes /\ WbSelReg[0] = Lanes

BufferWbCti ==
    IF ~BufferWbStb THEN "classic"
    ELSE IF WbCntVal = 1 /\ LastWbCti = "incr" /\ LastWbAddrIncrBurst /\ LastWbSelIncrBurst
         THEN "end"
    ELSE IF WbAddrIncrBurst /\ WbSelIncrBurst THEN "incr" ELSE "classic"

\* What the buffer drives on the master side.
WB_M_CYC == (BufferFlushActive /\ BufferWbCyc) \/ (WbReadActive /\ WbReadWbCyc)
WB_M_REQ ==
    IF BufferFlushActive /\ BufferWbStb
    THEN [op |-> "write", adr |-> WbAddrReg[0], sel |-> WbSelReg[0], dat |-> WbWrDatReg[0]]
    ELSE IF WbReadActive /\ WbReadWbStb
    THEN [op |-> "read", adr |-> WbReadAddrReg, sel |-> WbReadSelReg, dat |-> ZeroWord]
    ELSE Idle
WB_M_ACCEPT == WB_M_REQ.op # "none" /\ ~m.stall

----------------------------------------------------------------------------
\* Registers after reset.

WriteBufferInit ==
    /\ WbReadReq = FALSE /\ WbReadAddrReg = 0 /\ WbReadSelReg = {}
    /\ WriteBufferStoreReg = FALSE
    /\ BufferFlushReq = FALSE
    /\ WbCntVal = 0
    /\ WbAddrReg  = [i \in Entries |-> 0]
    /\ WbSelReg   = [i \in Entries |-> {}]
    /\ WbWrDatReg = [i \in Entries |-> ZeroWord]
    /\ BufferWbCyc = FALSE /\ BufferWbStb = FALSE
    /\ WbReadWbCyc = FALSE /\ WbReadWbStb = FALSE
    /\ LastWbCti = "classic"
    /\ LastWbAddrIncrBurst = FALSE /\ LastWbSelIncrBurst = FALSE

\* A set/reset flop with the branches of its always block in their order.
SetFirst(q, set, clear) == set \/ (q /\ ~clear)
ClearFirst(q, set, clear) == ~clear /\ (set \/ q)

\* The registers that hold a read until the flush before it is over.
ReadRegs ==
    /\ WbReadReq' = SetFirst(WbReadReq, WbReadAddrStb, WbReadEnd)
    /\ WbReadAddrReg' = IF WbReadAddrStb THEN s.adr ELSE WbReadAddrReg
    /\ WbReadSelReg'  = IF WbReadAddrStb THEN s.sel ELSE WbReadSelReg
    /\ WbReadWbCyc' = SetFirst(WbReadWbCyc, WbReadAddrStb, WbReadActive /\ m.ack)
    /\ WbReadWbStb' = SetFirst(WbReadWbStb, WbReadAddrStb, WbReadActive /\ ~m.stall)

FlushRegs ==
    /\ BufferFlushReq' = ClearFirst(BufferFlushReq, BufferFlushStb, BufferFlushLastAck)
    /\ BufferWbCyc'    = ClearFirst(BufferWbCyc, BufferFlushStb, BufferFlushLastAck)
    /\ BufferWbStb'    = ClearFirst(BufferWbStb, BufferFlushStb, BufferFlushLastAddr)

\* The counter has one bit more than an index and wraps.
Counter ==
    WbCntVal' =
        IF ~WriteBufferFull /\ WbWriteAddrDataStb /\ WbAddrMatch = {}
        THEN (WbCntVal + 1) % (2 * WBD)
        ELSE IF BufferShiftDown THEN WbCntVal - 1 ELSE WbCntVal

\* A register of one entry, out of the registers q of all of them: moved down
\* by a flush with zero coming in at the top, or else stored when enabled.
EntryReg_Stale(q, i, zero, stored) ==  \* mutant: the top entry keeps its value
    IF BufferShiftDown THEN (IF i = WBD - 1 THEN q[i] ELSE q[i + 1])
    ELSE IF i \in WbAddrSelRegEn THEN stored ELSE q[i]
EntryReg(q, i, zero, stored) ==
    IF BufferShiftDown THEN (IF i = WBD - 1 THEN zero ELSE q[i + 1])
    ELSE IF i \in WbAddrSelRegEn THEN stored ELSE q[i]

\* The lanes of the word old that sel enables are overwritten by those of new.
Merge(old, sel, new) == [l \in Lanes |-> IF l \in sel THEN new[l] ELSE old[l]]

EntryRegs_Replace ==  \* mutant: the lanes of a second write replace those of the first
    /\ WbAddrReg'  = [i \in Entries |-> EntryReg(WbAddrReg, i, 0, s.adr)]
    /\ WbSelReg'   = [i \in Entries |-> EntryReg(WbSelReg, i, {}, s.sel)]
    /\ WbWrDatReg' = [i \in Entries |->
                         EntryReg(WbWrDatReg, i, ZeroWord, Merge(WbWrDatReg[i], s.sel, s.dat))]

EntryRegs ==
    /\ WbAddrReg'  = [i \in Entries |-> EntryReg(WbAddrReg, i, 0, s.adr)]
    /\ WbSelReg'   = [i \in Entries |-> EntryReg(WbSelReg, i, {}, WbSelReg[i] \cup s.sel)]
    /\ WbWrDatReg' = [i \in Entries |->
                         EntryReg(WbWrDatReg, i, ZeroWord, Merge(WbWrDatReg[i], s.sel, s.dat))]

StoreReg_New ==  \* mutant: only a new entry is acknowledged
    WriteBufferStoreReg' = (WbAddrSelRegEn # {} /\ WbAddrMatch = {})
StoreReg == WriteBufferStoreReg' = (WbAddrSelRegEn # {})

BurstRegs ==
    IF BufferFlushActive /\ ~m.stall
    THEN /\ LastWbCti' = BufferWbCti
         /\ LastWbAddrIncrBurst' = WbAddrIncrBurst
         /\ LastWbSelIncrBurst'  = WbSelIncrBurst
    ELSE UNCHANGED burstRegs

WriteBufferEdge ==
    ReadRegs /\ FlushRegs /\ Counter /\ EntryRegs /\ StoreReg /\ BurstRegs

----------------------------------------------------------------------------
WriteBufferTypeOK ==
    /\ s \in Request
    /\ m \in [ack : BOOLEAN, stall : BOOLEAN, err : BOOLEAN]
    /\ WbReadReq \in BOOLEAN
    /\ WbReadAddrReg \in Addrs
    /\ WbReadSelReg \in SUBSET Lanes
    /\ WriteBufferStoreReg \in BOOLEAN
    /\ BufferFlushReq \in BOOLEAN
    /\ WbCntVal \in 0 .. 2 * WBD - 1
    /\ WbAddrReg  \in [Entries -> Addrs]
    /\ WbSelReg   \in [Entries -> SUBSET Lanes]
    /\ WbWrDatReg \in [Entries -> Word]
    /\ BufferWbCyc \in BOOLEAN /\ BufferWbStb \in BOOLEAN
    /\ WbReadWbCyc \in BOOLEAN /\ WbReadWbStb \in BOOLEAN
    /\ LastWbCti \in Cti
    /\ LastWbAddrIncrBurst \in BOOLEAN /\ LastWbSelIncrBurst \in BOOLEAN
=============================================================================
