---------------------------- MODULE RamPathProofs ----------------------------
(***************************************************************************)
(* Proofs about the path to the platform RAM, for every set of addresses,  *)
(* lanes and values and every depth of the buffer.                         *)
(***************************************************************************)
EXTENDS RamPathProps, TLAPS

\* The values the constants of this file may take.
LEMMA ConstantFacts ==
    /\ Addrs \subseteq Nat /\ 0 \in Addrs /\ 0 \in Values
    /\ WBD \in Nat /\ WBD >= 2
    /\ ZeroWord \in Word
    /\ Idle \in Request
    /\ Writes \subseteq Request /\ Reads \subseteq Request
<1>1. ZeroWord \in Word
  BY ValuesAssumption DEF ZeroWord, Word
<1>2. Idle \in Request
  BY <1>1, AddrsAssumption DEF Idle, Request
<1>3. Writes \subseteq Request
  BY WriteSelsAssumption DEF Writes, Request
<1>4. Reads \subseteq Request
  BY <1>1, ReadSelsAssumption DEF Reads, Request
<1> QED
  BY <1>1, <1>2, <1>3, <1>4, AddrsAssumption, ValuesAssumption, WBDAssumption

LEMMA MergeType ==
    ASSUME NEW old \in Word, NEW new \in Word, NEW sel
    PROVE  Merge(old, sel, new) \in Word
BY DEF Merge, Word

LEMMA InitType == Init => TypeOK
<1> USE ConstantFacts
<1> SUFFICES ASSUME Init PROVE TypeOK
  OBVIOUS
<1>1. m \in [ack : BOOLEAN, stall : BOOLEAN, err : BOOLEAN]
  BY DEF Init
<1>2. 0 \in 0 .. 2 * WBD - 1 /\ "classic" \in Cti
  BY DEF Cti
<1>3. /\ WbAddrReg \in [Entries -> Addrs] /\ WbSelReg \in [Entries -> SUBSET Lanes]
      /\ WbWrDatReg \in [Entries -> Word]
  BY DEF Init, WriteBufferInit
<1> QED
  BY <1>1, <1>2, <1>3 DEF Init, WriteBufferInit, TypeOK, WriteBufferTypeOK

\* One edge of the clock preserves the types, given that the counter is not
\* decremented below zero, which BufferShiftDown itself rules out.
LEMMA StepType == TypeOK /\ [Clock]_vars => TypeOK'
<1> SUFFICES ASSUME TypeOK, [Clock]_vars PROVE TypeOK'
  OBVIOUS
<1> USE ConstantFacts
<1>1. CASE UNCHANGED vars
  BY <1>1 DEF TypeOK, WriteBufferTypeOK, vars, bufferRegs, readRegs, flushRegs, entryRegs, burstRegs,
     Entries, Word, Request, Cti
<1>2. CASE Clock
  <2>1. s' \in Request
    BY <1>2 DEF Clock, CoreStb, TypeOK, WriteBufferTypeOK
  <2>2. m' \in [ack : BOOLEAN, stall : BOOLEAN, err : BOOLEAN]
    <3>1. m' \in [ack : BOOLEAN, stall : BOOLEAN, err : {FALSE}]
      BY <1>2 DEF Clock, SlaveAnswer
    <3> QED BY <3>1
  <2>3. /\ WbReadReq' \in BOOLEAN /\ WbReadWbCyc' \in BOOLEAN /\ WbReadWbStb' \in BOOLEAN
        /\ WbReadAddrReg' \in Addrs /\ WbReadSelReg' \in SUBSET Lanes
    <3>1. s.adr \in Addrs /\ s.sel \in SUBSET Lanes
      BY DEF TypeOK, WriteBufferTypeOK, Request
    <3> QED BY <1>2, <3>1 DEF Clock, WriteBufferEdge, ReadRegs, SetFirst, TypeOK, WriteBufferTypeOK
  <2>4. BufferFlushReq' \in BOOLEAN /\ BufferWbCyc' \in BOOLEAN /\ BufferWbStb' \in BOOLEAN
    BY <1>2 DEF Clock, WriteBufferEdge, FlushRegs, ClearFirst
  <2>5. WbCntVal' \in 0 .. 2 * WBD - 1
    <3> WbCntVal \in 0 .. 2 * WBD - 1
      BY DEF TypeOK, WriteBufferTypeOK
    <3>1. (WbCntVal + 1) % (2 * WBD) \in 0 .. 2 * WBD - 1
      OBVIOUS
    <3>2. BufferShiftDown => WbCntVal - 1 \in 0 .. 2 * WBD - 1
      BY DEF BufferShiftDown
    <3> QED BY <1>2, <3>1, <3>2 DEF Clock, WriteBufferEdge, Counter
  <2>6. /\ WbAddrReg' \in [Entries -> Addrs]
        /\ WbSelReg' \in [Entries -> SUBSET Lanes]
        /\ WbWrDatReg' \in [Entries -> Word]
    <3> s.adr \in Addrs /\ s.sel \in SUBSET Lanes /\ s.dat \in Word
      BY DEF TypeOK, WriteBufferTypeOK, Request
    <3> /\ WbAddrReg \in [Entries -> Addrs] /\ WbSelReg \in [Entries -> SUBSET Lanes]
        /\ WbWrDatReg \in [Entries -> Word]
      BY DEF TypeOK, WriteBufferTypeOK
    <3>1. \A i \in Entries : i # WBD - 1 => i + 1 \in Entries
      BY DEF Entries
    <3>2. \A i \in Entries : EntryReg(WbAddrReg, i, 0, s.adr) \in Addrs
      BY <3>1 DEF EntryReg
    <3>3. \A i \in Entries : EntryReg(WbSelReg, i, {}, WbSelReg[i] \cup s.sel) \in SUBSET Lanes
      BY <3>1 DEF EntryReg
    <3>4. \A i \in Entries :
            EntryReg(WbWrDatReg, i, ZeroWord, Merge(WbWrDatReg[i], s.sel, s.dat)) \in Word
      BY <3>1, MergeType DEF EntryReg
    <3> QED BY <1>2, <3>2, <3>3, <3>4 DEF Clock, WriteBufferEdge, EntryRegs
  <2>7. WriteBufferStoreReg' \in BOOLEAN
    BY <1>2 DEF Clock, WriteBufferEdge, StoreReg
  <2>8. LastWbCti' \in Cti /\ LastWbAddrIncrBurst' \in BOOLEAN /\ LastWbSelIncrBurst' \in BOOLEAN
    BY <1>2 DEF Clock, WriteBufferEdge, BurstRegs, burstRegs, BufferWbCti, WbAddrIncrBurst,
       WbSelIncrBurst, Cti, TypeOK, WriteBufferTypeOK
  <2>9. CoreDataAdrWriteBuffSelReg' \in BOOLEAN
    BY <1>2 DEF Clock, WriteBuffSelReg, SetFirst
  <2>10. inflight' \in Request /\ rsp' \in Word
    <3>1. inflight' \in Request
      BY <1>2 DEF Clock, CoreMem, TypeOK, WriteBufferTypeOK
    <3>2. Merge(ZeroWord, inflight.sel, mem[slv.adr]) \in Word
      <4>1. mem[slv.adr] \in Word
        BY DEF TypeOK, Request
      <4> QED BY <4>1, MergeType
    <3> QED BY <1>2, <3>1, <3>2 DEF Clock, CoreMem, TypeOK
  <2>11. slv' \in Request
    <3>1. WB_M_REQ \in Request
      <4>1. WbAddrReg[0] \in Addrs /\ WbSelReg[0] \in SUBSET Lanes /\ WbWrDatReg[0] \in Word
        BY DEF TypeOK, WriteBufferTypeOK, Entries
      <4> QED BY <4>1 DEF WB_M_REQ, Request, TypeOK, WriteBufferTypeOK
    <3> QED BY <1>2, <3>1 DEF Clock, SlaveAccess, TypeOK
  <2>12. mem' \in [Addrs -> Word]
    <3>1. Merge(mem[slv.adr], slv.sel, slv.dat) \in Word
      BY MergeType DEF TypeOK, Request
    <3> QED BY <1>2, <3>1 DEF Clock, SlaveAccess, TypeOK
  <2> QED
    BY <2>1, <2>2, <2>3, <2>4, <2>5, <2>6, <2>7, <2>8, <2>9, <2>10, <2>11, <2>12
    DEF TypeOK, WriteBufferTypeOK, Entries, Word, Request, Cti
<1> QED BY <1>1, <1>2

\* Every register keeps to its type: in particular the counter never leaves the
\* range of its bits, whatever the core does.
THEOREM TypeCorrect == Spec => []TypeOK
<1>1. Init => TypeOK
  BY InitType
<1>2. TypeOK /\ [Clock]_vars => TypeOK'
  BY StepType
<1> QED BY <1>1, <1>2, PTL DEF Spec

----------------------------------------------------------------------------
\* What one edge does to the entries.

\* A store goes to entry k: its own, if it has one, or else the next free one.
StoredAt(k) ==
    /\ WbWriteAddrDataStb
    /\ k \in Entries /\ k <= WbCntVal
    /\ \/ k < WbCntVal /\ WbAddrReg[k] = s.adr /\ WbCntVal' = WbCntVal
       \/ /\ k = WbCntVal /\ WbCntVal' = WbCntVal + 1
          /\ \A i \in Entries : i < WbCntVal => WbAddrReg[i] # s.adr
    /\ WbAddrReg' = [WbAddrReg EXCEPT ![k] = s.adr]
    /\ WbSelReg'  = [WbSelReg EXCEPT ![k] = @ \cup s.sel]
    /\ WbWrDatReg' = [WbWrDatReg EXCEPT ![k] = Merge(@, s.sel, s.dat)]
    /\ WriteBufferStoreReg'

\* The entries move down by one.
Shifted ==
    /\ BufferShiftDown /\ ~WriteBufferStoreReg'
    /\ WbCntVal # 0 /\ WbCntVal' = WbCntVal - 1
    /\ WbAddrReg' = [i \in Entries |-> IF i = WBD - 1 THEN 0 ELSE WbAddrReg[i + 1]]
    /\ WbSelReg'  = [i \in Entries |-> IF i = WBD - 1 THEN {} ELSE WbSelReg[i + 1]]
    /\ WbWrDatReg' = [i \in Entries |-> IF i = WBD - 1 THEN ZeroWord ELSE WbWrDatReg[i + 1]]

Kept ==
    /\ ~WbWriteAddrDataStb /\ ~BufferShiftDown /\ ~WriteBufferStoreReg'
    /\ UNCHANGED << WbCntVal, WbAddrReg, WbSelReg, WbWrDatReg >>

\* An address is in at most one entry, so the priority decode of the matches
\* changes nothing.
LEMMA OneMatch ==
    ASSUME TypeOK, DistinctEntries
    PROVE  /\ WbAddrMatch = WbAddrMatchOneHot
           /\ \A i, j \in WbAddrMatchOneHot : i = j
<1>1. \A i, j \in WbAddrMatchOneHot : i = j
  BY DEF WbAddrMatchOneHot, DistinctEntries
<1>2. \A i \in WbAddrMatchOneHot : i <= i
  BY DEF WbAddrMatchOneHot, Entries
<1> QED BY <1>1, <1>2 DEF WbAddrMatch

LEMMA StoreEntry ==
    ASSUME TypeOK, Clock, ~BufferShiftDown, NEW k \in Entries, WbAddrSelRegEn = {k}
    PROVE  /\ WbAddrReg' = [WbAddrReg EXCEPT ![k] = s.adr]
           /\ WbSelReg'  = [WbSelReg EXCEPT ![k] = @ \cup s.sel]
           /\ WbWrDatReg' = [WbWrDatReg EXCEPT ![k] = Merge(@, s.sel, s.dat)]
           /\ WriteBufferStoreReg'
<1>0. /\ WbAddrReg \in [Entries -> Addrs] /\ WbSelReg \in [Entries -> SUBSET Lanes]
      /\ WbWrDatReg \in [Entries -> Word]
  BY DEF TypeOK, WriteBufferTypeOK
<1>2. WbAddrReg' = [WbAddrReg EXCEPT ![k] = s.adr]
  <2>1. \A i \in Entries : EntryReg(WbAddrReg, i, 0, s.adr) = IF i = k THEN s.adr ELSE WbAddrReg[i]
    BY DEF EntryReg
  <2>2. WbAddrReg' = [i \in Entries |-> EntryReg(WbAddrReg, i, 0, s.adr)]
    BY DEF Clock, WriteBufferEdge, EntryRegs
  <2>3. WbAddrReg' = [i \in Entries |-> IF i = k THEN s.adr ELSE WbAddrReg[i]]
    BY <2>1, <2>2, Zenon
  <2> QED BY <1>0, <2>3
<1>3. WbSelReg' = [WbSelReg EXCEPT ![k] = @ \cup s.sel]
  <2>1. \A i \in Entries : EntryReg(WbSelReg, i, {}, WbSelReg[i] \cup s.sel) = IF i = k THEN WbSelReg[k] \cup s.sel ELSE WbSelReg[i]
    BY DEF EntryReg
  <2>2. WbSelReg' = [i \in Entries |-> EntryReg(WbSelReg, i, {}, WbSelReg[i] \cup s.sel)]
    BY DEF Clock, WriteBufferEdge, EntryRegs
  <2>3. WbSelReg' = [i \in Entries |-> IF i = k THEN WbSelReg[k] \cup s.sel ELSE WbSelReg[i]]
    BY <2>1, <2>2, Zenon
  <2> QED BY <1>0, <2>3
<1>4. WbWrDatReg' = [WbWrDatReg EXCEPT ![k] = Merge(@, s.sel, s.dat)]
  <2>1. \A i \in Entries : EntryReg(WbWrDatReg, i, ZeroWord, Merge(WbWrDatReg[i], s.sel, s.dat)) = IF i = k THEN Merge(WbWrDatReg[k], s.sel, s.dat) ELSE WbWrDatReg[i]
    BY DEF EntryReg
  <2>2. WbWrDatReg' = [i \in Entries |-> EntryReg(WbWrDatReg, i, ZeroWord, Merge(WbWrDatReg[i], s.sel, s.dat))]
    BY DEF Clock, WriteBufferEdge, EntryRegs
  <2>3. WbWrDatReg' = [i \in Entries |-> IF i = k THEN Merge(WbWrDatReg[k], s.sel, s.dat) ELSE WbWrDatReg[i]]
    BY <2>1, <2>2, Zenon
  <2> QED BY <1>0, <2>3
<1>5. WriteBufferStoreReg'
  BY DEF Clock, WriteBufferEdge, StoreReg
<1> QED BY <1>2, <1>3, <1>4, <1>5

LEMMA EntryStep ==
    ASSUME IInv, Clock
    PROVE  (\E k \in Entries : StoredAt(k)) \/ Shifted \/ Kept
<1> USE ConstantFacts
<1>0. /\ TypeOK /\ DistinctEntries /\ ~Overflow /\ WbCntVal <= WBD /\ WbCntVal \in Nat
      /\ WbAddrReg \in [Entries -> Addrs] /\ WbSelReg \in [Entries -> SUBSET Lanes]
      /\ WbWrDatReg \in [Entries -> Word]
  BY DEF IInv, EntriesOK, CountInRange, TypeOK, WriteBufferTypeOK
<1>1. CASE WbWriteAddrDataStb
  <2>1. ~BufferFlushActive /\ ~WriteBufferFull /\ ~BufferShiftDown /\ s.op = "write"
    BY <1>1 DEF WbWriteAddrDataStb, WB_S_STALL, BufferShiftDown
  <2>2. CASE WbAddrMatch # {}
    <3>1. PICK k \in WbAddrMatch : TRUE
      BY <2>2
    <3>2. k \in Entries /\ k < WbCntVal /\ WbAddrReg[k] = s.adr
      BY <3>1 DEF WbAddrMatch, WbAddrMatchOneHot
    <3>3. WbAddrMatch = {k}
      BY <1>0, <3>1, OneMatch
    <3>4. WbAddrSelRegEn = {k}
      BY <1>1, <2>1, <3>2, <3>3 DEF WbAddrSelRegEn
    <3>5. WbCntVal' = WbCntVal
      BY <2>1, <3>3 DEF Clock, WriteBufferEdge, Counter
    <3>6. /\ WbAddrReg' = [WbAddrReg EXCEPT ![k] = s.adr]
          /\ WbSelReg'  = [WbSelReg EXCEPT ![k] = @ \cup s.sel]
          /\ WbWrDatReg' = [WbWrDatReg EXCEPT ![k] = Merge(@, s.sel, s.dat)]
          /\ WriteBufferStoreReg'
      BY <1>0, <2>1, <3>2, <3>4, StoreEntry
    <3>7. k <= WbCntVal
      BY <1>0, <3>2 DEF Entries
    <3>8. StoredAt(k)
      BY <1>1, <3>2, <3>5, <3>6, <3>7 DEF StoredAt
    <3> QED BY <3>2, <3>8
  <2>3. CASE WbAddrMatch = {}
    <3>1. \A i \in Entries : i < WbCntVal => WbAddrReg[i] # s.adr
      BY <1>0, <2>3, OneMatch DEF WbAddrMatchOneHot
    <3>2. WbCntVal < WBD /\ WbCntVal \in Entries
      BY <1>0, <2>1, <2>3 DEF Overflow, Entries
    <3>3. WbAddrSelRegEn = {WbCntVal}
      BY <1>1, <2>1, <2>3, <3>2 DEF WbAddrSelRegEn
    <3>4. WbCntVal' = WbCntVal + 1
      <4>1. (WbCntVal + 1) % (2 * WBD) = WbCntVal + 1
        BY <1>0, <3>2
      <4> QED BY <1>1, <2>1, <2>3, <4>1 DEF Clock, WriteBufferEdge, Counter
    <3>5. PICK k \in Entries : k = WbCntVal
      BY <3>2
    <3>6. WbAddrSelRegEn = {k}
      BY <3>3, <3>5
    <3>7. /\ WbAddrReg' = [WbAddrReg EXCEPT ![k] = s.adr]
          /\ WbSelReg'  = [WbSelReg EXCEPT ![k] = @ \cup s.sel]
          /\ WbWrDatReg' = [WbWrDatReg EXCEPT ![k] = Merge(@, s.sel, s.dat)]
          /\ WriteBufferStoreReg'
      BY <1>0, <2>1, <3>6, StoreEntry
    <3>8. k <= WbCntVal
      BY <1>0, <3>5
    <3>9. StoredAt(k)
      BY <1>1, <3>1, <3>4, <3>5, <3>7, <3>8 DEF StoredAt
    <3> QED BY <3>9
  <2> QED BY <2>2, <2>3
<1>2. CASE ~WbWriteAddrDataStb
  <2>1. WbAddrSelRegEn = {} /\ ~WriteBufferStoreReg'
    BY <1>2 DEF WbAddrSelRegEn, Clock, WriteBufferEdge, StoreReg
  <2>2. CASE BufferShiftDown
    <3>1. Shifted
      BY <1>0, <1>2, <2>1, <2>2
      DEF Shifted, BufferShiftDown, Clock, WriteBufferEdge, Counter, EntryRegs, EntryReg
    <3> QED BY <3>1
  <2>3. CASE ~BufferShiftDown
    <3>1. Kept
      BY <1>0, <1>2, <2>1, <2>3 DEF Kept, Clock, WriteBufferEdge, Counter, EntryRegs, EntryReg
    <3> QED BY <3>1
  <2> QED BY <2>2, <2>3
<1> QED BY <1>1, <1>2

----------------------------------------------------------------------------
\* One edge preserves each part of the invariant.

LEMMA StepEntries ==
    ASSUME IInv, Clock PROVE EntriesOK' /\ WholeEntries'
<1> USE ConstantFacts
<1>0. /\ TypeOK /\ EntriesOK /\ WholeEntries /\ InputOK
      /\ WbCntVal \in Nat /\ WbCntVal <= WBD /\ s.sel \subseteq Lanes
      /\ WbAddrReg \in [Entries -> Addrs] /\ WbSelReg \in [Entries -> SUBSET Lanes]
  BY DEF IInv, EntriesOK, CountInRange, TypeOK, WriteBufferTypeOK, Request
<1>1. ASSUME NEW k \in Entries, StoredAt(k) PROVE EntriesOK' /\ WholeEntries'
  <2>1. s.op = "write" /\ s.sel \in WriteSels /\ s.sel # {}
    BY <1>0, <1>1, WriteSelsAssumption DEF StoredAt, WbWriteAddrDataStb, InputOK
  <2>2. WbCntVal' = WbCntVal \/ (WbCntVal' = WbCntVal + 1 /\ k = WbCntVal)
    BY <1>1 DEF StoredAt
  <2>3. WbCntVal' <= WBD
    BY <1>0, <2>2 DEF Entries
  <2>4. \A i \in Entries : i < WbCntVal' => i < WbCntVal \/ i = k
    BY <1>0, <2>2 DEF Entries
  <2>5. k < WbCntVal'
    BY <1>0, <1>1 DEF StoredAt, Entries
  <2>6. /\ WbAddrReg' = [WbAddrReg EXCEPT ![k] = s.adr]
        /\ WbSelReg'  = [WbSelReg EXCEPT ![k] = @ \cup s.sel]
    BY <1>1 DEF StoredAt
  <2>7. DistinctEntries'
    <3>1. \A i \in Entries : i < WbCntVal /\ WbAddrReg[i] = s.adr => i = k
      BY <1>0, <1>1 DEF StoredAt, EntriesOK, DistinctEntries
    <3> QED BY <1>0, <2>4, <2>6, <3>1 DEF EntriesOK, DistinctEntries
  <2>8. FreeEntriesClear'
    <3>1. \A i \in Entries : i >= WbCntVal' => i >= WbCntVal /\ i # k
      BY <1>0, <2>2, <2>5 DEF Entries
    <3> QED BY <1>0, <2>6, <3>1 DEF EntriesOK, FreeEntriesClear
  <2>9. UsedEntriesSelected'
    BY <1>0, <2>1, <2>4, <2>6 DEF EntriesOK, UsedEntriesSelected
  <2>10. WholeEntries'
    BY <1>0, <2>1, <2>4, <2>6 DEF WholeEntries
  <2> QED BY <2>3, <2>7, <2>8, <2>9, <2>10 DEF EntriesOK, CountInRange
<1>2. CASE Shifted
  <2>1. \A i \in Entries : i < WbCntVal' => i + 1 \in Entries /\ i + 1 < WbCntVal /\ i # WBD - 1
    BY <1>0, <1>2 DEF Shifted, Entries
  <2>2. \A i \in Entries : i >= WbCntVal' /\ i # WBD - 1 => i + 1 \in Entries /\ i + 1 >= WbCntVal
    BY <1>0, <1>2 DEF Shifted, Entries
  <2>3. /\ WbAddrReg' = [i \in Entries |-> IF i = WBD - 1 THEN 0 ELSE WbAddrReg[i + 1]]
        /\ WbSelReg'  = [i \in Entries |-> IF i = WBD - 1 THEN {} ELSE WbSelReg[i + 1]]
    BY <1>2 DEF Shifted
  <2>4. CountInRange'
    BY <1>0, <1>2 DEF Shifted, CountInRange
  <2>5. DistinctEntries'
    <3> SUFFICES ASSUME NEW i \in Entries, NEW j \in Entries,
                        i < WbCntVal', j < WbCntVal', WbAddrReg'[i] = WbAddrReg'[j]
                 PROVE  i = j
      BY DEF DistinctEntries
    <3>1. WbAddrReg[i + 1] = WbAddrReg[j + 1]
      BY <2>1, <2>3
    <3>2. i + 1 = j + 1
      BY <1>0, <2>1, <3>1 DEF EntriesOK, DistinctEntries
    <3> QED BY <3>2 DEF Entries
  <2>6. FreeEntriesClear'
    BY <1>0, <2>2, <2>3 DEF EntriesOK, FreeEntriesClear
  <2>7. UsedEntriesSelected'
    BY <1>0, <2>1, <2>3 DEF EntriesOK, UsedEntriesSelected
  <2>8. WholeEntries'
    BY <1>0, <2>1, <2>3 DEF WholeEntries
  <2> QED BY <2>4, <2>5, <2>6, <2>7, <2>8 DEF EntriesOK
<1>3. CASE Kept
  BY <1>0, <1>3 DEF Kept, EntriesOK, CountInRange, DistinctEntries, FreeEntriesClear,
     UsedEntriesSelected, WholeEntries
<1> QED BY <1>1, <1>2, <1>3, EntryStep

LEMMA StepFlush ==
    ASSUME IInv, Clock PROVE FlushStrobe' /\ ReadBehindFlush'
<1> USE ConstantFacts
<1>0. /\ TypeOK /\ FlushStrobe /\ ReadBehindFlush
      /\ WbCntVal \in Nat /\ WbCntVal <= WBD
      /\ BufferFlushReq \in BOOLEAN /\ BufferWbCyc \in BOOLEAN /\ BufferWbStb \in BOOLEAN
      /\ m.ack \in BOOLEAN /\ m.stall \in BOOLEAN
  BY DEF IInv, EntriesOK, CountInRange, TypeOK, WriteBufferTypeOK
<1>1. /\ BufferFlushReq' = ClearFirst(BufferFlushReq, BufferFlushStb, BufferFlushLastAck)
      /\ BufferWbCyc' = ClearFirst(BufferWbCyc, BufferFlushStb, BufferFlushLastAck)
      /\ BufferWbStb' = ClearFirst(BufferWbStb, BufferFlushStb, BufferFlushLastAddr)
      /\ WbReadReq' = SetFirst(WbReadReq, WbReadAddrStb, WbReadEnd)
  BY DEF Clock, WriteBufferEdge, FlushRegs, ReadRegs
<1>2. WriteBufferFull => WbCntVal = WBD
  BY DEF WriteBufferFull
<1>3. ASSUME NEW k \in Entries, StoredAt(k) PROVE FlushStrobe' /\ ReadBehindFlush'
  <2>1. s.op = "write" /\ ~WB_S_STALL
    BY <1>3 DEF StoredAt, WbWriteAddrDataStb
  <2>2. ~BufferFlushReq /\ ~WriteBufferFull /\ ~WbReadAddrStb /\ (WbReadReq => m.ack)
    BY <2>1 DEF WB_S_STALL, BufferFlushActive, WbReadAddrStb, WbReadActive, WbReadAck
  <2>3. ~BufferFlushReq' /\ ~BufferWbCyc' /\ ~BufferWbStb'
    BY <1>0, <1>1, <2>2 DEF ClearFirst, BufferFlushStb, FlushStrobe
  <2>4. ~WbReadReq'
    BY <1>1, <2>2 DEF SetFirst, WbReadEnd, WbReadActive
  <2> QED BY <2>3, <2>4 DEF FlushStrobe, ReadBehindFlush, WbReadActive
<1>4. CASE Shifted
  <2>1. BufferFlushReq /\ ~m.stall /\ WbCntVal # 0 /\ WbCntVal' = WbCntVal - 1
    BY <1>4 DEF Shifted, BufferShiftDown, BufferFlushActive
  <2>2. ~BufferFlushLastAck /\ (BufferFlushLastAddr <=> WbCntVal = 1)
    BY <2>1 DEF BufferFlushLastAck, BufferFlushLastAddr, BufferFlushActive
  <2>3. BufferFlushReq' /\ BufferWbCyc'
    BY <1>0, <1>1, <2>1, <2>2 DEF ClearFirst, FlushStrobe
  <2>4. BufferWbStb' <=> WbCntVal' # 0
    BY <1>0, <1>1, <2>1, <2>2 DEF ClearFirst, FlushStrobe
  <2>5. BufferWbStb' \in BOOLEAN /\ BufferFlushReq' \in BOOLEAN /\ BufferWbCyc' \in BOOLEAN
    BY StepType DEF IInv, TypeOK, WriteBufferTypeOK
  <2> QED BY <2>3, <2>4, <2>5 DEF FlushStrobe, ReadBehindFlush, WbReadActive
<1>5. CASE Kept
  <2>1. WbCntVal' = WbCntVal
    BY <1>5 DEF Kept
  <2>2. CASE BufferFlushReq
    <3>1. ~BufferFlushLastAddr
      BY <1>5, <2>2 DEF Kept, BufferShiftDown, BufferFlushLastAddr, BufferFlushActive
    <3>2. BufferFlushLastAck => WbCntVal = 0
      BY DEF BufferFlushLastAck
    <3>3. ~BufferFlushReq' => WbCntVal = 0 /\ ~BufferWbStb'
      BY <1>0, <1>1, <1>2, <2>2 DEF ClearFirst, BufferFlushStb, FlushStrobe, BufferFlushLastAck
    <3>4. BufferFlushReq' <=> BufferWbCyc'
      BY <1>0, <1>1, <2>2 DEF ClearFirst, FlushStrobe
    <3>5. BufferFlushReq' => (BufferWbStb' <=> WbCntVal # 0)
      BY <1>0, <1>1, <1>2, <2>2, <3>1 DEF ClearFirst, BufferFlushStb, FlushStrobe
    <3> QED BY <1>0, <1>1, <2>1, <3>3, <3>4, <3>5
            DEF FlushStrobe, ReadBehindFlush, WbReadActive, ClearFirst
  <2>3. CASE ~BufferFlushReq
    <3>1. ~BufferFlushLastAddr /\ ~BufferFlushLastAck
      BY <2>3 DEF BufferFlushLastAddr, BufferFlushLastAck, BufferFlushActive
    <3>2. BufferFlushStb => WbCntVal # 0
      BY <1>2 DEF BufferFlushStb
    <3>3. /\ BufferFlushReq' <=> BufferFlushStb
          /\ BufferWbCyc' <=> BufferFlushStb
          /\ BufferWbStb' <=> BufferFlushStb
      BY <1>0, <1>1, <2>3, <3>1 DEF ClearFirst, FlushStrobe, BufferFlushStb
    <3>4. WbReadReq' /\ ~BufferFlushStb => WbCntVal = 0
      BY <1>0, <1>1, <2>3 DEF SetFirst, BufferFlushStb, ReadBehindFlush, WbReadActive
    <3> QED BY <2>1, <3>2, <3>3, <3>4 DEF FlushStrobe, ReadBehindFlush, WbReadActive
  <2> QED BY <2>2, <2>3
<1> QED BY <1>3, <1>4, <1>5, EntryStep

\* The strobe of the core is seen by the buffer and by MIPS1_TOP as one.
LEMMA Agreement == IInv => HandshakeAgrees
BY DEF IInv, HandshakeAgrees, AnswerDue, CoreAccept, CoreDataStall, WB_S_STALL, WB_S_ACK,
   WbReadActive, WbReadAck, BufferFlushActive

LEMMA StepAnswer ==
    ASSUME IInv, Clock PROVE AnswerDue'
<1>1. CASE CoreAccept
  <2>1. s.op # "none" /\ ~WB_S_STALL
    BY <1>1, Agreement DEF HandshakeAgrees
  <2>2. ~BufferFlushReq /\ ~WriteBufferFull /\ (WbReadReq => m.ack)
    BY <2>1 DEF WB_S_STALL, BufferFlushActive, WbReadActive, WbReadAck
  <2>3. CASE s.op = "read"
    <3>1. WbReadReq'
      BY <2>1, <2>3 DEF Clock, WriteBufferEdge, ReadRegs, SetFirst, WbReadAddrStb
    <3> QED BY <3>1 DEF AnswerDue
  <2>4. CASE s.op = "write"
    <3>1. WbWriteAddrDataStb /\ ~WbReadAddrStb
      BY <2>1, <2>4 DEF WbWriteAddrDataStb, WbReadAddrStb
    <3>2. WriteBufferStoreReg'
      BY <3>1, EntryStep DEF StoredAt, Shifted, Kept, BufferShiftDown, WbWriteAddrDataStb,
         WB_S_STALL
    <3>3. ~BufferFlushReq'
      BY <2>2, <3>1 DEF Clock, WriteBufferEdge, FlushRegs, ClearFirst, BufferFlushStb
    <3>4. ~WbReadReq'
      BY <2>2, <3>1 DEF Clock, WriteBufferEdge, ReadRegs, SetFirst, WbReadEnd, WbReadActive
    <3> QED BY <3>2, <3>3, <3>4 DEF AnswerDue
  <2> QED BY <2>1, <2>3, <2>4 DEF IInv, TypeOK, WriteBufferTypeOK, Request
<1>2. CASE ~CoreAccept /\ CoreDataAdrWriteBuffSelReg /\ ~WB_S_ACK
  <2>1. WbReadReq /\ ~WbReadEnd
    BY <1>2 DEF IInv, InputOK, AnswerDue, WB_S_ACK, WbReadEnd, WbReadAck, WbReadActive,
       BufferFlushActive
  <2>2. WbReadReq'
    BY <2>1 DEF Clock, WriteBufferEdge, ReadRegs, SetFirst
  <2> QED BY <2>2 DEF AnswerDue
<1>3. CASE ~CoreAccept /\ ~(CoreDataAdrWriteBuffSelReg /\ ~WB_S_ACK)
  <2>1. ~CoreDataAdrWriteBuffSelReg'
    BY <1>3 DEF Clock, WriteBuffSelReg, SetFirst
  <2> QED BY <2>1 DEF AnswerDue
<1> QED BY <1>1, <1>2, <1>3

LEMMA StepInput ==
    ASSUME IInv, Clock PROVE InputOK'
<1>1. s' = s \/ s' = Idle \/ s' \in Writes \cup Reads
  BY DEF Clock, CoreStb
<1>2. s'.op = "write" => s'.sel \in WriteSels
  BY <1>1 DEF IInv, InputOK, Idle, Writes, Reads
<1>3. ~m'.err
  BY DEF Clock, SlaveAnswer
<1> QED BY <1>2, <1>3 DEF InputOK

\* Stores of whole words never overflow the buffer; neither do the stores of a
\* core that avoids it, since a store that is held waits for an emptier buffer.
LEMMA StepOverflow ==
    ASSUME IInv, Clock, AvoidOverflow \/ WriteSels = {Lanes}
    PROVE  ~Overflow'
<1> USE ConstantFacts
<1>0. /\ TypeOK /\ ReadBehindFlush /\ HandshakeAgrees
      /\ WbCntVal \in Nat /\ WbCntVal <= WBD
  BY Agreement DEF IInv, EntriesOK, CountInRange, TypeOK, WriteBufferTypeOK
<1>1. CASE WriteSels = {Lanes}
  <2>1. WholeEntries'
    BY StepEntries
  <2>2. WbCntVal' = WBD => WbSelReg'[WBD - 1] = Lanes
    BY <1>1, <2>1 DEF WholeEntries, Entries
  <2> QED BY <2>2 DEF Overflow, WriteBufferFull
<1>2. CASE AvoidOverflow
  <2>1. CASE s.op # "none" /\ ~CoreAccept
    <3>1. s' = s /\ WB_S_STALL
      BY <1>0, <2>1 DEF Clock, CoreStb, HandshakeAgrees
    <3>2. Shifted \/ Kept
      BY <3>1, EntryStep DEF StoredAt, WbWriteAddrDataStb
    <3>3. WbCntVal' = WBD => WbCntVal = WBD
      BY <1>0, <3>2 DEF Shifted, Kept
    <3>4. WbCntVal = WBD => BufferFlushReq'
      <4>1. WbCntVal = WBD => WriteBufferFull \/ BufferFlushReq
        BY <1>0, <3>1 DEF WB_S_STALL, BufferFlushActive, ReadBehindFlush
      <4>2. WbCntVal = WBD => ~BufferFlushLastAck
        BY DEF BufferFlushLastAck
      <4>3. BufferFlushReq' = (~BufferFlushLastAck /\ (BufferFlushStb \/ BufferFlushReq))
        BY DEF Clock, WriteBufferEdge, FlushRegs, ClearFirst
      <4>4. WriteBufferFull => BufferFlushStb
        BY DEF BufferFlushStb
      <4> QED BY <4>1, <4>2, <4>3, <4>4
    <3> QED BY <3>3, <3>4 DEF Overflow, BufferFlushActive
  <2>2. CASE ~(s.op # "none" /\ ~CoreAccept)
    <3>1. s' = Idle \/ ~Overflow'
      BY <1>2, <2>2 DEF Clock, CoreStb
    <3> QED BY <3>1 DEF Overflow, Idle
  <2> QED BY <2>1, <2>2
<1> QED BY <1>1, <1>2

\* The memory, the held read and the access in flight stay in step: nothing the
\* memory works on is replaced before it has answered.
LEMMA StepHeld ==
    ASSUME IInv, Clock PROVE SlaveOwned' /\ ReadHeld' /\ InflightHeld'
<1>0. /\ SlaveOwned /\ ReadHeld /\ InflightHeld /\ FlushStrobe /\ ReadBehindFlush /\ AnswerDue
      /\ HandshakeAgrees /\ ~m.err
      /\ WbReadReq \in BOOLEAN /\ WbReadWbCyc \in BOOLEAN /\ WbReadWbStb \in BOOLEAN
      /\ m.ack \in BOOLEAN /\ m.stall \in BOOLEAN /\ BufferFlushReq \in BOOLEAN
      /\ CoreDataAdrWriteBuffSelReg \in BOOLEAN
      /\ s.op \in {"none", "read", "write"} /\ slv.op \in {"none", "read", "write"}
  BY Agreement DEF IInv, InputOK, TypeOK, WriteBufferTypeOK, Request
<1>1. /\ WbReadReq' = SetFirst(WbReadReq, WbReadAddrStb, WbReadEnd)
      /\ WbReadAddrReg' = IF WbReadAddrStb THEN s.adr ELSE WbReadAddrReg
      /\ WbReadWbCyc' = SetFirst(WbReadWbCyc, WbReadAddrStb, WbReadActive /\ m.ack)
      /\ WbReadWbStb' = SetFirst(WbReadWbStb, WbReadAddrStb, WbReadActive /\ ~m.stall)
      /\ BufferFlushReq' = ClearFirst(BufferFlushReq, BufferFlushStb, BufferFlushLastAck)
  BY DEF Clock, WriteBufferEdge, ReadRegs, FlushRegs
<1>2. slv' = IF WB_M_ACCEPT THEN WB_M_REQ ELSE IF m.ack THEN Idle ELSE slv
  BY DEF Clock, SlaveAccess
<1>3. WbReadEnd <=> WbReadActive /\ m.ack
  BY <1>0 DEF WbReadEnd
<1>4. ReadHeld'
  <2>1. WbReadActive /\ m.ack => ~WbReadWbStb
    BY <1>0 DEF SlaveOwned, WbReadActive
  <2> QED BY <1>0, <1>1, <1>3, <2>1 DEF ReadHeld, SetFirst, WbReadActive
<1>5. (m'.ack => slv'.op # "none") /\ (slv'.op # "none" /\ ~m'.ack => m'.stall)
  BY DEF Clock, SlaveAnswer
<1>6. ASSUME slv'.op = "write" PROVE BufferFlushReq'
  <2>1. BufferFlushReq /\ ~BufferFlushLastAck
    <3>1. CASE WB_M_ACCEPT
      <4>1. BufferFlushReq /\ BufferWbStb
        BY <1>2, <1>6, <3>1 DEF WB_M_REQ, BufferFlushActive, Idle
      <4> QED BY <1>0, <4>1 DEF FlushStrobe, BufferFlushLastAck
    <3>2. CASE ~WB_M_ACCEPT
      <4>1. ~m.ack /\ slv.op = "write"
        BY <1>2, <1>6, <3>2 DEF Idle
      <4> QED BY <1>0, <4>1 DEF SlaveOwned, BufferFlushLastAck
    <3> QED BY <3>1, <3>2
  <2> QED BY <1>1, <2>1 DEF ClearFirst
<1>7. ASSUME slv'.op = "read"
      PROVE  WbReadActive' /\ ~WbReadWbStb' /\ slv'.adr = WbReadAddrReg'
  <2>1. /\ WbReadActive /\ ~m.ack
        /\ WbReadWbStb => ~m.stall
        /\ slv'.adr = WbReadAddrReg
    <3>1. CASE WB_M_ACCEPT
      <4>1. WbReadActive /\ WbReadWbStb /\ ~m.stall /\ slv'.adr = WbReadAddrReg
        BY <1>2, <1>7, <3>1 DEF WB_M_ACCEPT, WB_M_REQ, Idle
      <4>2. ~m.ack
        BY <1>0, <4>1 DEF SlaveOwned, WbReadActive
      <4> QED BY <4>1, <4>2
    <3>2. CASE ~WB_M_ACCEPT
      <4>1. ~m.ack /\ slv' = slv
        BY <1>2, <1>7, <3>2 DEF Idle
      <4> QED BY <1>0, <1>7, <4>1 DEF SlaveOwned
    <3> QED BY <3>1, <3>2
  <2>2. ~WbReadAddrStb /\ ~WbReadEnd
    BY <1>3, <2>1 DEF WbReadAddrStb, WB_S_STALL, WbReadAck
  <2>3. ~BufferFlushReq'
    <3>1. WbCntVal = 0 /\ ~BufferFlushReq
      BY <1>0, <2>1 DEF ReadBehindFlush, WbReadActive
    <3>2. ~BufferFlushStb
      BY <2>2, <3>1, ConstantFacts DEF BufferFlushStb, WriteBufferFull
    <3> QED BY <1>1, <3>1, <3>2 DEF ClearFirst
  <2> QED BY <1>0, <1>1, <2>1, <2>2, <2>3 DEF SetFirst, WbReadActive
<1>8. InflightHeld'
  <2>1. /\ inflight' = IF CoreAccept THEN s ELSE IF CoreDataAck \/ CoreDataErr THEN Idle ELSE inflight
        /\ CoreDataAdrWriteBuffSelReg' = SetFirst(CoreDataAdrWriteBuffSelReg, CoreAccept, WB_S_ACK)
    BY DEF Clock, CoreMem, WriteBuffSelReg
  <2>2. CASE CoreAccept
    <3>1. s.op # "none" /\ inflight' = s /\ CoreDataAdrWriteBuffSelReg'
      BY <2>1, <2>2 DEF CoreAccept, SetFirst
    <3>2. s.op = "read" => WbReadAddrStb
      BY <1>0, <2>2 DEF HandshakeAgrees, WbReadAddrStb
    <3>3. s.op = "read" => WbReadReq' /\ WbReadAddrReg' = s.adr
      BY <1>1, <3>2 DEF SetFirst
    <3> QED BY <3>1, <3>3 DEF InflightHeld
  <2>3. CASE ~CoreAccept /\ (CoreDataAck \/ CoreDataErr)
    <3>1. inflight' = Idle /\ ~CoreDataAdrWriteBuffSelReg'
      BY <1>0, <2>1, <2>3 DEF CoreDataAck, CoreDataErr, WB_S_ERR, SetFirst
    <3> QED BY <3>1 DEF InflightHeld, Idle
  <2>4. CASE ~CoreAccept /\ ~(CoreDataAck \/ CoreDataErr)
    <3>1. inflight' = inflight /\ (CoreDataAdrWriteBuffSelReg' <=> CoreDataAdrWriteBuffSelReg)
      BY <1>0, <2>1, <2>4 DEF CoreDataAck, SetFirst
    <3>2. ASSUME inflight.op = "read" PROVE WbReadReq' /\ WbReadAddrReg' = WbReadAddrReg
      <4>1. ~WB_S_ACK
        BY <1>0, <2>4, <3>2 DEF InflightHeld, CoreDataAck
      <4>2. ~WbReadEnd
        BY <1>3, <4>1 DEF WB_S_ACK, WbReadAck
      <4>3. ~WbReadAddrStb
        BY <1>0, <2>4 DEF HandshakeAgrees, WbReadAddrStb
      <4> QED BY <1>0, <1>1, <3>2, <4>2, <4>3 DEF InflightHeld, SetFirst
    <3> QED BY <1>0, <3>1, <3>2 DEF InflightHeld
  <2> QED BY <2>2, <2>3, <2>4
<1> QED BY <1>4, <1>5, <1>6, <1>7, <1>8 DEF SlaveOwned

LEMMA InitInvariant == Init => IInv
<1> SUFFICES ASSUME Init PROVE IInv
  OBVIOUS
<1> USE ConstantFacts
<1>1. TypeOK
  BY InitType
<1>2. EntriesOK /\ WholeEntries
  BY DEF Init, WriteBufferInit, EntriesOK, CountInRange, DistinctEntries, FreeEntriesClear,
     UsedEntriesSelected, WholeEntries, Entries
<1>3. FlushStrobe /\ ReadBehindFlush /\ AnswerDue /\ InputOK /\ ~Overflow
  BY DEF Init, WriteBufferInit, FlushStrobe, ReadBehindFlush, AnswerDue, InputOK, Overflow, Idle
<1>4. SlaveOwned /\ ReadHeld /\ InflightHeld
  BY DEF Init, WriteBufferInit, SlaveOwned, ReadHeld, InflightHeld, Idle
<1> QED BY <1>1, <1>2, <1>3, <1>4 DEF IInv

LEMMA StepInvariant ==
    ASSUME AvoidOverflow \/ WriteSels = {Lanes}
    PROVE  IInv /\ [Clock]_vars => IInv'
<1>1. CASE UNCHANGED vars
  BY <1>1 DEF vars, bufferRegs, readRegs, flushRegs, entryRegs, burstRegs, IInv, TypeOK,
     WriteBufferTypeOK, EntriesOK, CountInRange, DistinctEntries, FreeEntriesClear,
     UsedEntriesSelected, FlushStrobe, ReadBehindFlush, WbReadActive, AnswerDue, WholeEntries,
     SlaveOwned, ReadHeld, InflightHeld, InputOK, Overflow, WriteBufferFull, BufferFlushActive, WbAddrMatch, WbAddrMatchOneHot,
     Entries, Word, Request, Cti
<1>2. ASSUME IInv, Clock PROVE IInv'
  <2>1. TypeOK'
    BY <1>2, StepType DEF IInv
  <2> QED
    BY <1>2, <2>1, StepEntries, StepFlush, StepAnswer, StepHeld, StepInput, StepOverflow DEF IInv
<1> QED BY <1>1, <1>2

\* As long as no store overflows it, the buffer keeps its entries in order, and
\* its flush, its held read, its answers and the select of MIPS1_TOP stay in step.
THEOREM InvariantCorrect ==
    ASSUME AvoidOverflow \/ WriteSels = {Lanes}
    PROVE  Spec => []IInv
<1>1. Init => IInv
  BY InitInvariant
<1>2. IInv /\ [Clock]_vars => IInv'
  BY StepInvariant
<1> QED BY <1>1, <1>2, PTL DEF Spec

\* Under the same condition the entries of the buffer are at most one per
\* address, never more than its depth, with no stale lane in a free one and none
\* without a lane in use.
THEOREM EntriesCorrect ==
    ASSUME AvoidOverflow \/ WriteSels = {Lanes}
    PROVE  Spec => []EntriesOK
<1>1. Spec => []IInv
  BY InvariantCorrect
<1>2. IInv => EntriesOK
  BY DEF IInv
<1> QED BY <1>1, <1>2, PTL

\* Under the same condition the buffer takes each access of the core exactly
\* when the core is told so, a flush strobes exactly the entries there are, a
\* read is let through only behind the flush, and the answer to an access is due
\* as soon as it is accepted.
THEOREM HandshakeCorrect ==
    ASSUME AvoidOverflow \/ WriteSels = {Lanes}
    PROVE  Spec => [](HandshakeAgrees /\ FlushStrobe /\ ReadBehindFlush /\ AnswerDue)
<1>1. Spec => []IInv
  BY InvariantCorrect
<1>2. IInv => HandshakeAgrees /\ FlushStrobe /\ ReadBehindFlush /\ AnswerDue
  BY Agreement DEF IInv
<1> QED BY <1>1, <1>2, PTL

----------------------------------------------------------------------------
\* The path to the RAM implements CoherentMemory, as long as no store
\* overflows the buffer.

\* Entry i is in use and gives lane l of the word at address a.
Gives(i, a, l) == i \in Entries /\ i < WbCntVal /\ WbAddrReg[i] = a /\ l \in WbSelReg[i]

\* The core sees the byte of the entry that gives it: no other entry does.
LEMMA VisibleEntry ==
    ASSUME DistinctEntries, NEW a \in Addrs, NEW l \in Lanes, NEW i, Gives(i, a, l)
    PROVE  Visible[a][l] = WbWrDatReg[i][l]
<1> DEFINE k == CHOOSE j \in Entries : j < WbCntVal /\ WbAddrReg[j] = a /\ l \in WbSelReg[j]
<1>1. k \in Entries /\ k < WbCntVal /\ WbAddrReg[k] = a /\ l \in WbSelReg[k]
  BY DEF Gives
<1>2. k = i
  BY <1>1 DEF Gives, DistinctEntries
<1>3. Visible[a][l] = WbWrDatReg[k][l]
  BY DEF Visible, Gives
<1> QED BY <1>2, <1>3

\* A byte that no entry gives is that of the memory behind the buffer.
LEMMA VisibleMemory ==
    ASSUME NEW a \in Addrs, NEW l \in Lanes, \A i : ~Gives(i, a, l)
    PROVE  Visible[a][l] = WithSlave(a)[l]
BY DEF Visible, Gives

\* The same of the state after a step.
LEMMA VisibleEntryNext ==
    ASSUME DistinctEntries', NEW a \in Addrs, NEW l \in Lanes, NEW i, Gives(i, a, l)'
    PROVE  Visible'[a][l] = WbWrDatReg'[i][l]
<1> DEFINE k == CHOOSE j \in Entries : j < WbCntVal' /\ WbAddrReg'[j] = a /\ l \in WbSelReg'[j]
<1>1. k \in Entries /\ k < WbCntVal' /\ WbAddrReg'[k] = a /\ l \in WbSelReg'[k]
  BY DEF Gives
<1>2. k = i
  BY <1>1 DEF Gives, DistinctEntries
<1>3. Visible'[a][l] = WbWrDatReg'[k][l]
  BY DEF Visible, Gives
<1> QED BY <1>2, <1>3

LEMMA VisibleMemoryNext ==
    ASSUME NEW a \in Addrs, NEW l \in Lanes, \A i : ~Gives(i, a, l)'
    PROVE  Visible'[a][l] = WithSlave(a)'[l]
BY DEF Visible, Gives

\* What the core sees is a word at each address.
LEMMA VisibleType == TypeOK /\ DistinctEntries => Visible \in [Addrs -> Word]
<1> SUFFICES ASSUME TypeOK, DistinctEntries, NEW a \in Addrs, NEW l \in Lanes
             PROVE  Visible[a][l] \in Values
  BY DEF Visible, Word
<1>1. WithSlave(a) \in Word
  BY MergeType DEF WithSlave, TypeOK, Request
<1>2. CASE \E i : Gives(i, a, l)
  BY <1>2, VisibleEntry DEF Gives, TypeOK, WriteBufferTypeOK, Word
<1>3. CASE \A i : ~Gives(i, a, l)
  BY <1>1, <1>3, VisibleMemory DEF Word
<1> QED BY <1>2, <1>3

LEMMA VisibleTypeNext == (TypeOK /\ DistinctEntries => Visible \in [Addrs -> Word])'
BY VisibleType, PTL

----------------------------------------------------------------------------
\* What one edge does to what the core sees.

\* Behind the buffer, the memory and the write it works on together change only
\* by the entry a flush hands over: completing a write moves it, and no access
\* is handed over before the one before it is answered.
LEMMA StepWithSlave ==
    ASSUME IInv, Clock, NEW a \in Addrs
    PROVE  WithSlave(a)' = IF BufferShiftDown /\ WbAddrReg[0] = a
                           THEN Merge(WithSlave(a), WbSelReg[0], WbWrDatReg[0])
                           ELSE WithSlave(a)
<1>0. /\ SlaveOwned /\ FlushStrobe
      /\ slv.op \in {"none", "read", "write"} /\ slv.adr \in Addrs
      /\ mem \in [Addrs -> Word]
      /\ m.ack \in BOOLEAN /\ m.stall \in BOOLEAN
      /\ WbCntVal \in Nat
  BY DEF IInv, TypeOK, WriteBufferTypeOK, Request
<1>1. /\ slv' = IF WB_M_ACCEPT THEN WB_M_REQ ELSE IF m.ack THEN Idle ELSE slv
      /\ mem' = IF m.ack /\ slv.op = "write"
                THEN [mem EXCEPT ![slv.adr] = Merge(@, slv.sel, slv.dat)]
                ELSE mem
  BY DEF Clock, SlaveAccess
<1>2. m.ack \/ slv.op # "write" => mem'[a] = WithSlave(a)
  BY <1>0, <1>1 DEF WithSlave
<1>3. WB_M_ACCEPT => m.ack \/ slv.op = "none"
  BY <1>0 DEF SlaveOwned, WB_M_ACCEPT
<1>4. CASE BufferShiftDown
  <2>1. BufferFlushActive /\ BufferWbStb /\ ~m.stall
    BY <1>0, <1>4 DEF BufferShiftDown, FlushStrobe, BufferFlushActive
  <2>2. /\ WB_M_ACCEPT
        /\ slv' = [op |-> "write", adr |-> WbAddrReg[0], sel |-> WbSelReg[0], dat |-> WbWrDatReg[0]]
    BY <1>1, <2>1 DEF WB_M_ACCEPT, WB_M_REQ
  <2>3. mem'[a] = WithSlave(a)
    BY <1>2, <1>3, <2>2
  <2> QED BY <1>4, <2>2, <2>3 DEF WithSlave
<1>5. CASE ~BufferShiftDown
  <2>1. WB_M_ACCEPT => WB_M_REQ.op = "read" /\ WbReadActive
    BY <1>0, <1>5 DEF BufferShiftDown, FlushStrobe, WB_M_ACCEPT, WB_M_REQ, BufferFlushActive, Idle
  <2>2. WB_M_ACCEPT => slv.op # "write"
    BY <1>0, <2>1 DEF SlaveOwned, WbReadActive
  <2>3. CASE WB_M_ACCEPT \/ m.ack
    <3>1. slv'.op # "write"
      BY <1>1, <2>1, <2>3 DEF Idle
    <3>2. mem'[a] = WithSlave(a)
      BY <1>2, <2>2, <2>3
    <3> QED BY <1>5, <3>1, <3>2 DEF WithSlave
  <2>4. CASE ~(WB_M_ACCEPT \/ m.ack)
    BY <1>1, <1>5, <2>4 DEF WithSlave
  <2> QED BY <2>3, <2>4
<1> QED BY <1>4, <1>5

\* A shift moves the oldest entry from the buffer to the memory and is not seen.
LEMMA ShiftUnseen ==
    ASSUME IInv, Clock, Shifted
    PROVE  Visible' = Visible
<1> USE ConstantFacts
<1>0. /\ TypeOK /\ DistinctEntries /\ WbCntVal \in Nat /\ WbCntVal <= WBD /\ WbCntVal > 0
      /\ 0 \in Entries /\ Entries \subseteq Nat
  BY DEF IInv, EntriesOK, CountInRange, TypeOK, WriteBufferTypeOK, Shifted, Entries
<1>1. DistinctEntries'
  BY StepEntries DEF EntriesOK
<1>2. BufferShiftDown /\ WbCntVal' = WbCntVal - 1
  BY DEF Shifted
<1>3. ASSUME NEW i \in Entries, i < WbCntVal'
      PROVE  /\ i + 1 \in Entries /\ i + 1 < WbCntVal
             /\ WbAddrReg'[i] = WbAddrReg[i + 1] /\ WbSelReg'[i] = WbSelReg[i + 1]
             /\ WbWrDatReg'[i] = WbWrDatReg[i + 1]
  <2>1. i + 1 \in Entries /\ i + 1 < WbCntVal /\ i # WBD - 1
    BY <1>0, <1>2, <1>3 DEF Entries
  <2> QED BY <1>3, <2>1 DEF Shifted
<1>4. ASSUME NEW a \in Addrs, NEW l \in Lanes PROVE Visible'[a][l] = Visible[a][l]
  <2>1. CASE \E i : Gives(i, a, l)'
    <3>1. PICK i : Gives(i, a, l)'
      BY <2>1
    <3>2. i \in Entries /\ i < WbCntVal' /\ WbAddrReg'[i] = a /\ l \in WbSelReg'[i]
      BY <3>1 DEF Gives
    <3>3. Gives(i + 1, a, l) /\ WbWrDatReg'[i] = WbWrDatReg[i + 1]
      BY <1>3, <3>2 DEF Gives
    <3>4. Visible'[a][l] = WbWrDatReg'[i][l]
      BY <1>1, <3>1, VisibleEntryNext
    <3>5. Visible[a][l] = WbWrDatReg[i + 1][l]
      BY <1>0, <3>3, VisibleEntry
    <3> QED BY <3>3, <3>4, <3>5
  <2>2. CASE \A i : ~Gives(i, a, l)'
    <3>1. ASSUME NEW i, Gives(i, a, l) PROVE i = 0
      <4>1. i \in Entries /\ i < WbCntVal /\ WbAddrReg[i] = a /\ l \in WbSelReg[i]
        BY <3>1 DEF Gives
      <4>2. CASE i # 0
        <5>1. i - 1 \in Entries /\ i - 1 < WbCntVal' /\ (i - 1) + 1 = i
          BY <1>0, <1>2, <4>1, <4>2 DEF Entries
        <5>2. WbAddrReg'[i - 1] = a /\ l \in WbSelReg'[i - 1]
          BY <1>3, <4>1, <5>1
        <5>3. Gives(i - 1, a, l)'
          BY <5>1, <5>2 DEF Gives
        <5> QED BY <2>2, <5>3
      <4> QED BY <4>2
    <3>2. Visible'[a][l] = WithSlave(a)'[l]
      BY <2>2, VisibleMemoryNext
    <3>3. WithSlave(a)' = IF WbAddrReg[0] = a
                          THEN Merge(WithSlave(a), WbSelReg[0], WbWrDatReg[0])
                          ELSE WithSlave(a)
      BY <1>2, StepWithSlave
    <3>4. CASE Gives(0, a, l)
      <4>1. Visible[a][l] = WbWrDatReg[0][l]
        BY <1>0, <3>4, VisibleEntry
      <4>2. WithSlave(a)'[l] = WbWrDatReg[0][l]
        BY <3>3, <3>4 DEF Gives, Merge
      <4> QED BY <3>2, <4>1, <4>2
    <3>5. CASE ~Gives(0, a, l)
      <4>1. Visible[a][l] = WithSlave(a)[l]
        BY <3>1, <3>5, VisibleMemory
      <4>2. ~(WbAddrReg[0] = a /\ l \in WbSelReg[0])
        BY <1>0, <3>5 DEF Gives
      <4>3. WithSlave(a)'[l] = WithSlave(a)[l]
        BY <3>3, <4>2 DEF Merge
      <4> QED BY <3>2, <4>1, <4>3
    <3> QED BY <3>4, <3>5
  <2> QED BY <2>1, <2>2
<1> QED BY <1>4 DEF Visible

\* Neither is an edge that leaves the entries as they are.
LEMMA KeepUnseen ==
    ASSUME IInv, Clock, Kept
    PROVE  Visible' = Visible
<1>1. \A a \in Addrs : WithSlave(a)' = WithSlave(a)
  BY StepWithSlave DEF Kept
<1> QED BY <1>1 DEF Kept, Visible

\* A store changes the bytes it selects, in a new entry or in the one its
\* address has, and no other.
LEMMA StoreSeen ==
    ASSUME IInv, Clock, NEW k, StoredAt(k)
    PROVE  Visible' = [Visible EXCEPT ![s.adr] = Merge(@, s.sel, s.dat)]
<1> USE ConstantFacts
<1>0. /\ TypeOK /\ DistinctEntries /\ FreeEntriesClear
      /\ WbCntVal \in Nat /\ Entries \subseteq Nat /\ k \in Entries /\ k \in Nat
      /\ s.adr \in Addrs /\ s.sel \subseteq Lanes /\ s.dat \in Word
      /\ WbAddrReg \in [Entries -> Addrs] /\ WbSelReg \in [Entries -> SUBSET Lanes]
      /\ WbWrDatReg \in [Entries -> Word]
  BY DEF IInv, EntriesOK, TypeOK, WriteBufferTypeOK, StoredAt, Entries, Request
<1>1. DistinctEntries'
  BY StepEntries DEF EntriesOK
<1>2. \A a \in Addrs : WithSlave(a)' = WithSlave(a)
  <2>1. ~BufferShiftDown
    BY DEF StoredAt, WbWriteAddrDataStb, WB_S_STALL, BufferShiftDown
  <2> QED BY <2>1, StepWithSlave
<1>3. /\ WbAddrReg' = [WbAddrReg EXCEPT ![k] = s.adr]
      /\ WbSelReg'  = [WbSelReg EXCEPT ![k] = @ \cup s.sel]
      /\ WbWrDatReg' = [WbWrDatReg EXCEPT ![k] = Merge(@, s.sel, s.dat)]
  BY DEF StoredAt
<1>4. /\ k < WbCntVal'
      /\ \A i \in Entries : i # k => (i < WbCntVal' <=> i < WbCntVal)
      /\ \A i \in Entries : i < WbCntVal /\ WbAddrReg[i] = s.adr => i = k
      /\ (k < WbCntVal /\ WbAddrReg[k] = s.adr) \/ k >= WbCntVal
  BY <1>0 DEF StoredAt, DistinctEntries
<1>5. ASSUME NEW a \in Addrs, NEW l \in Lanes, a # s.adr \/ l \notin s.sel
      PROVE  Visible'[a][l] = Visible[a][l]
  <2>1. ASSUME NEW i PROVE Gives(i, a, l)' <=> Gives(i, a, l)
    <3>1. CASE i # k
      BY <1>0, <1>3, <1>4, <3>1 DEF Gives
    <3>2. CASE i = k
      <4>1. Gives(i, a, l)' <=> s.adr = a /\ l \in WbSelReg[k] \cup s.sel
        BY <1>0, <1>3, <1>4, <3>2 DEF Gives
      <4>2. l \in WbSelReg[k] => k < WbCntVal
        BY <1>0 DEF FreeEntriesClear
      <4> QED BY <1>0, <1>4, <1>5, <3>2, <4>1, <4>2 DEF Gives
    <3> QED BY <3>1, <3>2
  <2>2. CASE \E i : Gives(i, a, l)
    <3>1. PICK i : Gives(i, a, l)
      BY <2>2
    <3>2. Visible[a][l] = WbWrDatReg[i][l] /\ Visible'[a][l] = WbWrDatReg'[i][l]
      BY <1>0, <1>1, <2>1, <3>1, VisibleEntry, VisibleEntryNext
    <3>3. WbWrDatReg'[i][l] = WbWrDatReg[i][l]
      <4>1. i = k => l \notin s.sel
        BY <1>0, <1>4, <1>5, <3>1 DEF Gives
      <4> QED BY <1>0, <1>3, <3>1, <4>1 DEF Gives, Merge
    <3> QED BY <3>2, <3>3
  <2>3. CASE \A i : ~Gives(i, a, l)
    <3>1. Visible[a][l] = WithSlave(a)[l]
      BY <2>3, VisibleMemory
    <3>2. Visible'[a][l] = WithSlave(a)'[l]
      BY <2>1, <2>3, VisibleMemoryNext
    <3> QED BY <1>2, <3>1, <3>2
  <2> QED BY <2>2, <2>3
<1>6. ASSUME NEW a \in Addrs, a = s.adr, NEW l \in s.sel PROVE Visible'[a][l] = s.dat[l]
  <2>1. l \in Lanes /\ Gives(k, a, l)'
    BY <1>0, <1>3, <1>4, <1>6 DEF Gives
  <2>2. Visible'[a][l] = WbWrDatReg'[k][l]
    BY <1>1, <2>1, VisibleEntryNext
  <2> QED BY <1>0, <1>3, <2>1, <2>2 DEF Merge
<1>7. Visible \in [Addrs -> Word] /\ Visible' \in [Addrs -> Word]
  BY <1>0, <1>1, VisibleType, VisibleTypeNext, StepType
<1> DEFINE expected == [Visible EXCEPT ![s.adr] = Merge(@, s.sel, s.dat)]
<1>8. ASSUME NEW a \in Addrs, NEW l \in Lanes PROVE Visible'[a][l] = expected[a][l]
  <2>1. expected[a] = IF a = s.adr THEN Merge(Visible[s.adr], s.sel, s.dat) ELSE Visible[a]
    BY <1>0, <1>7
  <2> QED BY <1>5, <1>6, <2>1 DEF Merge
<1>9. expected \in [Addrs -> Word]
  BY <1>0, <1>7, MergeType
<1>10. \A a \in Addrs : Visible'[a] = expected[a]
  <2> TAKE a \in Addrs
  <2>1. Visible'[a] \in [Lanes -> Values] /\ expected[a] \in [Lanes -> Values]
    BY <1>7, <1>9 DEF Word
  <2> QED BY <1>8, <2>1
<1> QED BY <1>7, <1>9, <1>10

----------------------------------------------------------------------------
\* The initial state, and each edge, of the path are those of a memory.

LEMMA InitCoherent == Init => CM!Init
<1> SUFFICES ASSUME Init PROVE CM!Init
  OBVIOUS
<1>1. Visible \in [Addrs -> CM!Word]
  <2>1. TypeOK /\ DistinctEntries
    BY InitInvariant DEF IInv, EntriesOK
  <2> QED BY <2>1, VisibleType DEF CM!Word, Word
<1> QED BY <1>1 DEF Init, Idle, ZeroWord, CM!Init

\* Only the answer to a load changes what the core captured, and it brings the
\* bytes the core should see: the buffer is empty when a read reaches the memory,
\* and the memory works on that read.
LEMMA AnswerCoherent ==
    ASSUME IInv, Clock
    PROVE  IF CoreDataAck THEN inflight.op # "none" /\ CM!Answer ELSE rsp' = rsp
<1>0. TypeOK /\ SlaveOwned /\ InflightHeld /\ ReadBehindFlush /\ WbCntVal \in Nat
  BY DEF IInv, TypeOK, WriteBufferTypeOK
<1>1. rsp' = IF CoreDataAck /\ inflight.op = "read"
             THEN Merge(ZeroWord, inflight.sel, mem[slv.adr])
             ELSE rsp
  BY DEF Clock, CoreMem
<1>2. ASSUME CoreDataAck, inflight.op = "read" PROVE mem[slv.adr] = Visible[inflight.adr]
  <2>1. WbReadActive /\ m.ack
    BY <1>0, <1>2 DEF CoreDataAck, WB_S_ACK, InflightHeld, WbReadAck, WbReadActive,
       BufferFlushActive
  <2>2. slv.op = "read" /\ slv.adr = inflight.adr
    BY <1>0, <1>2, <2>1 DEF SlaveOwned, InflightHeld, WbReadActive, TypeOK, Request
  <2>3. inflight.adr \in Addrs /\ mem[inflight.adr] \in Word
    BY <1>0 DEF TypeOK, Request
  <2>4. ASSUME NEW l \in Lanes PROVE Visible[inflight.adr][l] = mem[inflight.adr][l]
    <3>1. PICK a \in Addrs : a = inflight.adr
      BY <2>3
    <3>2. \A i : ~Gives(i, a, l)
      BY <1>0, <2>1 DEF Gives, ReadBehindFlush, Entries
    <3>3. Visible[a][l] = WithSlave(a)[l]
      BY <3>2, VisibleMemory
    <3> QED BY <2>2, <3>1, <3>3 DEF WithSlave
  <2>5. Visible[inflight.adr] \in Word
    BY <1>0, <2>3, VisibleType DEF IInv, EntriesOK
  <2> QED BY <2>2, <2>3, <2>4, <2>5 DEF Word
<1>3. CoreDataAck => inflight.op # "none"
  BY <1>0 DEF CoreDataAck, InflightHeld
<1> QED BY <1>1, <1>2, <1>3 DEF CM!Answer, Merge, ZeroWord

LEMMA StepCoherent ==
    ASSUME IInv, Clock
    PROVE  [CM!Next]_(CM!memoryVars)
<1> USE ConstantFacts
<1>0. /\ TypeOK /\ HandshakeAgrees /\ ~m.err /\ s \in Request
      /\ inflight' = IF CoreAccept THEN s
                     ELSE IF CoreDataAck \/ CoreDataErr THEN Idle ELSE inflight
  BY Agreement DEF IInv, InputOK, TypeOK, WriteBufferTypeOK, Clock, CoreMem
<1>1. CASE CoreAccept
  <2>1. inflight' = s /\ s.op # "none"
    BY <1>0, <1>1 DEF CoreAccept
  <2>2. CM!Answer
    <3>1. inflight.op # "none" => CoreDataAck
      BY <1>1 DEF CoreAccept, CoreDataStall, CoreDataAck, IInv, InflightHeld
    <3>2. inflight.op = "none" => ~CoreDataAck
      BY AnswerCoherent
    <3> QED BY <3>1, <3>2, AnswerCoherent DEF CM!Answer
  <2>3. CASE s.op = "write"
    <3>1. PICK k : StoredAt(k)
      <4>1. WbWriteAddrDataStb
        BY <1>0, <1>1, <2>3 DEF HandshakeAgrees, WbWriteAddrDataStb
      <4>2. ~Shifted /\ ~Kept
        BY <4>1 DEF Shifted, Kept, BufferShiftDown, WbWriteAddrDataStb, WB_S_STALL
      <4> QED BY <4>2, EntryStep
    <3>2. Visible' = [Visible EXCEPT ![s.adr] = Merge(@, s.sel, s.dat)]
      BY <3>1, StoreSeen
    <3> QED BY <1>0, <2>1, <2>2, <2>3, <3>2
            DEF CM!Next, CM!Accept, CM!Accesses, CM!Word, Request, Word, Merge
  <2>4. CASE s.op = "read"
    <3>1. Shifted \/ Kept
      BY <2>4, EntryStep DEF StoredAt, WbWriteAddrDataStb
    <3>2. Visible' = Visible
      BY <3>1, ShiftUnseen, KeepUnseen
    <3> QED BY <1>0, <2>1, <2>2, <2>4, <3>2
            DEF CM!Next, CM!Accept, CM!Accesses, CM!Word, Request, Word
  <2> QED BY <1>0, <2>1, <2>3, <2>4 DEF Request
<1>2. CASE ~CoreAccept
  <2>1. Visible' = Visible
    <3>1. Shifted \/ Kept
      BY <1>0, <1>2, EntryStep DEF StoredAt, WbWriteAddrDataStb, HandshakeAgrees
    <3> QED BY <3>1, ShiftUnseen, KeepUnseen
  <2>2. CASE CoreDataAck
    <3>1. inflight.op # "none" /\ CM!Answer /\ inflight'.op = "none"
      BY <1>0, <1>2, <2>2, AnswerCoherent DEF Idle
    <3> QED BY <2>1, <3>1 DEF CM!Next, CM!Complete
  <2>3. CASE ~CoreDataAck
    <3>1. inflight' = inflight /\ rsp' = rsp
      BY <1>0, <1>2, <2>3, AnswerCoherent DEF CoreDataErr, WB_S_ERR
    <3> QED BY <2>1, <3>1 DEF CM!memoryVars
  <2> QED BY <2>2, <2>3
<1> QED BY <1>1, <1>2

\* As long as no store overflows the buffer, the path is a coherent memory to the
\* core: merging, flushing and holding a read behind a flush never show.
THEOREM CoherenceCorrect ==
    ASSUME AvoidOverflow \/ WriteSels = {Lanes}
    PROVE  Spec => Coherent
<1>1. Init => CM!Init
  BY InitCoherent
<1>2. IInv /\ [Clock]_vars => [CM!Next]_(CM!memoryVars)
  <2>1. CASE UNCHANGED vars
    BY <2>1 DEF vars, bufferRegs, readRegs, flushRegs, entryRegs, burstRegs, CM!memoryVars,
       Visible, WithSlave
  <2> QED BY <2>1, StepCoherent
<1>3. Spec => []IInv
  BY InvariantCorrect
<1> QED BY <1>1, <1>2, <1>3, PTL DEF Spec, Coherent, CM!Spec

\* Under the same condition the bus stays held, CYC up, until the memory has
\* answered the access it works on.
THEOREM CycCorrect ==
    ASSUME AvoidOverflow \/ WriteSels = {Lanes}
    PROVE  Spec => []CycUntilAck
<1>1. IInv => CycUntilAck
  BY DEF IInv, TypeOK, Request, SlaveOwned, FlushStrobe, ReadHeld, CycUntilAck, WB_M_CYC,
     BufferFlushActive, WbReadActive
<1>2. Spec => []IInv
  BY InvariantCorrect
<1> QED BY <1>1, <1>2, PTL

\* Under the same condition the write after one marked CTI_INCR_ADDR, if the
\* flush has one more, goes to the next address: the burst hint never lies.
THEOREM BurstCorrect ==
    ASSUME AvoidOverflow \/ WriteSels = {Lanes}
    PROVE  Spec => BurstSequential
<1>1. IInv /\ [Clock]_vars =>
          [BurstBeat /\ BufferWbStb' => WbAddrReg'[0] = WbAddrReg[0] + 1]_vars
  <2> SUFFICES ASSUME IInv, Clock, BurstBeat
               PROVE  WbAddrReg'[0] = WbAddrReg[0] + 1
    OBVIOUS
  <2>1. BufferShiftDown /\ WbAddrIncrBurst
    BY DEF BurstBeat, BufferWbCti, IInv, FlushStrobe, BufferShiftDown, BufferFlushActive,
       WB_M_ACCEPT, WB_M_REQ, Idle
  <2>2. WbAddrReg'[0] = WbAddrReg[1]
    BY <2>1, ConstantFacts, EntryStep
    DEF StoredAt, Shifted, Kept, WbWriteAddrDataStb, WB_S_STALL, BufferShiftDown, Entries
  <2> QED BY <2>1, <2>2 DEF WbAddrIncrBurst
<1>2. Spec => []IInv
  BY InvariantCorrect
<1> QED BY <1>1, <1>2, PTL DEF Spec, BurstSequential

=============================================================================
