---------------------------- MODULE RamPathProps ----------------------------
(***************************************************************************)
(* What the path to the platform RAM must satisfy.                         *)
(***************************************************************************)
EXTENDS RamPath

----------------------------------------------------------------------------
\* Every register holds a value of its type.
TypeOK ==
    /\ WriteBufferTypeOK
    /\ CoreDataAdrWriteBuffSelReg \in BOOLEAN
    /\ inflight \in Request
    /\ rsp \in Word
    /\ slv \in Request
    /\ mem \in [Addrs -> Word]

\* The counter never passes the depth of the buffer.
CountInRange == WbCntVal <= WBD

\* Entries in use hold different addresses, so that a write has one place to
\* merge into and a flush writes each word once.
DistinctEntries ==
    \A i, j \in Entries :
        i < WbCntVal /\ j < WbCntVal /\ WbAddrReg[i] = WbAddrReg[j] => i = j

\* An entry out of use selects no byte: a store into it ORs its lanes into what
\* is there, and a lane left over would write a stale byte to RAM.
FreeEntriesClear == \A i \in Entries : i >= WbCntVal => WbSelReg[i] = {}

\* An entry in use has at least one byte to write.
UsedEntriesSelected == \A i \in Entries : i < WbCntVal => WbSelReg[i] # {}

\* The counter, the entries and what they are used for agree.
EntriesOK ==
    CountInRange /\ DistinctEntries /\ FreeEntriesClear /\ UsedEntriesSelected

\* During a flush the strobe is up exactly while entries remain, and CYC spans
\* the flush, so no entry is skipped and no strobe goes out for an empty one.
FlushStrobe ==
    /\ BufferWbCyc <=> BufferFlushReq
    /\ BufferWbStb <=> (BufferFlushReq /\ WbCntVal # 0)

\* A read is let through to the memory only when the buffer is empty.
ReadBehindFlush == WbReadActive => WbCntVal = 0

\* An access MIPS1_TOP waits for has its answer coming: a write was stored in
\* the cycle before, with neither a flush nor a read to mask its ACK, and a read
\* is held.
AnswerDue ==
    CoreDataAdrWriteBuffSelReg =>
        \/ WriteBufferStoreReg /\ ~BufferFlushReq /\ ~WbReadReq
        \/ WbReadReq

\* The buffer takes a strobe exactly when the core is told it was taken.  The
\* strobe is not gated by the access in flight (mips1_top.v:378-385) and the
\* stall of the core is (mips1_top.v:398-404): were they to differ, the buffer
\* would take an access twice or not at all.
HandshakeAgrees == (s.op # "none" /\ ~WB_S_STALL) <=> CoreAccept

\* With whole-word stores only, every entry in use is a whole word.
WholeEntries ==
    WriteSels = {Lanes} => \A i \in Entries : i < WbCntVal => WbSelReg[i] = Lanes

\* The memory answers only what it accepted, one access at a time.  A write it
\* works on belongs to the flush in progress, which outlasts it, and a read is
\* the one that is held, strobed no more.
SlaveOwned ==
    /\ m.ack => slv.op # "none"
    /\ slv.op # "none" /\ ~m.ack => m.stall
    /\ slv.op = "write" => BufferFlushReq
    /\ slv.op = "read" => WbReadActive /\ ~WbReadWbStb /\ slv.adr = WbReadAddrReg

\* A read is held, CYC with it, from its strobe to its answer.
ReadHeld == (WbReadWbCyc <=> WbReadReq) /\ (WbReadWbStb => WbReadReq)

\* The access the core waits for is the one MIPS1_TOP routes the answer of, and
\* a load is the read the buffer holds.
InflightHeld ==
    /\ CoreDataAdrWriteBuffSelReg <=> inflight.op # "none"
    /\ inflight.op = "read" => WbReadReq /\ inflight.adr = WbReadAddrReg

\* The inductive invariant of the proofs.  Beside the properties above it says
\* that a store on the bus is one the core may make, and that the memory gives
\* no error.
InputOK == (s.op = "write" => s.sel \in WriteSels) /\ ~m.err
IInv ==
    /\ TypeOK
    /\ EntriesOK
    /\ FlushStrobe
    /\ ReadBehindFlush
    /\ AnswerDue
    /\ WholeEntries
    /\ SlaveOwned
    /\ ReadHeld
    /\ InflightHeld
    /\ InputOK
    /\ ~Overflow

\* The bus is held, CYC up, as long as the memory works on an access.
CycUntilAck == slv.op # "none" => WB_M_CYC

\* The data and lanes of the RAM as the core should see them: the memory, then
\* the write it works on, then the entries of the buffer.
WithSlave(a) ==
    IF slv.op = "write" /\ slv.adr = a THEN Merge(mem[a], slv.sel, slv.dat) ELSE mem[a]

Visible ==
    [a \in Addrs |-> [l \in Lanes |->
        IF \E i \in Entries : i < WbCntVal /\ WbAddrReg[i] = a /\ l \in WbSelReg[i]
        THEN LET i == CHOOSE i \in Entries :
                          i < WbCntVal /\ WbAddrReg[i] = a /\ l \in WbSelReg[i]
             IN  WbWrDatReg[i][l]
        ELSE WithSlave(a)[l]]]

CM == INSTANCE CoherentMemory WITH memory <- Visible

\* Merging, flushing and reading behind a flush are invisible to the core: the
\* path implements a memory that takes accesses one at a time, in order.
Coherent == CM!Spec

\* A write the buffer takes is stored in it (wb_write_buffer.v:79-81: "WB Writes
\* are stored in the write buffer if there is space available.  If no space is
\* available, the buffer is flushed and then the data is stored").
AcceptedWriteStored == WbWriteAddrDataStb => WbAddrSelRegEn # {}

\* A beat the buffer marks CTI_INCR_ADDR or CTI_END_BURST goes to the address
\* after that of the beat before it, as a slave that counts addresses assumes.
BurstBeat == WB_M_ACCEPT /\ WB_M_REQ.op = "write" /\ BufferWbCti = "incr"
BurstSequential ==
    [][BurstBeat /\ BufferWbStb' => WbAddrReg'[0] = WbAddrReg[0] + 1]_vars

\* A strobe is accepted and an accepted access is answered: the stall, the answers
\* that a flush masks and the read held behind it never wait for one another for
\* ever.  A flush that did not end would leave a strobe waiting.
Progress ==
    /\ s.op # "none" ~> CoreAccept
    /\ inflight.op # "none" ~> CoreDataAck
=============================================================================
