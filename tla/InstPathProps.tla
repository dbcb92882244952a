--------------------------- MODULE InstPathProps ---------------------------
(***************************************************************************)
(* What the instruction path must satisfy.                                 *)
(***************************************************************************)
EXTENDS InstPath

\* Every register holds a value of its type: the timers stay within the length of
\* a burst, and the fill counter within the line it forms an index of.
TypeOK ==
    /\ CacheTypeOK
    /\ CoreInstCycReg \in BOOLEAN
    /\ CoreInstRdWhileStallId \in BOOLEAN
    /\ CoreInstRdDataWhileStallId \in 0 .. Top
    /\ PcValId \in 0 .. Top
    /\ PcValIf \in 0 .. Top - 1
    /\ data \in DataOps \cup {"none", "load"}
    /\ stb \in BOOLEAN
    /\ CoreInstAdrCacheSelReg \in BOOLEAN /\ CoreInstAdrArbSelReg \in BOOLEAN
    /\ WbArbGntReg \in 0 .. 4
    /\ slv \in [who : 0 .. 4, adr : 0 .. Top - 1]
    /\ m \in [ack : BOOLEAN, stall : BOOLEAN, dat : 0 .. Top]

\* The instruction that leaves decode is the one at the address decoded: no
\* fetch is lost, doubled or answered with the word of another.
InstrRight == ~Stall => InstrId = PcValId

\* A line marked valid holds its own words, but for the one being filled: its
\* old tag stays valid while the words change under it.
Filling(i) == BusReadReq(Port) /\ i = LineIndex(CoreAdrReg)
LinesRight ==
    \A i \in Lines : TagRam[i].valid /\ ~Filling(i) =>
        \A w \in 0 .. LineWords - 1 :
            CacheRam[i * LineWords + w] = (TagRam[i].tag * NumLines + i) * LineWords + w

\* The bus takes an uncached fetch exactly when the core is told so, although
\* its strobe is not gated by a cached fetch in flight (mips1_top.v:289).
FetchAgrees == BusAccept(InstPort) <=> (CoreInstAdrArbSel /\ ~CoreInstStall)

\* An answer reaches the port that made the access.
AnswersRouted == m.ack => WbArbGntReg = slv.who

\* "The I-Cache will only access the arbiter if it's filling a line"
\* (mips1_top.v:770-771).
CacheOnlyFills == BusCyc[CachePort] => BusReadReq(Port)

\* At most one fetch is in flight, with CYC up, or its word came in a stall and
\* is held: either is that of the instruction decoded.  With nothing in flight
\* the data side cannot stall the next strobe.
FetchInFlight ==
    /\ ~(CoreInstAdrCacheSelReg /\ CoreInstAdrArbSelReg)
    /\ CoreInstAdrCacheSelReg \/ CoreInstAdrArbSelReg =>
           CoreInstCycReg /\ ~CoreInstRdWhileStallId
    /\ ~CoreInstAdrCacheSelReg /\ ~CoreInstAdrArbSelReg =>
           /\ CoreInstRdWhileStallId \/ PcValId = Nop
           /\ CoreInstCycReg => data = "none"
    /\ CoreInstRdWhileStallId => CoreInstRdDataWhileStallId = PcValId
    /\ CoreInstAdrArbSelReg => ~Cached(PcValIf)

\* A cached fetch in flight is what the cache looks up or has found, and both
\* RAMs were read at its address.
Lookup ==
    /\ ~TagRamFlushEnReg
    /\ Cached(CoreAdrReg)
    /\ CoreReadAddrStbReg => CoreInstAdrCacheSelReg
    /\ CoreInstAdrCacheSelReg =>
           /\ CoreAdrReg = PcValId
           /\ CoreReadAddrStbReg \/ ValidTagHit
           /\ TagRamReadData = TagRam[LineIndex(CoreAdrReg)]
           /\ CacheRamReadAddr = LineIndex(CoreAdrReg) * LineWords + WdIndex(CoreAdrReg)

\* The burst of a fill: what is strobed, what the memory works on and what has
\* come make up the line, in order.  There is none without a fill.
InBurst == BusReadReq(Port) /\ BusReqReg
Burst ==
    /\ InBurst =>
           /\ WbCyc
           /\ WbStb <=> BurstTmrVal # 0
           /\ AckTmrVal \in 1 .. LineWords
           /\ AckTmrVal = BurstTmrVal + (IF slv.who = CachePort THEN 1 ELSE 0)
           /\ FillCntVal = LineWords - AckTmrVal
           /\ WbStb => AddrCntVal = LineStart(CoreAdrReg) + (LineWords - BurstTmrVal)
           /\ slv.who = CachePort => slv.adr = LineStart(CoreAdrReg) + FillCntVal
    /\ ~InBurst => ~WbCyc /\ ~WbStb /\ slv.who # CachePort
    /\ BusReadReq(Port) /\ ~BusReqReg => FillCntVal = 0
    /\ BusReadReq(Port) =>
           \A w \in 0 .. FillCntVal - 1 :
              CacheRam[LineIndex(CoreAdrReg) * LineWords + w] = LineStart(CoreAdrReg) + w

\* The memory works on one access at a time, that of the port that holds the bus
\* and waits for it.  The port of the core does not hold it during a fill.
OnBus ==
    /\ m.ack => slv.who # Arb!NoGnt
    /\ m.dat = IF m.ack THEN slv.adr ELSE Nop
    /\ slv.who # Arb!NoGnt /\ ~m.ack => m.stall
    /\ slv.who # Arb!NoGnt => WbArbGntReg = slv.who
    /\ slv.who = DataPort   => data = "arb"  /\ ~stb
    /\ slv.who = BufferPort => data = "load" /\ ~stb
    /\ slv.who = InstPort <=> CoreInstAdrArbSelReg
    /\ slv.who = InstPort => slv.adr = PcValId
    /\ BusReadReq(Port) => WbArbGntReg # InstPort

\* The inductive invariant of the proofs.
IInv == TypeOK /\ FetchInFlight /\ Lookup /\ Burst /\ OnBus /\ LinesRight

\* The pipeline moves again and again.
Moves == []<>~Stall
=============================================================================
