--------------------------- MODULE InstPathProofs ---------------------------
(***************************************************************************)
(* Proofs about the path of an instruction fetch, for every number and     *)
(* length of the lines of the cache, every address space, and whatever the *)
(* data side and the memory do.                                            *)
(***************************************************************************)
EXTENDS InstPathProps, TLAPS

----------------------------------------------------------------------------
\* Addresses.

LEMMA ConstantFacts ==
    /\ Top \in Nat \ {0} /\ NumLines \in Nat \ {0} /\ LineWords \in Nat \ {0}
    /\ MaxLen \in Nat /\ LineWords <= MaxLen /\ COMB_CYC
    /\ CachedTop \in Nat /\ CachedTop >= 1 /\ CachedTop < Top
    /\ 0 \in 0 .. Top - 1 /\ Nop \notin 0 .. Top - 1 /\ Nop \in 0 .. Top
BY CacheAssumption, InstPathAssumption, MaxLenAssumption DEF Nop

LEMMA DivMod ==
    ASSUME NEW a \in Nat, NEW b \in Nat \ {0}
    PROVE  /\ a \div b \in Nat /\ a % b \in 0 .. b - 1
           /\ a = (a \div b) * b + (a % b)
<1>1. a \div b \in Nat
  OBVIOUS
<1>2. a % b \in 0 .. b - 1
  OBVIOUS
<1>3. a = (a \div b) * b + (a % b)
  OBVIOUS
<1> QED BY <1>1, <1>2, <1>3

LEMMA DivDiv ==
    ASSUME NEW a \in Nat, NEW b \in Nat \ {0}, NEW c \in Nat \ {0}
    PROVE  a \div (b * c) = (a \div c) \div b
OBVIOUS

LEMMA MulAdd ==
    ASSUME NEW x \in Nat, NEW d \in Nat, NEW b \in Nat
    PROVE  (x + 1 + d) * b = x * b + b + d * b /\ d * b \in Nat
OBVIOUS

LEMMA MulUnique ==
    ASSUME NEW b \in Nat \ {0}, NEW i \in Nat, NEW j \in Nat,
           NEW v \in 0 .. b - 1, NEW w \in 0 .. b - 1, i * b + v = j * b + w
    PROVE  i = j /\ v = w
OBVIOUS

LEMMA MulStep ==
    ASSUME NEW x \in Nat, NEW y \in Nat, NEW b \in Nat, x < y
    PROVE  x * b + b <= y * b
<1>1. PICK d \in Nat : y = x + 1 + d
  <2>1. y - x - 1 \in Nat /\ y = x + 1 + (y - x - 1)
    OBVIOUS
  <2> QED BY <2>1
<1>2. y * b = x * b + b + d * b /\ d * b \in Nat
  BY <1>1, MulAdd
<1>3. x * b \in Nat
  OBVIOUS
<1> QED BY <1>2, <1>3

\* The place of a word in the data RAM is that of one word of one line.
LEMMA IndexRange ==
    ASSUME NEW i \in Lines, NEW w \in 0 .. LineWords - 1
    PROVE  i * LineWords + w \in 0 .. NumLines * LineWords - 1
<1>1. ASSUME NEW n \in Nat \ {0}, NEW b \in Nat \ {0}, NEW j \in 0 .. n - 1, NEW v \in 0 .. b - 1
      PROVE  j * b + v \in 0 .. n * b - 1
  OBVIOUS
<1> QED BY <1>1, ConstantFacts DEF Lines

LEMMA IndexUnique ==
    ASSUME NEW i \in Lines, NEW j \in Lines,
           NEW v \in 0 .. LineWords - 1, NEW w \in 0 .. LineWords - 1,
           i * LineWords + v = j * LineWords + w
    PROVE  i = j /\ v = w
BY MulUnique, ConstantFacts DEF Lines

\* The fields of an address give the address back.
LEMMA AddressFields ==
    ASSUME NEW a \in Nat
    PROVE  /\ Tag(a) \in Nat /\ LineIndex(a) \in Lines /\ WdIndex(a) \in 0 .. LineWords - 1
           /\ LineStart(a) \in Nat
           /\ a = LineStart(a) + WdIndex(a)
           /\ LineStart(a) = (Tag(a) * NumLines + LineIndex(a)) * LineWords
<1> DEFINE q == a \div LineWords
<1>1. q \in Nat /\ WdIndex(a) \in 0 .. LineWords - 1 /\ a = q * LineWords + WdIndex(a)
  BY ConstantFacts, DivMod DEF WdIndex
<1>2. q \div NumLines \in Nat /\ LineIndex(a) \in Lines
      /\ q = (q \div NumLines) * NumLines + LineIndex(a)
  BY <1>1, ConstantFacts, DivMod DEF LineIndex, Lines
<1>3. Tag(a) = q \div NumLines
  BY ConstantFacts, DivDiv DEF Tag
<1>4. q * LineWords \in Nat
  BY <1>1, ConstantFacts
<1>5. LineStart(a) = q * LineWords
  <2> HIDE DEF q
  <2> QED BY <1>1, <1>4, ConstantFacts DEF LineStart
<1> HIDE DEF q
<1> QED BY <1>1, <1>2, <1>3, <1>4, <1>5

\* A line that holds one cached address holds only cached addresses.
LEMMA LineInside ==
    ASSUME NEW a \in Nat, Cached(a)
    PROVE  LineStart(a) + LineWords <= CachedTop
<1> DEFINE q == a \div LineWords
           c == CachedTop \div LineWords
<1>1. q \in Nat /\ a >= q * LineWords /\ LineStart(a) = q * LineWords
  <2>0. q \in Nat /\ WdIndex(a) \in 0 .. LineWords - 1 /\ a = q * LineWords + WdIndex(a)
    BY ConstantFacts, DivMod DEF WdIndex
  <2>1. q \in Nat /\ WdIndex(a) \in Nat /\ a = q * LineWords + WdIndex(a)
    BY <2>0
  <2>2. ASSUME NEW p \in Nat, NEW r \in Nat, a = p + r PROVE a >= p /\ a - r = p
    BY <2>2
  <2>3. q * LineWords \in Nat
    BY <2>1, ConstantFacts
  <2> HIDE DEF q
  <2> QED BY <2>1, <2>2, <2>3 DEF LineStart
<1>2. c \in Nat /\ CachedTop = c * LineWords
  <2>1. CachedTop % LineWords = 0
    BY InstPathAssumption
  <2>2. c \in Nat /\ CachedTop = c * LineWords + (CachedTop % LineWords)
    BY ConstantFacts, DivMod
  <2>3. c * LineWords \in Nat
    BY <2>2, ConstantFacts
  <2> HIDE DEF c
  <2> QED BY <2>1, <2>2, <2>3
<1>3. a < CachedTop
  BY DEF Cached
<1> HIDE DEF q, c
<1>4. q < c
  <2>1. CASE c < q
    BY <1>1, <1>2, <1>3, <2>1, MulStep, ConstantFacts
  <2>2. CASE c = q
    BY <1>1, <1>2, <1>3, <2>2, ConstantFacts
  <2> QED BY <1>1, <1>2, <2>1, <2>2
<1> QED BY <1>1, <1>2, <1>4, MulStep, ConstantFacts

----------------------------------------------------------------------------
\* The arbiter.

LEMMA BusFacts ==
    /\ DataPort = 0 /\ CachePort = 1 /\ InstPort = 2 /\ BufferPort = 3 /\ Arb!NoGnt = 4
    /\ Arb!Masters = 0 .. 3
    /\ BusCyc[DataPort] = (data = "arb") /\ BusCyc[CachePort] = CACHE_CYC(Port)
    /\ BusCyc[InstPort] = ArbInstCyc /\ BusCyc[BufferPort] = (data = "load")
    /\ BusStb[DataPort] = stb /\ BusStb[CachePort] = WbStb
    /\ BusStb[InstPort] = CoreInstAdrArbSel /\ BusStb[BufferPort] = stb
    /\ BusAdr[DataPort] = 0 /\ BusAdr[CachePort] = AddrCntVal
    /\ BusAdr[InstPort] = PcValIf /\ BusAdr[BufferPort] = 0
BY DEF DataPort, CachePort, InstPort, BufferPort, Arb!NoGnt, Arb!Masters, BusCyc, BusStb, BusAdr

LEMMA LowestOf ==
    ASSUME NEW S, S \subseteq 0 .. 3, S # {}
    PROVE  Arb!Highest(S) \in S /\ \A q \in S : Arb!Highest(S) <= q
<1>1. \E r \in S : \A q \in S : r <= q
  <2>1. CASE 0 \in S
    BY <2>1
  <2>2. CASE 0 \notin S /\ 1 \in S
    BY <2>2
  <2>3. CASE 0 \notin S /\ 1 \notin S /\ 2 \in S
    BY <2>3
  <2>4. CASE 0 \notin S /\ 1 \notin S /\ 2 \notin S
    <3>1. \A q \in S : q = 3
      BY <2>4
    <3>2. PICK r \in S : r = 3
      BY <3>1
    <3>3. \A q \in S : r <= q
      BY <3>1, <3>2
    <3> QED BY <3>3
  <2> QED BY <2>1, <2>2, <2>3, <2>4
<1> QED BY <1>1 DEF Arb!Highest

\* The grant after an edge: the one before, while its port asks; else none, if
\* nobody asks; else that of the first port that asks, or of port 0 instead of 1.
LEMMA Granted ==
    ASSUME Arb!ArbEdge, WbArbGntReg \in 0 .. 4
    PROVE  /\ WbArbGntReg' \in 0 .. 4
           /\ WbArbGntReg # Arb!NoGnt /\ BusCyc[WbArbGntReg] => WbArbGntReg' = WbArbGntReg
           /\ WbArbGntReg' = InstPort =>
                  BusCyc[InstPort] /\ (WbArbGntReg = InstPort \/ ~BusCyc[CachePort])
<1> USE BusFacts
<1>1. Arb!Requesters = {r \in 0 .. 3 : BusCyc[r]}
  BY DEF Arb!Requesters
<1>2. WbArbGntReg # Arb!NoGnt /\ BusCyc[WbArbGntReg] => WbArbGntReg' = WbArbGntReg
  BY DEF Arb!ArbEdge, Arb!WbArbGntRegEn
<1>3. ASSUME ~(WbArbGntReg # Arb!NoGnt /\ BusCyc[WbArbGntReg]), Arb!Requesters # {}
      PROVE  /\ WbArbGntReg' \in 0 .. 3
             /\ WbArbGntReg' = InstPort => BusCyc[InstPort] /\ ~BusCyc[CachePort]
  <2> DEFINE h == Arb!Highest(Arb!Requesters)
  <2>1. h \in Arb!Requesters /\ \A q \in Arb!Requesters : h <= q
    BY <1>1, <1>3, LowestOf
  <2>2. WbArbGntReg' = Arb!GntBit(WbArbGntReg, h)
    BY <1>3 DEF Arb!ArbEdge, Arb!WbArbGntRegEn, Arb!WbArbGnt
  <2> HIDE DEF h
  <2> QED BY <1>1, <2>1, <2>2 DEF Arb!GntBit
<1>4. ASSUME ~(WbArbGntReg # Arb!NoGnt /\ BusCyc[WbArbGntReg]), Arb!Requesters = {}
      PROVE  WbArbGntReg' = Arb!NoGnt
  BY <1>3, <1>4 DEF Arb!ArbEdge, Arb!WbArbGntRegEn, Arb!WbArbGnt
<1>5. ASSUME WbArbGntReg # Arb!NoGnt, BusCyc[WbArbGntReg], WbArbGntReg = InstPort
      PROVE  BusCyc[InstPort]
  BY <1>5
<1> QED BY <1>2, <1>3, <1>4, <1>5

----------------------------------------------------------------------------
\* Types.

LEMMA InitType == Init => TypeOK
<1> SUFFICES ASSUME Init PROVE TypeOK
  OBVIOUS
<1> USE ConstantFacts
<1>1. 0 \in 0 .. NumLines * LineWords - 1
  <2>1. 0 \in Lines /\ 0 \in 0 .. LineWords - 1
    BY DEF Lines
  <2>2. 0 * LineWords + 0 \in 0 .. NumLines * LineWords - 1
    BY <2>1, IndexRange
  <2> QED BY <2>2
<1>2. [valid |-> FALSE, tag |-> 0] \in TagEntry
  <2>1. Tag(0) = 0
    <3>1. NumLines * LineWords \in Nat \ {0}
      OBVIOUS
    <3>2. \A b \in Nat \ {0} : 0 \div b = 0
      OBVIOUS
    <3> QED BY <3>1, <3>2 DEF Tag
  <2>2. 0 \in Tags
    BY <2>1 DEF Tags
  <2> QED BY <2>2 DEF TagEntry
<1>3. CacheTypeOK
  <2>1. TagRam \in [Lines -> TagEntry] /\ TagRamReadData \in TagEntry
    BY <1>2 DEF Init, CacheInit
  <2>2. CacheRam \in [0 .. NumLines * LineWords - 1 -> 0 .. Top]
    BY DEF Init, CacheInit
  <2>3. CacheInit /\ WbMasterInit
    BY DEF Init, CacheInit
  <2>4. WbMasterTypeOK(Top)
    <3>1. BusReqReg \in BOOLEAN /\ WbCyc \in BOOLEAN /\ WbStb \in BOOLEAN /\ WbWe \in BOOLEAN
      BY <2>3 DEF WbMasterInit
    <3>2. WbCti \in {"classic", "incr", "end"}
      BY <2>3 DEF WbMasterInit
    <3>3. BurstTmrVal \in 0 .. MaxLen /\ AckTmrVal \in 0 .. MaxLen /\ AddrCntVal \in 0 .. Top - 1
      BY <2>3 DEF WbMasterInit
    <3> QED BY <3>1, <3>2, <3>3 DEF WbMasterTypeOK
  <2>5. /\ CoreAdrReg = 0 /\ CoreReadAddrStbReg = FALSE /\ TagRamFlushEnReg = FALSE
        /\ FillCntVal = 0 /\ CacheRamReadAddr = 0
    BY <2>3 DEF CacheInit
  <2>6. 0 \in 0 .. LineWords - 1
    OBVIOUS
  <2> QED BY <1>1, <2>1, <2>2, <2>4, <2>5, <2>6 DEF CacheTypeOK
<1>4. slv \in [who : 0 .. 4, adr : 0 .. Top - 1] /\ WbArbGntReg \in 0 .. 4
  BY BusFacts DEF Init, Arb!ArbInit
<1>5. m \in [ack : BOOLEAN, stall : BOOLEAN, dat : 0 .. Top]
  BY DEF Init
<1> QED BY <1>3, <1>4, <1>5 DEF Init, TypeOK

\* What the bus carries is an access to an address there is.
LEMMA AccessType ==
    ASSUME TypeOK, NEW i \in 0 .. 3, BusAccept(i)
    PROVE  /\ WbArbGntReg = i
           /\ [who |-> WbArbGntReg, adr |-> BusAdr[WbArbGntReg]] \in [who : 0 .. 4, adr : 0 .. Top - 1]
<1>1. WbArbGntReg = i
  BY DEF BusAccept
<1>2. BusAdr[i] \in 0 .. Top - 1
  BY ConstantFacts DEF BusAdr, TypeOK, CacheTypeOK, WbMasterTypeOK
<1> QED BY <1>1, <1>2

LEMMA StepMasterType ==
    ASSUME TypeOK, Clock
    PROVE  WbMasterTypeOK(Top)'
<1> USE ConstantFacts
<1>0. WbMasterTypeOK(Top) /\ CoreAdrReg \in 0 .. Top - 1 /\ WbMasterEdge(Bus(Port), CacheM, Top)
  BY DEF TypeOK, CacheTypeOK, Clock, ICacheEdge
<1>1. /\ Bus(Port).len = LineWords /\ Bus(Port).adr \in 0 .. Top - 1
      /\ Bus(Port).inc /\ Bus(Port).op # "write"
  <2>1. LineStart(CoreAdrReg) \in 0 .. Top - 1
    BY <1>0, AddressFields
  <2> QED BY <2>1 DEF Bus
<1>2. (AddrCntVal + 1) % Top \in 0 .. Top - 1
  BY <1>0 DEF WbMasterTypeOK
<1>3. AddrCntVal' \in 0 .. Top - 1
  BY <1>0, <1>1, <1>2 DEF WbMasterEdge, AddrCnt, WbMasterTypeOK
<1>4. BurstTmrVal' \in 0 .. MaxLen /\ AckTmrVal' \in 0 .. MaxLen
  BY <1>0, <1>1 DEF WbMasterEdge, Timers, WbMasterTypeOK
<1>5. WbCti' \in {"classic", "incr", "end"}
  BY <1>0 DEF WbMasterEdge, Phases, WbMasterTypeOK
<1>6. BusReqReg' \in BOOLEAN /\ WbCyc' \in BOOLEAN /\ WbStb' \in BOOLEAN /\ WbWe' \in BOOLEAN
  BY <1>0 DEF WbMasterEdge, Phases, BusReq
<1> QED BY <1>3, <1>4, <1>5, <1>6 DEF WbMasterTypeOK

LEMMA StepCacheType ==
    ASSUME TypeOK, Clock
    PROVE  CacheTypeOK'
<1> USE ConstantFacts
<1>0. /\ CacheTypeOK /\ ICacheEdge(Port, CacheM)
      /\ Port.adr \in 0 .. Top - 1 /\ CacheM.dat \in 0 .. Top
  BY DEF TypeOK, Clock, Port, CacheM
<1>1. CoreAdrReg' \in 0 .. Top - 1 /\ CoreReadAddrStbReg' \in BOOLEAN /\ TagRamFlushEnReg' \in BOOLEAN
  BY <1>0 DEF ICacheEdge, CoreRegs, CacheTypeOK, TagRamFlushEn
<1>2. FillCntVal' \in 0 .. LineWords - 1
  <2>1. (FillCntVal + 1) % LineWords \in 0 .. LineWords - 1
    BY <1>0 DEF CacheTypeOK
  <2> QED BY <1>0, <2>1 DEF ICacheEdge, FillCounter, CacheTypeOK
<1>3. TagRam' \in [Lines -> TagEntry] /\ TagRamReadData' \in TagEntry
  <2>1. TagRamWriteData(Port) \in TagEntry
    BY <1>0 DEF TagRamWriteData, TagEntry, Tags, CacheTypeOK, TagRamFlushEn
  <2>2. TagRamAddr(Port) \in Lines
    <3>1. CoreAdrReg \in Nat /\ Port.adr \in Nat
      BY <1>0 DEF CacheTypeOK
    <3> QED BY <3>1, AddressFields DEF TagRamAddr
  <2> QED BY <1>0, <2>1, <2>2 DEF ICacheEdge, TagRamEdge, CacheTypeOK
<1>4. CacheRam' \in [0 .. NumLines * LineWords - 1 -> 0 .. Top]
  BY <1>0 DEF ICacheEdge, CacheRamEdge, CacheTypeOK
<1>5. CacheRamReadAddr' \in 0 .. NumLines * LineWords - 1
  <2> DEFINE a == IF BusReadReq(Port) THEN CoreAdrReg ELSE Port.adr
  <2>1. a \in Nat
    BY <1>0 DEF CacheTypeOK
  <2>2. CacheRamReadAddr' = LineIndex(a) * LineWords + WdIndex(a)
    BY <1>0 DEF ICacheEdge, CacheRamEdge
  <2> HIDE DEF a
  <2> QED BY <2>1, <2>2, AddressFields, IndexRange
<1> QED BY <1>1, <1>2, <1>3, <1>4, <1>5, StepMasterType DEF CacheTypeOK

LEMMA StepType == TypeOK /\ [Clock]_vars => TypeOK'
<1> SUFFICES ASSUME TypeOK, [Clock]_vars PROVE TypeOK'
  OBVIOUS
<1> USE ConstantFacts
<1>1. CASE UNCHANGED vars
  BY <1>1 DEF TypeOK, CacheTypeOK, WbMasterTypeOK, vars, coreRegs, cacheRegs, masterRegs
<1>2. CASE Clock
  <2>1. CacheTypeOK'
    BY <1>2, StepCacheType
  <2>2. CoreInstCycReg' \in BOOLEAN /\ CoreInstRdWhileStallId' \in BOOLEAN
        /\ CoreInstAdrCacheSelReg' \in BOOLEAN /\ CoreInstAdrArbSelReg' \in BOOLEAN
    BY <1>2 DEF Clock, CycReg, WhileStallRegs, SelRegs
  <2>3. CoreInstRdDataWhileStallId' \in 0 .. Top
    <3>1. CORE_DAT_RD \in 0 .. Top
      BY DEF TypeOK, CacheTypeOK, CORE_DAT_RD
    <3>2. CoreInstDatRd \in 0 .. Top
      BY <3>1 DEF CoreInstDatRd, TypeOK
    <3> QED BY <1>2, <3>2 DEF Clock, WhileStallRegs, TypeOK
  <2>4. PcValId' \in 0 .. Top /\ PcValIf' \in 0 .. Top - 1
    BY <1>2 DEF Clock, Pipeline, TypeOK
  <2>5. data' \in DataOps \cup {"none", "load"}
    BY <1>2 DEF Clock, Pipeline, TypeOK
  <2>6. stb' \in BOOLEAN
    BY <1>2 DEF Clock, Pipeline
  <2>7. WbArbGntReg' \in 0 .. 4
    BY <1>2, Granted DEF Clock, TypeOK
  <2>8. slv' \in [who : 0 .. 4, adr : 0 .. Top - 1]
    BY <1>2, AccessType, BusFacts DEF Clock, SlaveAccess, TypeOK
  <2>9. m' \in [ack : BOOLEAN, stall : BOOLEAN, dat : 0 .. Top]
    BY <1>2 DEF Clock, SlaveAnswer
  <2> QED BY <2>1, <2>2, <2>3, <2>4, <2>5, <2>6, <2>7, <2>8, <2>9 DEF TypeOK
<1> QED BY <1>1, <1>2

\* Every register of the path keeps to its type, whatever the core fetches: the
\* timers to the length of a burst, and the index the fill counter forms to the
\* data RAM.
THEOREM TypeCorrect == Spec => []TypeOK
<1>1. Init => TypeOK
  BY InitType
<1>2. TypeOK /\ [Clock]_vars => TypeOK'
  BY StepType
<1> QED BY <1>1, <1>2, PTL DEF Spec

----------------------------------------------------------------------------
\* The wires between the blocks, in a state of the invariant.

LEMMA BooleanFacts ==
    ASSUME TypeOK
    PROVE  /\ CoreInstCycReg \in BOOLEAN /\ CoreInstRdWhileStallId \in BOOLEAN
           /\ CoreInstAdrCacheSelReg \in BOOLEAN /\ CoreInstAdrArbSelReg \in BOOLEAN
           /\ CoreReadAddrStbReg \in BOOLEAN /\ TagRamFlushEnReg \in BOOLEAN
           /\ m.ack \in BOOLEAN /\ m.stall \in BOOLEAN
           /\ stb \in BOOLEAN /\ WbCyc \in BOOLEAN /\ WbStb \in BOOLEAN /\ BusReqReg \in BOOLEAN
           /\ TagRamReadData.valid \in BOOLEAN
BY DEF TypeOK, CacheTypeOK, WbMasterTypeOK, TagEntry

\* A fill is asked for exactly while the lookup of a fetch in flight misses.
LEMMA RequestWire ==
    TypeOK /\ FetchInFlight /\ Lookup =>
        /\ BusReadReq(Port) <=> CoreReadAddrStbReg /\ ~ValidTagHit
        /\ BusReadReq(Port) => CoreInstAdrCacheSelReg /\ CoreInstCycReg
<1> SUFFICES ASSUME TypeOK, FetchInFlight, Lookup
             PROVE  /\ BusReadReq(Port) <=> CoreReadAddrStbReg /\ ~ValidTagHit
                    /\ BusReadReq(Port) => CoreInstAdrCacheSelReg /\ CoreInstCycReg
  OBVIOUS
<1>1. CoreReadAddrStbReg => CoreInstAdrCacheSelReg /\ CoreInstCycReg
  BY DEF Lookup, FetchInFlight
<1>2. Port.cyc = ((CoreInstAdrCacheSel \/ CoreInstAdrCacheSelReg) /\ CoreInstCycReg)
  BY DEF Port
<1> QED BY <1>1, <1>2, BooleanFacts DEF BusReadReq

LEMMA RequestWireNext ==
    (TypeOK /\ FetchInFlight /\ Lookup =>
        /\ BusReadReq(Port) <=> CoreReadAddrStbReg /\ ~ValidTagHit
        /\ BusReadReq(Port) => CoreInstAdrCacheSelReg /\ CoreInstCycReg)'
BY RequestWire, PTL

\* The port is read only, the two answers to the core are told apart by its select
\* registers, and the cache takes a strobe exactly when the core is told so.
LEMMA Wires ==
    ASSUME IInv
    PROVE  /\ ~TagRamFlushEn(Port) /\ ~Port.we
           /\ ReadAck <=> ValidTagHit
           /\ CORE_STALL <=> CoreReadAddrStbReg /\ ~ValidTagHit
           /\ CoreInstAdrArbSelReg => (ArbInstAck <=> m.ack)
           /\ CoreInstAck <=> \/ CoreInstAdrCacheSelReg /\ ValidTagHit
                              \/ CoreInstAdrArbSelReg /\ m.ack
           /\ CoreReadAddrStb(Port) <=> CoreInstAdrCacheSel /\ ~CoreInstStall
           /\ CoreReadAddrStb(Port) => Port.adr = PcValIf /\ Cached(PcValIf)
<1>0. TypeOK /\ FetchInFlight /\ Lookup /\ OnBus
  BY DEF IInv
<1> USE BooleanFacts, BusFacts
<1>1. ~TagRamFlushEn(Port) /\ ~Port.we
  BY DEF TagRamFlushEn, Port
<1>2. (ReadAck <=> ValidTagHit) /\ (CORE_STALL <=> CoreReadAddrStbReg /\ ~ValidTagHit)
  BY <1>0 DEF Lookup, ReadAck, CORE_STALL
<1>3. CoreInstAdrArbSelReg => (ArbInstAck <=> m.ack)
  BY <1>0 DEF OnBus, ArbInstAck
<1>4. CoreInstAck <=> \/ CoreInstAdrCacheSelReg /\ ValidTagHit
                      \/ CoreInstAdrArbSelReg /\ m.ack
  BY <1>2, <1>3 DEF CoreInstAck
<1>5. CoreReadAddrStb(Port) <=> CoreInstAdrCacheSel /\ ~CORE_STALL
  <2>1. /\ Port.cyc = ((CoreInstAdrCacheSel \/ CoreInstAdrCacheSelReg) /\ CoreInstCycReg)
        /\ Port.stb = CoreInstAdrCacheSel
    BY DEF Port
  <2>2. CoreInstAdrCacheSel => CoreInstCycReg
    BY DEF CoreInstAdrCacheSel, CoreInstStb
  <2> QED BY <1>0, <1>1, <2>1, <2>2 DEF CoreReadAddrStb
<1>6. CoreInstAdrCacheSel => Cached(PcValIf) /\ ~CoreInstAdrArbSelReg /\ ~CoreInstAdrArbSel
  BY <1>0 DEF FetchInFlight, CoreInstAdrCacheSel, CoreInstAdrArbSel
<1>7. CoreInstAdrCacheSelReg /\ ~ReadAck => CORE_STALL
  BY <1>0, <1>2 DEF Lookup
<1>8. CoreReadAddrStb(Port) <=> CoreInstAdrCacheSel /\ ~CoreInstStall
  BY <1>5, <1>6, <1>7 DEF CoreInstStall
<1>9. CoreReadAddrStb(Port) => Port.adr = PcValIf /\ Cached(PcValIf)
  BY <1>5, <1>6 DEF Port
<1> QED BY <1>1, <1>2, <1>3, <1>4, <1>8, <1>9

\* What the memory works on is the access of a port that keeps CYC up for it.
LEMMA HolderAsks ==
    ASSUME IInv, slv.who # Arb!NoGnt
    PROVE  WbArbGntReg = slv.who /\ slv.who \in 0 .. 3 /\ BusCyc[slv.who]
<1> USE BusFacts
<1>0. TypeOK /\ FetchInFlight /\ Lookup /\ OnBus /\ Burst
  BY DEF IInv
<1>1. WbArbGntReg = slv.who /\ slv.who \in 0 .. 3
  BY <1>0 DEF OnBus, TypeOK
<1>2. CASE slv.who = DataPort
  BY <1>0, <1>1, <1>2 DEF OnBus
<1>3. CASE slv.who = CachePort
  <2>1. WbCyc
    BY <1>0, <1>3 DEF Burst
  <2> QED BY <1>1, <1>3, <2>1 DEF CACHE_CYC, WB_CYC
<1>4. CASE slv.who = InstPort
  <2>1. CoreInstAdrArbSelReg /\ CoreInstCycReg
    BY <1>0, <1>4 DEF OnBus, FetchInFlight
  <2> QED BY <1>1, <1>4, <2>1 DEF ArbInstCyc
<1>5. CASE slv.who = BufferPort
  BY <1>0, <1>1, <1>5 DEF OnBus
<1> QED BY <1>1, <1>2, <1>3, <1>4, <1>5

\* The bus takes a fetch exactly when the core is told so: while a cached fetch
\* misses, the bus is not the port's.
LEMMA Agreement == IInv => FetchAgrees
<1> SUFFICES ASSUME IInv PROVE FetchAgrees
  OBVIOUS
<1> USE BusFacts, BooleanFacts
<1>0. TypeOK /\ FetchInFlight /\ Lookup /\ OnBus
  BY DEF IInv
<1>1. CoreInstAdrArbSel => ArbInstCyc /\ ~CoreInstAdrCacheSel
  BY DEF CoreInstAdrArbSel, CoreInstAdrCacheSel, ArbInstCyc, CoreInstStb
<1>2. BusAccept(InstPort) <=> WbArbGntReg = InstPort /\ CoreInstAdrArbSel /\ ~m.stall
  BY <1>1 DEF BusAccept
<1>3. CoreInstAdrArbSel =>
          (~Arb!Stall(InstPort, m.stall) <=> WbArbGntReg = InstPort /\ ~m.stall)
  BY <1>0, <1>1 DEF Arb!Stall
<1>4. CoreInstAdrArbSelReg /\ ~m.stall => ArbInstAck
  <2>1. CoreInstAdrArbSelReg => slv.who = InstPort
    BY <1>0 DEF OnBus
  <2> QED BY <1>0, <2>1, Wires DEF OnBus
<1>5. CoreInstAdrCacheSelReg /\ WbArbGntReg = InstPort => ReadAck
  BY <1>0, RequestWire, Wires DEF OnBus, Lookup
<1> QED BY <1>1, <1>2, <1>3, <1>4, <1>5 DEF FetchAgrees, CoreInstStall

\* The word that answers a fetch is the word at the address decoded.
LEMMA AnswerRight ==
    ASSUME IInv, CoreInstAck
    PROVE  CoreInstDatRd = PcValId
<1> USE BusFacts
<1>0. TypeOK /\ FetchInFlight /\ Lookup /\ OnBus /\ LinesRight
  BY DEF IInv
<1>1. CASE CoreInstAdrArbSelReg
  <2>1. m.ack /\ slv.who = InstPort /\ WbArbGntReg = InstPort
    BY <1>0, <1>1, Wires DEF OnBus, FetchInFlight
  <2>2. m.dat = PcValId
    BY <1>0, <2>1 DEF OnBus
  <2> QED BY <1>1, <2>1, <2>2 DEF CoreInstDatRd
<1>2. CASE ~CoreInstAdrArbSelReg
  <2>1. CoreInstAdrCacheSelReg /\ ValidTagHit
    BY <1>2, Wires
  <2>2. CoreAdrReg = PcValId /\ CoreAdrReg \in Nat
    BY <1>0, <2>1 DEF Lookup, TypeOK, CacheTypeOK
  <2> DEFINE i == LineIndex(CoreAdrReg)
             w == WdIndex(CoreAdrReg)
  <2>3. i \in Lines /\ w \in 0 .. LineWords - 1
        /\ CoreAdrReg = (Tag(CoreAdrReg) * NumLines + i) * LineWords + w
    BY <2>2, AddressFields
  <2>4. TagRam[i].valid /\ TagRam[i].tag = Tag(CoreAdrReg) /\ CacheRamReadAddr = i * LineWords + w
    BY <1>0, <2>1 DEF Lookup, ValidTagHit
  <2>5. ~Filling(i)
    BY <1>0, <2>1, RequestWire DEF Filling
  <2>6. CORE_DAT_RD = (TagRam[i].tag * NumLines + i) * LineWords + w
    <3> HIDE DEF i, w
    <3> QED BY <1>0, <2>3, <2>4, <2>5 DEF LinesRight, CORE_DAT_RD
  <2>7. CORE_DAT_RD = CoreAdrReg
    <3> HIDE DEF i, w
    <3> QED BY <2>3, <2>4, <2>6
  <2> QED BY <1>2, <2>1, <2>2, <2>7 DEF CoreInstDatRd
<1> QED BY <1>1, <1>2

----------------------------------------------------------------------------
\* What one edge does to the fetch in flight.

\* The pipeline moves: the word decoded is used, and the strobe is accepted.
Moved ==
    /\ ~Stall /\ CoreInstCycReg' /\ ~CoreInstRdWhileStallId' /\ PcValId' = PcValIf
    /\ CoreInstAdrCacheSelReg' <=> Cached(PcValIf)
    /\ CoreInstAdrArbSelReg' <=> ~Cached(PcValIf)
    /\ CoreReadAddrStb(Port) <=> Cached(PcValIf)
    /\ BusAccept(InstPort) <=> ~Cached(PcValIf)

Held ==
    /\ Stall /\ ~CoreReadAddrStb(Port) /\ ~BusAccept(InstPort)
    /\ UNCHANGED << PcValId, PcValIf >>

\* The word comes while the pipeline is stalled, and CYC is dropped.
Captured ==
    /\ Held /\ CoreInstAck
    /\ ~CoreInstCycReg' /\ ~CoreInstAdrCacheSelReg' /\ ~CoreInstAdrArbSelReg'
    /\ CoreInstRdWhileStallId' /\ CoreInstRdDataWhileStallId' = PcValId

\* The fetch, if there is one, waits for its word.
Waited ==
    /\ Held /\ ~CoreInstAck
    /\ CoreInstAdrCacheSelReg' <=> CoreInstAdrCacheSelReg
    /\ CoreInstAdrArbSelReg' <=> CoreInstAdrArbSelReg
    /\ CoreInstRdWhileStallId' <=> CoreInstRdWhileStallId
    /\ CoreInstRdDataWhileStallId' = CoreInstRdDataWhileStallId
    /\ CoreInstCycReg => CoreInstCycReg'
    /\ CoreInstCycReg' => CoreInstCycReg \/ data' = "none"

LEMMA FetchStep ==
    ASSUME IInv, Clock
    PROVE  Moved \/ Captured \/ Waited
<1> USE BooleanFacts
<1>0. TypeOK /\ FetchInFlight /\ FetchAgrees
  BY Agreement DEF IInv
<1>1. /\ CoreInstAdrCacheSelReg' =
            (\/ CoreInstAdrCacheSel /\ ~CoreInstStall
             \/ CoreInstAdrCacheSelReg /\ ~(CoreInstCycReg /\ CoreInstAck))
      /\ CoreInstAdrArbSelReg' =
            (\/ CoreInstAdrArbSel /\ ~CoreInstStall
             \/ CoreInstAdrArbSelReg /\ ~(CoreInstCycReg /\ ArbInstAck))
      /\ CoreInstCycReg' = (FixupCycle \/ (CoreInstCycReg /\ ~(Stall /\ CoreInstAck)))
  BY DEF Clock, SelRegs, CycReg
<1>2. /\ CoreReadAddrStb(Port) <=> CoreInstAdrCacheSel /\ ~CoreInstStall
      /\ BusAccept(InstPort) <=> CoreInstAdrArbSel /\ ~CoreInstStall
  BY <1>0, Wires DEF FetchAgrees
<1>3. /\ CoreInstAdrCacheSelReg => (CoreInstAck <=> ReadAck)
      /\ CoreInstAdrArbSelReg => (CoreInstAck <=> ArbInstAck)
      /\ CoreInstAck => CoreInstCycReg
  BY <1>0, Wires DEF FetchInFlight
<1>4. CASE ~Stall
  <2>1. CoreInstCycReg /\ ~CoreInstStall /\ ~IlockExMem /\ CoreInstStb
    BY <1>4 DEF Stall, CoreInstStb
  <2>2. (CoreInstAdrCacheSel <=> Cached(PcValIf)) /\ (CoreInstAdrArbSel <=> ~Cached(PcValIf))
    BY <2>1 DEF CoreInstAdrCacheSel, CoreInstAdrArbSel
  <2>3. (CoreInstAdrCacheSelReg => ReadAck) /\ (CoreInstAdrArbSelReg => ArbInstAck)
    BY <2>1 DEF CoreInstStall
  <2>4. /\ CoreInstAdrCacheSelReg' <=> Cached(PcValIf)
        /\ CoreInstAdrArbSelReg' <=> ~Cached(PcValIf)
        /\ CoreInstCycReg'
    BY <1>1, <1>3, <1>4, <2>1, <2>2, <2>3
  <2>5. ~CoreInstRdWhileStallId' /\ PcValId' = PcValIf
    BY <1>4 DEF Clock, WhileStallRegs, Pipeline
  <2> QED BY <1>2, <1>4, <2>1, <2>2, <2>4, <2>5 DEF Moved
<1>5. CASE Stall
  <2>1. ~(CoreInstStb /\ ~CoreInstStall)
    <3> SUFFICES ASSUME CoreInstStb, ~CoreInstStall PROVE FALSE
      OBVIOUS
    <3>1. CoreInstCycReg /\ IlockExMem
      BY <1>5 DEF Stall, CoreInstStb
    <3>2. ~CoreInstAck
      BY <3>1 DEF CoreInstStb
    <3>3. ~CoreInstAdrCacheSelReg /\ ~CoreInstAdrArbSelReg
      BY <1>3, <3>2 DEF CoreInstStall
    <3>4. data = "none"
      BY <1>0, <3>1, <3>3 DEF FetchInFlight
    <3> QED BY <3>1, <3>4 DEF IlockExMem
  <2>2. Held
    <3>1. UNCHANGED << PcValId, PcValIf >>
      BY <1>5 DEF Clock, Pipeline
    <3> QED BY <1>2, <1>5, <2>1, <3>1 DEF Held, CoreInstAdrCacheSel, CoreInstAdrArbSel
  <2>3. /\ CoreInstRdWhileStallId' = (CoreInstRdWhileStall \/ CoreInstRdWhileStallId)
        /\ CoreInstRdDataWhileStallId' =
               IF CoreInstRdWhileStall THEN CoreInstDatRd ELSE CoreInstRdDataWhileStallId
    BY <1>5 DEF Clock, WhileStallRegs
  <2>4. /\ CoreInstAdrCacheSelReg' = (CoreInstAdrCacheSelReg /\ ~(CoreInstCycReg /\ CoreInstAck))
        /\ CoreInstAdrArbSelReg' = (CoreInstAdrArbSelReg /\ ~(CoreInstCycReg /\ ArbInstAck))
    BY <1>1, <2>1 DEF CoreInstAdrCacheSel, CoreInstAdrArbSel
  <2>5. CASE CoreInstAck
    <3>1. CoreInstRdWhileStall /\ CoreInstCycReg
      BY <1>3, <1>5, <2>5 DEF CoreInstRdWhileStall
    <3>2. CoreInstRdWhileStallId' /\ CoreInstRdDataWhileStallId' = PcValId
      BY <2>3, <2>5, <3>1, AnswerRight
    <3>3. ~CoreInstCycReg'
      BY <1>1, <1>5, <2>5, <3>1 DEF FixupCycle
    <3> QED BY <1>3, <2>2, <2>4, <2>5, <3>1, <3>2, <3>3 DEF Captured
  <2>6. CASE ~CoreInstAck
    <3>1. ~CoreInstRdWhileStall
      BY <2>6 DEF CoreInstRdWhileStall
    <3>2. FixupCycle => data' = "none"
      <4>1. FixupCycle => data = "none" \/ CoreDataAck
        BY DEF FixupCycle, IlockExMem
      <4> QED BY <1>5, <4>1 DEF Clock, Pipeline
    <3>3. CoreInstCycReg => CoreInstCycReg'
      BY <1>1, <2>6
    <3>4. CoreInstCycReg' => CoreInstCycReg \/ data' = "none"
      BY <1>1, <3>2
    <3> QED BY <1>3, <2>2, <2>3, <2>4, <2>6, <3>1, <3>3, <3>4 DEF Waited
  <2> QED BY <2>5, <2>6
<1> QED BY <1>4, <1>5

\* As long as no jump leads from kseg1 back to a cached address, a fetch from
\* kseg1 is followed by no other kind.
LEMMA StepFetch ==
    ASSUME IInv, Clock, "toCached" \notin Crossings
    PROVE  FetchInFlight'
<1> USE BooleanFacts
<1>0. TypeOK /\ FetchInFlight
  BY DEF IInv
<1>1. CASE Moved
  <2>1. ~Stall /\ Follows(PcValIf, PcValIf', data')
    BY <1>1 DEF Moved, Clock, Pipeline
  <2>2. ~Cached(PcValIf) => ~Cached(PcValIf')
    BY <2>1 DEF Follows, Direction
  <2> QED BY <1>1, <2>2 DEF Moved, FetchInFlight
<1>2. CASE Captured
  BY <1>2 DEF Captured, Held, FetchInFlight
<1>3. CASE Waited
  <2>1. ~CoreInstAdrCacheSelReg /\ ~CoreInstAdrArbSelReg /\ CoreInstCycReg => data' = "none"
    <3>1. ~CoreInstAdrCacheSelReg /\ ~CoreInstAdrArbSelReg /\ CoreInstCycReg => data = "none"
      BY <1>0 DEF FetchInFlight
    <3>2. Stall /\ data = "none" => data' = "none"
      BY DEF Clock, Pipeline
    <3> QED BY <1>3, <3>1, <3>2 DEF Waited, Held
  <2> QED BY <1>0, <1>3, <2>1 DEF Waited, Held, FetchInFlight
<1> QED BY <1>1, <1>2, <1>3, FetchStep

\* A strobe starts a lookup, a fill goes on until its last word, and the registers
\* of the cache stay as they are otherwise.
LEMMA StepLookup ==
    ASSUME IInv, Clock
    PROVE  Lookup'
<1> USE BooleanFacts
<1>0. /\ TypeOK /\ FetchInFlight /\ Lookup
      /\ CoreAdrReg \in Nat /\ PcValIf \in Nat
      /\ TagRam \in [Lines -> TagEntry]
  BY DEF IInv, TypeOK, CacheTypeOK
<1>1. /\ CoreRegs(Port, CacheM) /\ TagRamEdge(Port, CacheM) /\ CacheRamEdge(Port, CacheM)
      /\ ~TagRamFlushEn(Port) /\ ~Port.we
  BY Wires DEF Clock, ICacheEdge
<1>2. /\ CoreAdrReg' = IF CoreReadAddrStb(Port) THEN Port.adr ELSE CoreAdrReg
      /\ CoreReadAddrStbReg' =
           (\/ CoreReadAddrStb(Port)
            \/ CoreReadAddrStbReg /\ ~(TagRamStoreEn(Port, CacheM) \/ ValidTagHit))
      /\ ~TagRamFlushEnReg'
  BY <1>1 DEF CoreRegs, CoreAddrStb
<1>3. Cached(CoreAdrReg')
  BY <1>0, <1>2, Wires DEF Lookup
<1>4. TagRamStoreEn(Port, CacheM) => BusReadReq(Port)
  BY DEF TagRamStoreEn
<1>5. ASSUME ~CoreInstAdrCacheSelReg' PROVE ~CoreReadAddrStbReg'
  <2>1. ~CoreReadAddrStb(Port)
    BY <1>5, FetchStep DEF Moved, Captured, Waited, Held
  <2>2. CoreReadAddrStbReg => ValidTagHit
    <3>1. CoreReadAddrStbReg => CoreInstAdrCacheSelReg /\ ~CoreInstAdrArbSelReg
      BY <1>0 DEF Lookup, FetchInFlight
    <3>2. CASE Moved
      <4>1. CoreInstAdrCacheSelReg => ReadAck
        BY <3>2 DEF Moved, Stall, CoreInstStall
      <4> QED BY <3>1, <4>1, Wires
    <3>3. CASE Captured
      BY <3>1, <3>3, Wires DEF Captured
    <3>4. CASE Waited
      BY <1>5, <3>1, <3>4 DEF Waited
    <3> QED BY <3>2, <3>3, <3>4, FetchStep
  <2> QED BY <1>2, <2>1, <2>2
<1>6. ASSUME CoreInstAdrCacheSelReg'
      PROVE  /\ CoreAdrReg' = PcValId'
             /\ CoreReadAddrStbReg' \/ ValidTagHit'
             /\ TagRamReadData' = TagRam'[LineIndex(CoreAdrReg')]
             /\ CacheRamReadAddr' = LineIndex(CoreAdrReg') * LineWords + WdIndex(CoreAdrReg')
  <2>1. CASE CoreReadAddrStb(Port)
    <3>1. Moved
      BY <2>1, FetchStep DEF Captured, Waited, Held
    <3>2. CoreAdrReg' = PcValIf /\ CoreReadAddrStbReg' /\ Port.adr = PcValIf
      BY <1>2, <2>1, Wires
    <3>3. ~BusReadReq(Port)
      BY <2>1 DEF CoreReadAddrStb, CORE_STALL, BusReadReq
    <3>4. TagRamReadData' = TagRam'[LineIndex(PcValIf)]
      BY <1>1, <1>4, <3>2, <3>3 DEF TagRamEdge, TagRamAddr
    <3>5. CacheRamReadAddr' = LineIndex(PcValIf) * LineWords + WdIndex(PcValIf)
      BY <1>1, <3>2, <3>3 DEF CacheRamEdge
    <3> QED BY <3>1, <3>2, <3>4, <3>5 DEF Moved
  <2>2. CASE ~CoreReadAddrStb(Port)
    <3>1. Waited
      BY <1>6, <2>2, FetchStep DEF Moved, Captured
    <3>2. CoreInstAdrCacheSelReg /\ ~ValidTagHit /\ PcValId' = PcValId
      BY <1>6, <3>1, Wires DEF Waited, Held
    <3>3. BusReadReq(Port) /\ CoreReadAddrStbReg
      BY <1>0, <3>2, RequestWire DEF Lookup
    <3>4. CoreAdrReg' = CoreAdrReg /\ CoreAdrReg = PcValId
      BY <1>0, <1>2, <2>2, <3>2 DEF Lookup
    <3>5. CacheRamReadAddr' = LineIndex(CoreAdrReg) * LineWords + WdIndex(CoreAdrReg)
      BY <1>1, <3>3 DEF CacheRamEdge
    <3>6. LineIndex(CoreAdrReg) \in Lines /\ TagRamAddr(Port) = LineIndex(CoreAdrReg)
      BY <1>0, <3>3, AddressFields DEF TagRamAddr
    <3>7. TagRamReadData' = TagRam'[LineIndex(CoreAdrReg)]
      BY <1>0, <1>1, <3>6 DEF TagRamEdge
    <3>8. CoreReadAddrStbReg' \/ ValidTagHit'
      <4>1. CASE TagRamStoreEn(Port, CacheM)
        <5>1. TagRamReadData' = [valid |-> TRUE, tag |-> Tag(CoreAdrReg)]
          BY <1>1, <4>1 DEF TagRamEdge, TagRamWriteData
        <5> QED BY <3>4, <5>1 DEF ValidTagHit
      <4>2. CASE ~TagRamStoreEn(Port, CacheM)
        BY <1>2, <3>2, <3>3, <4>2
      <4> QED BY <4>1, <4>2
    <3> QED BY <3>2, <3>4, <3>5, <3>7, <3>8
  <2> QED BY <2>1, <2>2
<1> QED BY <1>2, <1>3, <1>5, <1>6 DEF Lookup

----------------------------------------------------------------------------
\* What one edge does to a fill.

\* An answer of the memory reaches the cache when it is that to the cache, and
\* the bus takes the strobe of the burst exactly when its timers count it.
LEMMA FillWires ==
    ASSUME IInv
    PROVE  /\ CacheM.ack <=> m.ack /\ slv.who = CachePort
           /\ CacheM.dat = m.dat
           /\ BurstTmrDec(Bus(Port), CacheM) <=> BusAccept(CachePort)
           /\ BusAccept(CachePort) => WbStb /\ ~m.stall /\ WbArbGntReg = CachePort
           /\ BusReq(Bus(Port)) <=> BusReadReq(Port)
           /\ Bus(Port).adr = LineStart(CoreAdrReg) /\ Bus(Port).len = LineWords /\ Bus(Port).inc
<1> USE BusFacts, BooleanFacts
<1>0. TypeOK /\ OnBus
  BY DEF IInv
<1>1. CacheM.ack <=> m.ack /\ slv.who = CachePort
  BY <1>0 DEF CacheM, Arb!Ack, OnBus
<1>2. CacheM.stall = IF WbArbGntReg = CachePort THEN m.stall ELSE CACHE_CYC(Port)
  BY DEF CacheM, Arb!Stall
<1>3. CACHE_CYC(Port) = WB_CYC(Bus(Port))
  BY DEF CACHE_CYC
<1>4. BusAccept(CachePort) <=> WbArbGntReg = CachePort /\ CACHE_CYC(Port) /\ WbStb /\ ~m.stall
  BY DEF BusAccept
<1>5. BurstTmrDec(Bus(Port), CacheM) <=> BusAccept(CachePort)
  BY <1>2, <1>3, <1>4 DEF BurstTmrDec
<1>6. BusReq(Bus(Port)) <=> BusReadReq(Port)
  BY DEF BusReq, Bus
<1>7. CacheM.dat = m.dat
  BY DEF CacheM
<1>8. Bus(Port).adr = LineStart(CoreAdrReg) /\ Bus(Port).len = LineWords /\ Bus(Port).inc
  BY DEF Bus
<1> QED BY <1>1, <1>4, <1>5, <1>6, <1>7, <1>8

\* A request goes on until the last word is stored.
LEMMA RequestStep ==
    ASSUME IInv, Clock, TypeOK', FetchInFlight', Lookup'
    PROVE  /\ BusReadReq(Port) =>
                  /\ CoreAdrReg' = CoreAdrReg
                  /\ BusReadReq(Port)' <=> ~TagRamStoreEn(Port, CacheM)
                  /\ ~CoreReadAddrStb(Port)
           /\ ~BusReadReq(Port) =>
                  /\ BusReadReq(Port)' => CoreReadAddrStb(Port)
                  /\ UNCHANGED << TagRam, CacheRam >>
<1> USE BooleanFacts
<1>0. TypeOK /\ FetchInFlight /\ Lookup
  BY DEF IInv
<1>1. BusReadReq(Port)' <=> CoreReadAddrStbReg' /\ ~ValidTagHit'
  BY RequestWireNext
<1>2. /\ CoreRegs(Port, CacheM) /\ TagRamEdge(Port, CacheM) /\ CacheRamEdge(Port, CacheM)
      /\ ~TagRamFlushEn(Port) /\ ~Port.we
  BY Wires DEF Clock, ICacheEdge
<1>3. CASE BusReadReq(Port)
  <2>1. CoreReadAddrStbReg /\ ~ValidTagHit /\ CoreInstAdrCacheSelReg
    BY <1>0, <1>3, RequestWire
  <2>2. ~CoreReadAddrStb(Port)
    BY <2>1 DEF CoreReadAddrStb, CORE_STALL
  <2>3. CoreAdrReg' = CoreAdrReg
    BY <1>2, <2>2 DEF CoreRegs, CoreAddrStb
  <2>4. CoreReadAddrStbReg' <=> ~TagRamStoreEn(Port, CacheM)
    BY <1>2, <2>1, <2>2 DEF CoreRegs
  <2>5. ~TagRamStoreEn(Port, CacheM) => ~ValidTagHit'
    <3>1. TagRamAddr(Port) = LineIndex(CoreAdrReg)
      BY <1>3 DEF TagRamAddr
    <3>2. ~TagRamStoreEn(Port, CacheM) => TagRamReadData' = TagRamReadData
      BY <1>0, <1>2, <2>1, <3>1 DEF TagRamEdge, Lookup
    <3> QED BY <2>1, <2>3, <3>2 DEF ValidTagHit
  <2> QED BY <1>1, <1>3, <2>2, <2>3, <2>4, <2>5
<1>4. CASE ~BusReadReq(Port)
  <2>1. ~TagRamStoreEn(Port, CacheM)
    BY <1>4 DEF TagRamStoreEn
  <2>2. UNCHANGED << TagRam, CacheRam >>
    BY <1>2, <1>4, <2>1 DEF TagRamEdge, CacheRamEdge
  <2>3. CoreReadAddrStbReg => ValidTagHit
    BY <1>0, <1>4, RequestWire
  <2>4. CoreReadAddrStbReg' => CoreReadAddrStb(Port)
    BY <1>2, <2>3 DEF CoreRegs
  <2> QED BY <1>1, <1>4, <2>2, <2>4
<1> QED BY <1>3, <1>4

\* The words that have come are in place, and only those: each answer is stored
\* behind the words before it.
LEMMA StepWords ==
    ASSUME IInv, Clock, InBurst, CacheM.ack
    PROVE  /\ CacheRam' = [CacheRam EXCEPT ![LineIndex(CoreAdrReg) * LineWords + FillCntVal] =
                                               LineStart(CoreAdrReg) + FillCntVal]
           /\ FillCntVal' = IF AckTmrVal = 1 THEN 0 ELSE FillCntVal + 1
<1> USE ConstantFacts
<1>0. TypeOK /\ Burst /\ OnBus /\ BusReadReq(Port) /\ AckTmrVal \in 1 .. LineWords
      /\ FillCntVal = LineWords - AckTmrVal
  BY DEF IInv, InBurst, Burst
<1>1. BUS_ACK(Bus(Port), CacheM)
  BY <1>0, FillWires DEF BUS_ACK
<1>2. ~CoreReadAddrStb(Port)
  <2>1. CORE_STALL
    BY <1>0 DEF CORE_STALL, BusReadReq
  <2> QED BY <2>1 DEF CoreReadAddrStb
<1>3. m.dat = LineStart(CoreAdrReg) + FillCntVal
  BY <1>0, FillWires DEF OnBus, Burst
<1>4. CacheRam' = [CacheRam EXCEPT ![LineIndex(CoreAdrReg) * LineWords + FillCntVal] = m.dat]
  BY <1>0, <1>1, FillWires DEF Clock, ICacheEdge, CacheRamEdge
<1>5. FillCntVal' = (FillCntVal + 1) % LineWords
  BY <1>0, <1>1, <1>2 DEF Clock, ICacheEdge, FillCounter
<1>6. CASE AckTmrVal = 1
  <2>1. FillCntVal + 1 = LineWords
    BY <1>0, <1>6
  <2>2. \A b \in Nat \ {0} : b % b = 0
    OBVIOUS
  <2> QED BY <1>3, <1>4, <1>5, <1>6, <2>1, <2>2
<1>7. CASE AckTmrVal # 1
  <2>1. FillCntVal + 1 \in 0 .. LineWords - 1
    BY <1>0, <1>7
  <2>2. \A b \in Nat \ {0} : \A x \in 0 .. b - 1 : x % b = x
    OBVIOUS
  <2> QED BY <1>3, <1>4, <1>5, <1>7, <2>1, <2>2
<1> QED BY <1>6, <1>7

\* A line of the data RAM is changed by a fill of that line only.
LEMMA OtherLines ==
    ASSUME IInv, Clock, NEW i \in Lines, NEW w \in 0 .. LineWords - 1,
           ~(BusReadReq(Port) /\ CacheM.ack)
              \/ i # LineIndex(CoreAdrReg) \/ w # FillCntVal
    PROVE  CacheRam'[i * LineWords + w] = CacheRam[i * LineWords + w]
<1> DEFINE at == LineIndex(CoreAdrReg) * LineWords + FillCntVal
<1>1. LineIndex(CoreAdrReg) \in Lines /\ FillCntVal \in 0 .. LineWords - 1
      /\ CacheRam \in [0 .. NumLines * LineWords - 1 -> 0 .. Top]
  BY AddressFields DEF IInv, TypeOK, CacheTypeOK
<1>2. CASE BusReadReq(Port) /\ CacheM.ack
  <2>1. i * LineWords + w # at
    BY <1>1, <1>2, IndexUnique
  <2>2. CacheRam' = [CacheRam EXCEPT ![at] = CacheM.dat]
    BY <1>2, FillWires DEF Clock, ICacheEdge, CacheRamEdge, BUS_ACK
  <2>3. i * LineWords + w \in 0 .. NumLines * LineWords - 1
    BY IndexRange
  <2> HIDE DEF at
  <2> QED BY <1>1, <2>1, <2>2, <2>3
<1>3. CASE ~(BusReadReq(Port) /\ CacheM.ack)
  BY <1>3 DEF Clock, ICacheEdge, CacheRamEdge, BUS_ACK
<1> QED BY <1>2, <1>3

\* The registers of the burst master, by what stage a fill is in.
LEMMA MasterStep ==
    ASSUME IInv, Clock
    PROVE  /\ BusReqReg' <=> BusReadReq(Port)
           /\ ~BusReadReq(Port) => ~WbCyc' /\ ~WbStb'
           /\ BusReadReq(Port) /\ ~BusReqReg =>
                  /\ WbCyc' /\ WbStb'
                  /\ BurstTmrVal' = LineWords /\ AckTmrVal' = LineWords
                  /\ AddrCntVal' = LineStart(CoreAdrReg)
           /\ InBurst =>
                  /\ WbCyc' <=> ~(CacheM.ack /\ AckTmrVal = 1)
                  /\ WbStb' <=> WbStb /\ ~(BusAccept(CachePort) /\ BurstTmrVal = 1)
                  /\ BurstTmrVal' = IF BusAccept(CachePort) THEN BurstTmrVal - 1 ELSE BurstTmrVal
                  /\ AckTmrVal' = IF CacheM.ack THEN AckTmrVal - 1 ELSE AckTmrVal
                  /\ AddrCntVal' = IF BusAccept(CachePort) THEN (AddrCntVal + 1) % Top
                                   ELSE AddrCntVal
                  /\ TagRamStoreEn(Port, CacheM) <=> CacheM.ack /\ AckTmrVal = 1
<1> USE BooleanFacts, FillWires
<1>0. TypeOK /\ Burst
  BY DEF IInv
<1>1. WbMasterEdge(Bus(Port), CacheM, Top)
  BY DEF Clock, ICacheEdge
<1>2. BusReqReg' <=> BusReadReq(Port)
  BY <1>1 DEF WbMasterEdge
<1>3. WbLastAck(Bus(Port), CacheM) <=> BusReadReq(Port) /\ AckTmrVal = 1 /\ CacheM.ack
  BY DEF WbLastAck
<1>4. WbLastStb(Bus(Port), CacheM) <=>
          BusReadReq(Port) /\ BurstTmrVal = 1 /\ BusAccept(CachePort)
  BY DEF WbLastStb
<1>5. BusReqRedge(Bus(Port)) <=> BusReadReq(Port) /\ ~BusReqReg
  BY DEF BusReqRedge
<1>6. /\ WbCyc' <=> BusReqRedge(Bus(Port)) \/ (WbCyc /\ ~WbLastAck(Bus(Port), CacheM))
      /\ WbStb' <=> BusReqRedge(Bus(Port)) \/ (WbStb /\ ~WbLastStb(Bus(Port), CacheM))
  BY <1>1 DEF WbMasterEdge, Phases
<1>7. ~BusReadReq(Port) => ~WbCyc' /\ ~WbStb'
  BY <1>0, <1>5, <1>6 DEF Burst, InBurst
<1>8. BusReadReq(Port) /\ ~BusReqReg =>
          /\ WbCyc' /\ WbStb'
          /\ BurstTmrVal' = LineWords /\ AckTmrVal' = LineWords
          /\ AddrCntVal' = LineStart(CoreAdrReg)
  BY <1>1, <1>5, <1>6 DEF WbMasterEdge, Timers, AddrCnt
<1>9. ASSUME InBurst
      PROVE  /\ WbCyc' <=> ~(CacheM.ack /\ AckTmrVal = 1)
             /\ WbStb' <=> WbStb /\ ~(BusAccept(CachePort) /\ BurstTmrVal = 1)
             /\ BurstTmrVal' = IF BusAccept(CachePort) THEN BurstTmrVal - 1 ELSE BurstTmrVal
             /\ AckTmrVal' = IF CacheM.ack THEN AckTmrVal - 1 ELSE AckTmrVal
             /\ AddrCntVal' = IF BusAccept(CachePort) THEN (AddrCntVal + 1) % Top
                              ELSE AddrCntVal
             /\ TagRamStoreEn(Port, CacheM) <=> CacheM.ack /\ AckTmrVal = 1
  <2>1. BusReadReq(Port) /\ ~BusReqRedge(Bus(Port)) /\ WbCyc
    BY <1>0, <1>5, <1>9 DEF Burst, InBurst
  <2>2. BusAccept(CachePort) => BurstTmrVal # 0
    BY <1>0, <1>9 DEF Burst
  <2>3. AckTmrVal # 0
    BY <1>0, <1>9, ConstantFacts DEF Burst
  <2>4. /\ BurstTmrVal' = IF BusAccept(CachePort) THEN BurstTmrVal - 1 ELSE BurstTmrVal
        /\ AckTmrVal' = IF CacheM.ack THEN AckTmrVal - 1 ELSE AckTmrVal
    BY <1>1, <2>1, <2>2, <2>3 DEF WbMasterEdge, Timers
  <2>5. AddrCntVal' = IF BusAccept(CachePort) THEN (AddrCntVal + 1) % Top ELSE AddrCntVal
    BY <1>1, <2>1 DEF WbMasterEdge, AddrCnt
  <2>6. TagRamStoreEn(Port, CacheM) <=> CacheM.ack /\ AckTmrVal = 1
    BY <1>3, <2>1 DEF TagRamStoreEn, BUS_ACK, BUS_LAST_ACK
  <2> QED BY <1>3, <1>4, <1>6, <2>1, <2>4, <2>5, <2>6
<1> QED BY <1>2, <1>7, <1>8, <1>9

\* The memory works on an access of the cache from when it is accepted until it
\* is answered.
LEMMA SlaveStep ==
    ASSUME IInv, Clock
    PROVE  /\ BusAccept(CachePort) =>
                  /\ slv' = [who |-> CachePort, adr |-> AddrCntVal]
                  /\ slv.who = CachePort => CacheM.ack
           /\ ~BusAccept(CachePort) /\ slv.who = CachePort /\ ~CacheM.ack => slv' = slv
           /\ ~BusAccept(CachePort) /\ (slv.who = CachePort => CacheM.ack) =>
                  slv'.who # CachePort
<1> USE BusFacts, BooleanFacts, FillWires
<1>0. TypeOK /\ OnBus
  BY DEF IInv
<1>1. slv' = IF \E i \in 0 .. 3 : BusAccept(i)
             THEN [who |-> WbArbGntReg, adr |-> BusAdr[WbArbGntReg]]
             ELSE IF m.ack THEN [who |-> Arb!NoGnt, adr |-> 0] ELSE slv
  BY DEF Clock, SlaveAccess
<1>2. \A i \in 0 .. 3 : BusAccept(i) => WbArbGntReg = i /\ ~m.stall
  BY DEF BusAccept
<1>3. BusAccept(CachePort) =>
          /\ slv' = [who |-> CachePort, adr |-> AddrCntVal]
          /\ slv.who = CachePort => CacheM.ack
  <2> SUFFICES ASSUME BusAccept(CachePort)
               PROVE  /\ slv' = [who |-> CachePort, adr |-> AddrCntVal]
                      /\ slv.who = CachePort => CacheM.ack
    OBVIOUS
  <2>1. \E i \in 0 .. 3 : BusAccept(i)
    <3>1. CachePort \in 0 .. 3
      OBVIOUS
    <3> QED BY <3>1
  <2>2. WbArbGntReg = CachePort /\ ~m.stall
    OBVIOUS
  <2>3. slv' = [who |-> CachePort, adr |-> AddrCntVal]
    BY <1>1, <2>1, <2>2
  <2>4. slv.who = CachePort => m.ack
    BY <1>0, <2>2 DEF OnBus
  <2> QED BY <2>3, <2>4
<1>4. ASSUME slv.who = CachePort, ~CacheM.ack
      PROVE  slv' = slv
  <2>1. ~m.ack /\ m.stall
    BY <1>0, <1>4 DEF OnBus
  <2> QED BY <1>1, <1>2, <2>1
<1>5. ASSUME ~BusAccept(CachePort), slv.who = CachePort => CacheM.ack
      PROVE  slv'.who # CachePort
  <2>1. CASE \E i \in 0 .. 3 : BusAccept(i)
    BY <1>1, <1>2, <1>5, <2>1
  <2>2. CASE ~\E i \in 0 .. 3 : BusAccept(i)
    BY <1>1, <1>5, <2>2
  <2> QED BY <2>1, <2>2
<1> QED BY <1>3, <1>4, <1>5

LEMMA StepBurst ==
    ASSUME IInv, Clock, TypeOK', FetchInFlight', Lookup'
    PROVE  Burst'
<1> USE BooleanFacts, ConstantFacts
<1>0. /\ TypeOK /\ Burst /\ Lookup /\ OnBus
      /\ LineStart(CoreAdrReg) \in Nat /\ LineStart(CoreAdrReg) + LineWords < Top
      /\ BurstTmrVal \in Nat /\ AckTmrVal \in Nat /\ FillCntVal \in Nat
  <2>1. TypeOK /\ Burst /\ Lookup /\ OnBus
    BY DEF IInv
  <2>2. CoreAdrReg \in Nat /\ Cached(CoreAdrReg)
    BY <2>1 DEF TypeOK, CacheTypeOK, Lookup
  <2>3. BurstTmrVal \in Nat /\ AckTmrVal \in Nat /\ FillCntVal \in Nat
    BY <2>1 DEF TypeOK, CacheTypeOK, WbMasterTypeOK
  <2>4. LineStart(CoreAdrReg) \in Nat
    BY <2>2, AddressFields
  <2>5. LineStart(CoreAdrReg) + LineWords <= CachedTop
    BY <2>2, LineInside
  <2> QED BY <2>1, <2>3, <2>4, <2>5
<1>1. BusReqReg' <=> BusReadReq(Port)
  BY MasterStep
<1>2. FillCounter(Port, CacheM)
  BY DEF Clock, ICacheEdge
<1>3. CASE ~BusReadReq(Port)
  <2>1. ~WbCyc' /\ ~WbStb' /\ ~InBurst'
    BY <1>1, <1>3, MasterStep DEF InBurst
  <2>2. ~BusAccept(CachePort) /\ slv.who # CachePort
    BY <1>0, <1>3, FillWires DEF Burst, InBurst
  <2>3. slv'.who # CachePort
    BY <2>2, SlaveStep
  <2>4. BusReadReq(Port)' => FillCntVal' = 0
    BY <1>2, <1>3, RequestStep DEF FillCounter
  <2>5. BusReadReq(Port)' => 0 .. FillCntVal' - 1 = {}
    BY <2>4
  <2> QED BY <2>1, <2>3, <2>4, <2>5 DEF Burst
<1>4. CASE BusReadReq(Port) /\ ~BusReqReg
  <2>1. ~BusAccept(CachePort) /\ ~CacheM.ack /\ slv.who # CachePort /\ FillCntVal = 0
    BY <1>0, <1>4, FillWires DEF Burst, InBurst
  <2>2. FillCntVal' = 0
    BY <1>2, <1>4, <2>1, RequestStep DEF FillCounter, BUS_ACK
  <2>3. InBurst' /\ CoreAdrReg' = CoreAdrReg
    BY <1>1, <1>4, <2>1, RequestStep DEF InBurst, TagRamStoreEn, BUS_ACK
  <2>4. slv'.who # CachePort
    BY <2>1, SlaveStep
  <2>5. 0 .. FillCntVal' - 1 = {}
    BY <2>2
  <2>6. /\ WbCyc' /\ WbStb'
        /\ BurstTmrVal' = LineWords /\ AckTmrVal' = LineWords
        /\ AddrCntVal' = LineStart(CoreAdrReg')
    BY <1>4, <2>3, MasterStep
  <2> QED BY <1>0, <2>2, <2>3, <2>4, <2>5, <2>6 DEF Burst
<1>5. CASE InBurst /\ CacheM.ack /\ AckTmrVal = 1
  <2>1. TagRamStoreEn(Port, CacheM) /\ BusReadReq(Port) /\ ~WbCyc'
    BY <1>5, MasterStep DEF InBurst
  <2>2. ~BusReadReq(Port)' /\ ~InBurst'
    BY <2>1, RequestStep DEF InBurst
  <2>3. slv.who = CachePort
    BY <1>5, FillWires
  <2>4. BurstTmrVal = 0 /\ ~WbStb
    BY <1>0, <1>5, <2>3 DEF Burst
  <2>5. ~BusAccept(CachePort) /\ ~WbStb'
    BY <1>5, <2>4, FillWires, MasterStep
  <2>6. slv'.who # CachePort
    BY <1>5, <2>5, SlaveStep
  <2> QED BY <2>1, <2>2, <2>5, <2>6 DEF Burst
<1>6. CASE InBurst /\ ~(CacheM.ack /\ AckTmrVal = 1)
  <2>1. InBurst' /\ CoreAdrReg' = CoreAdrReg /\ BusReadReq(Port) /\ WbCyc'
        /\ ~CoreReadAddrStb(Port)
    BY <1>1, <1>6, RequestStep, MasterStep DEF InBurst
  <2>2. /\ WbStb <=> BurstTmrVal # 0
        /\ AckTmrVal \in 1 .. LineWords
        /\ AckTmrVal = BurstTmrVal + (IF slv.who = CachePort THEN 1 ELSE 0)
        /\ FillCntVal = LineWords - AckTmrVal
        /\ WbStb => AddrCntVal = LineStart(CoreAdrReg) + (LineWords - BurstTmrVal)
        /\ slv.who = CachePort => slv.adr = LineStart(CoreAdrReg) + FillCntVal
    BY <1>0, <1>6 DEF Burst
  <2>3. CacheM.ack => slv.who = CachePort
    BY FillWires
  <2>4. BusAccept(CachePort) => WbStb
    BY FillWires
  <2>5. /\ BurstTmrVal' = IF BusAccept(CachePort) THEN BurstTmrVal - 1 ELSE BurstTmrVal
        /\ AckTmrVal' = IF CacheM.ack THEN AckTmrVal - 1 ELSE AckTmrVal
        /\ WbStb' <=> WbStb /\ ~(BusAccept(CachePort) /\ BurstTmrVal = 1)
    BY <1>6, MasterStep
  <2>6. FillCntVal' = LineWords - AckTmrVal' /\ AckTmrVal' \in 1 .. LineWords
    <3>1. CASE CacheM.ack
      BY <1>0, <1>6, <2>2, <2>5, <3>1, StepWords
    <3>2. CASE ~CacheM.ack
      <4>1. FillCntVal' = FillCntVal
        BY <1>2, <2>1, <3>2 DEF FillCounter, BUS_ACK
      <4> QED BY <2>2, <2>5, <3>2, <4>1
    <3> QED BY <3>1, <3>2
  <2>7. WbStb' <=> BurstTmrVal' # 0
    BY <1>0, <2>2, <2>4, <2>5
  <2>8. slv'.who = CachePort <=> BusAccept(CachePort) \/ (slv.who = CachePort /\ ~CacheM.ack)
    BY SlaveStep
  <2>9. BusAccept(CachePort) => (slv.who = CachePort => CacheM.ack)
    BY SlaveStep
  <2>10. AckTmrVal' = BurstTmrVal' + (IF slv'.who = CachePort THEN 1 ELSE 0)
    <3>1. CASE CacheM.ack /\ BusAccept(CachePort)
      <4>1. slv'.who = CachePort /\ slv.who = CachePort
        BY <2>3, <2>8, <3>1
      <4> QED BY <1>0, <2>2, <2>4, <2>5, <3>1, <4>1
    <3>2. CASE CacheM.ack /\ ~BusAccept(CachePort)
      <4>1. slv'.who # CachePort /\ slv.who = CachePort
        BY <2>3, <2>8, <3>2
      <4> QED BY <1>0, <2>2, <2>5, <3>2, <4>1
    <3>3. CASE ~CacheM.ack /\ BusAccept(CachePort)
      <4>1. slv'.who = CachePort /\ slv.who # CachePort
        BY <2>8, <2>9, <3>3
      <4> QED BY <1>0, <2>2, <2>4, <2>5, <3>3, <4>1
    <3>4. CASE ~CacheM.ack /\ ~BusAccept(CachePort)
      <4>1. slv'.who = CachePort <=> slv.who = CachePort
        BY <2>8, <3>4
      <4> QED BY <1>0, <2>2, <2>5, <3>4, <4>1
    <3> QED BY <3>1, <3>2, <3>3, <3>4
  <2>11. WbStb' => AddrCntVal' = LineStart(CoreAdrReg') + (LineWords - BurstTmrVal')
    <3> SUFFICES ASSUME WbStb'
                 PROVE  AddrCntVal' = LineStart(CoreAdrReg) + (LineWords - BurstTmrVal')
      BY <2>1
    <3>1. WbStb /\ AddrCntVal = LineStart(CoreAdrReg) + (LineWords - BurstTmrVal)
      BY <2>2, <2>5
    <3>2. AddrCntVal' = IF BusAccept(CachePort) THEN (AddrCntVal + 1) % Top ELSE AddrCntVal
      BY <1>6, MasterStep
    <3>3. CASE BusAccept(CachePort)
      <4>1. BurstTmrVal \in 2 .. LineWords /\ BurstTmrVal' = BurstTmrVal - 1
        BY <1>0, <2>2, <2>5, <3>1, <3>3
      <4>2. AddrCntVal + 1 \in 0 .. Top - 1
        BY <1>0, <3>1, <4>1
      <4>3. \A b \in Nat \ {0} : \A x \in 0 .. b - 1 : x % b = x
        OBVIOUS
      <4>4. AddrCntVal' = AddrCntVal + 1
        BY <3>2, <3>3, <4>2, <4>3
      <4> QED BY <1>0, <3>1, <4>1, <4>4
    <3>4. CASE ~BusAccept(CachePort)
      BY <2>5, <3>1, <3>2, <3>4
    <3> QED BY <3>3, <3>4
  <2>12. slv'.who = CachePort => slv'.adr = LineStart(CoreAdrReg') + FillCntVal'
    <3>1. CASE BusAccept(CachePort)
      <4>1. slv'.adr = LineStart(CoreAdrReg) + (LineWords - BurstTmrVal)
        BY <2>2, <2>4, <3>1, SlaveStep
      <4>2. slv'.who = CachePort
        BY <2>8, <3>1
      <4>3. BurstTmrVal # 0 /\ BurstTmrVal' = BurstTmrVal - 1 /\ AckTmrVal' = BurstTmrVal' + 1
        BY <2>2, <2>4, <2>5, <2>10, <3>1, <4>2
      <4> QED BY <1>0, <2>1, <2>6, <4>1, <4>3
    <3>2. CASE ~BusAccept(CachePort)
      <4> SUFFICES ASSUME slv'.who = CachePort
                   PROVE  slv'.adr = LineStart(CoreAdrReg) + FillCntVal'
        BY <2>1
      <4>1. slv.who = CachePort /\ ~CacheM.ack /\ slv' = slv
        BY <2>8, <3>2, SlaveStep
      <4>2. FillCntVal' = FillCntVal
        BY <1>2, <2>1, <4>1 DEF FillCounter, BUS_ACK
      <4> QED BY <2>2, <4>1, <4>2
    <3> QED BY <3>1, <3>2
  <2>13. \A w \in 0 .. FillCntVal' - 1 :
             CacheRam'[LineIndex(CoreAdrReg') * LineWords + w] = LineStart(CoreAdrReg') + w
    <3> SUFFICES ASSUME NEW w \in 0 .. FillCntVal' - 1
                 PROVE  CacheRam'[LineIndex(CoreAdrReg) * LineWords + w] = LineStart(CoreAdrReg) + w
      BY <2>1
    <3>1. w \in 0 .. LineWords - 1 /\ LineIndex(CoreAdrReg) \in Lines
      <4>1. CoreAdrReg \in Nat
        BY <1>0 DEF TypeOK, CacheTypeOK
      <4>2. ASSUME NEW n \in Nat, NEW k \in 1 .. n, NEW v \in 0 .. (n - k) - 1
            PROVE  v \in 0 .. n - 1
        OBVIOUS
      <4>3. w \in 0 .. LineWords - 1
        BY <2>6, <4>2
      <4> QED BY <4>1, <4>3, AddressFields
    <3>2. FillCntVal' = IF CacheM.ack THEN FillCntVal + 1 ELSE FillCntVal
      BY <1>2, <1>6, <2>1, StepWords DEF FillCounter, BUS_ACK
    <3>3. CASE w \in 0 .. FillCntVal - 1
      <4>1. CacheRam[LineIndex(CoreAdrReg) * LineWords + w] = LineStart(CoreAdrReg) + w
        BY <1>0, <2>1, <3>3 DEF Burst
      <4>2. w # FillCntVal
        BY <1>0, <3>3
      <4>3. CacheRam'[LineIndex(CoreAdrReg) * LineWords + w]
            = CacheRam[LineIndex(CoreAdrReg) * LineWords + w]
        BY <3>1, <4>2, OtherLines
      <4> QED BY <4>1, <4>3
    <3>4. CASE w \notin 0 .. FillCntVal - 1
      <4>1. CacheM.ack /\ w = FillCntVal
        BY <1>0, <3>2, <3>4
      <4>2. LineIndex(CoreAdrReg) * LineWords + w \in DOMAIN CacheRam
        BY <1>0, <3>1, IndexRange DEF TypeOK, CacheTypeOK
      <4>3. CacheRam' = [CacheRam EXCEPT ![LineIndex(CoreAdrReg) * LineWords + w] =
                                             LineStart(CoreAdrReg) + w]
        BY <1>6, <4>1, StepWords
      <4> QED BY <4>2, <4>3
    <3> QED BY <3>3, <3>4
  <2> QED BY <2>1, <2>6, <2>7, <2>10, <2>11, <2>12, <2>13 DEF Burst, InBurst
<1> QED BY <1>3, <1>4, <1>5, <1>6 DEF InBurst

\* A line is marked valid with its last word, and changes under its tag only while
\* it is filled.
LEMMA StepLines ==
    ASSUME IInv, Clock, TypeOK', FetchInFlight', Lookup'
    PROVE  LinesRight'
<1> USE BooleanFacts, ConstantFacts
<1>0. /\ TypeOK /\ Burst /\ LinesRight /\ CoreAdrReg \in Nat
      /\ TagRam \in [Lines -> TagEntry]
      /\ CacheRam \in [0 .. NumLines * LineWords - 1 -> 0 .. Top]
  <2>1. TypeOK /\ Burst /\ LinesRight
    BY DEF IInv
  <2>2. /\ CoreAdrReg \in Nat /\ TagRam \in [Lines -> TagEntry]
        /\ CacheRam \in [0 .. NumLines * LineWords - 1 -> 0 .. Top]
    BY <2>1 DEF TypeOK, CacheTypeOK
  <2> QED BY <2>1, <2>2
<1>1. TagRamEdge(Port, CacheM) /\ ~TagRamFlushEn(Port)
  BY Wires DEF Clock, ICacheEdge
<1> DEFINE Right(i, tag) ==
        \A w \in 0 .. LineWords - 1 :
            CacheRam'[i * LineWords + w] = (tag * NumLines + i) * LineWords + w
<1> SUFFICES ASSUME NEW i \in Lines, TagRam'[i].valid, ~Filling(i)'
             PROVE  Right(i, TagRam'[i].tag)
  BY DEF LinesRight
<1>2. ASSUME TagRam'[i] = TagRam[i], ~Filling(i),
             ~(BusReadReq(Port) /\ CacheM.ack) \/ i # LineIndex(CoreAdrReg)
      PROVE  Right(i, TagRam'[i].tag)
  <2> TAKE w \in 0 .. LineWords - 1
  <2>1. CacheRam[i * LineWords + w] = (TagRam[i].tag * NumLines + i) * LineWords + w
    BY <1>0, <1>2 DEF LinesRight
  <2>2. CacheRam'[i * LineWords + w] = CacheRam[i * LineWords + w]
    BY <1>2, OtherLines
  <2> QED BY <1>2, <2>1, <2>2
<1>3. CASE ~BusReadReq(Port)
  BY <1>2, <1>3, RequestStep DEF Filling
<1>4. CASE BusReadReq(Port) /\ ~TagRamStoreEn(Port, CacheM)
  <2>1. TagRam' = TagRam
    BY <1>1, <1>4 DEF TagRamEdge
  <2>2. i # LineIndex(CoreAdrReg)
    <3>1. BusReadReq(Port)' /\ CoreAdrReg' = CoreAdrReg
      BY <1>4, RequestStep
    <3> QED BY <3>1 DEF Filling
  <2> QED BY <1>2, <2>1, <2>2 DEF Filling
<1>5. CASE BusReadReq(Port) /\ TagRamStoreEn(Port, CacheM)
  <2> DEFINE at == LineIndex(CoreAdrReg)
  <2>1. TagRam' = [TagRam EXCEPT ![at] = [valid |-> TRUE, tag |-> Tag(CoreAdrReg)]]
    BY <1>1, <1>5 DEF TagRamEdge, TagRamAddr, TagRamWriteData
  <2>2. CASE i # at
    BY <1>0, <1>2, <2>1, <2>2 DEF Filling
  <2>3. CASE i = at
    <3>1. CacheM.ack
      BY <1>5 DEF TagRamStoreEn, BUS_ACK
    <3>2. InBurst
      BY <1>0, <3>1, FillWires DEF Burst
    <3>3. AckTmrVal = 1 /\ FillCntVal = LineWords - 1
      BY <1>0, <1>5, <3>2, MasterStep DEF Burst
    <3>4. TagRam'[i].tag = Tag(CoreAdrReg)
      BY <1>0, <2>1, <2>3
    <3>5. LineStart(CoreAdrReg) = (Tag(CoreAdrReg) * NumLines + i) * LineWords
      BY <1>0, <2>3, AddressFields
    <3> SUFFICES ASSUME NEW w \in 0 .. LineWords - 1
                 PROVE  CacheRam'[i * LineWords + w] = LineStart(CoreAdrReg) + w
      BY <3>4, <3>5
    <3>6. CASE w = FillCntVal
      <4>1. i * LineWords + w \in DOMAIN CacheRam
        BY <1>0, IndexRange
      <4>2. CacheRam' = [CacheRam EXCEPT ![i * LineWords + w] = LineStart(CoreAdrReg) + w]
        BY <2>3, <3>1, <3>2, <3>6, StepWords
      <4> QED BY <4>1, <4>2
    <3>7. CASE w # FillCntVal
      <4>1. w \in 0 .. FillCntVal - 1
        BY <3>3, <3>7
      <4>2. CacheRam[i * LineWords + w] = LineStart(CoreAdrReg) + w
        BY <1>0, <1>5, <2>3, <4>1 DEF Burst
      <4>3. CacheRam'[i * LineWords + w] = CacheRam[i * LineWords + w]
        BY <3>7, OtherLines
      <4> QED BY <4>2, <4>3
    <3> QED BY <3>6, <3>7
  <2> QED BY <2>2, <2>3
<1> QED BY <1>3, <1>4, <1>5

----------------------------------------------------------------------------
\* What one edge does to the bus.

\* The memory takes an access, lets one go that it answers, or goes on.
LEMMA SlaveCases ==
    ASSUME IInv, Clock
    PROVE  \/ \E i \in 0 .. 3 :
                 /\ BusAccept(i) /\ WbArbGntReg = i /\ ~m.stall
                 /\ slv' = [who |-> i, adr |-> BusAdr[i]]
           \/ m.ack /\ slv'.who = Arb!NoGnt /\ \A i \in 0 .. 3 : ~BusAccept(i)
           \/ ~m.ack /\ slv' = slv /\ \A i \in 0 .. 3 : ~BusAccept(i)
<1>1. slv' = IF \E i \in 0 .. 3 : BusAccept(i)
             THEN [who |-> WbArbGntReg, adr |-> BusAdr[WbArbGntReg]]
             ELSE IF m.ack THEN [who |-> Arb!NoGnt, adr |-> 0] ELSE slv
  BY DEF Clock, SlaveAccess
<1>2. \A i \in 0 .. 3 : BusAccept(i) => WbArbGntReg = i /\ ~m.stall
  BY DEF BusAccept
<1> QED BY <1>1, <1>2

\* The grant stays with the access the memory works on.
LEMMA StepGrant ==
    ASSUME IInv, Clock, slv'.who # Arb!NoGnt
    PROVE  WbArbGntReg' = slv'.who
<1> USE BusFacts
<1>0. TypeOK /\ Arb!ArbEdge
  BY DEF IInv, Clock
<1>1. ASSUME NEW i \in 0 .. 3, BusAccept(i), slv' = [who |-> i, adr |-> BusAdr[i]]
      PROVE  WbArbGntReg' = slv'.who
  <2>1. WbArbGntReg = i /\ BusCyc[i]
    BY <1>1 DEF BusAccept
  <2> QED BY <1>0, <1>1, <2>1, Granted DEF TypeOK
<1>2. CASE slv' = slv
  <2>1. WbArbGntReg = slv.who /\ slv.who \in 0 .. 3 /\ BusCyc[slv.who]
    BY <1>2, HolderAsks
  <2> QED BY <1>0, <1>2, <2>1, Granted DEF TypeOK
<1> QED BY <1>1, <1>2, SlaveCases

\* The data side stays with its access until it is answered.
LEMMA StepData ==
    ASSUME IInv, Clock
    PROVE  /\ slv'.who = DataPort   => data' = "arb"  /\ ~stb'
           /\ slv'.who = BufferPort => data' = "load" /\ ~stb'
<1> USE BusFacts, BooleanFacts
<1>0. TypeOK /\ OnBus
  BY DEF IInv
<1>1. ASSUME NEW p \in {DataPort, BufferPort}, NEW d \in {"arb", "load"},
             p = DataPort <=> d = "arb",
             BusAccept(p) \/ (slv.who = p /\ ~stb), data = d, WbArbGntReg = p, ~m.ack
      PROVE  data' = d /\ ~stb'
  <2>1. ~CoreDataAck /\ Stall
    BY <1>1 DEF CoreDataAck, Stall, IlockExMem
  <2>2. BusAccept(DataPort) \/ BusAccept(BufferPort) \/ ~stb
    BY <1>1
  <2>3. data # "fast" /\ data # "mul" /\ data # "ram" /\ data # "none"
    BY <1>1
  <2> QED BY <1>1, <2>1, <2>2, <2>3 DEF Clock, Pipeline
<1>2. ASSUME NEW p \in {DataPort, BufferPort}, BusAccept(p)
      PROVE  /\ WbArbGntReg = p /\ ~m.ack
             /\ p = DataPort => data = "arb"
             /\ p = BufferPort => data = "load"
  <2>1. WbArbGntReg = p /\ BusCyc[p] /\ stb
    BY <1>2 DEF BusAccept
  <2>2. ~m.ack
    BY <1>0, <2>1 DEF OnBus
  <2> QED BY <2>1, <2>2
<1>3. ASSUME NEW p \in {DataPort, BufferPort}, slv'.who = p
      PROVE  /\ BusAccept(p) \/ (slv.who = p /\ ~stb)
             /\ WbArbGntReg = p /\ ~m.ack
             /\ p = DataPort => data = "arb"
             /\ p = BufferPort => data = "load"
  <2>1. CASE BusAccept(p)
    BY <1>2, <2>1
  <2>2. CASE ~BusAccept(p)
    <3>1. slv.who = p /\ ~m.ack
      BY <1>3, <2>2, SlaveCases
    <3> QED BY <1>0, <3>1 DEF OnBus
  <2> QED BY <2>1, <2>2
<1>4. slv'.who = DataPort => data' = "arb" /\ ~stb'
  BY <1>1, <1>3
<1>5. slv'.who = BufferPort => data' = "load" /\ ~stb'
  BY <1>1, <1>3
<1> QED BY <1>4, <1>5

\* An uncached fetch is what the memory works on, from when it is accepted until
\* it is answered.
LEMMA StepInst ==
    ASSUME IInv, Clock
    PROVE  /\ slv'.who = InstPort <=> CoreInstAdrArbSelReg'
           /\ slv'.who = InstPort => slv'.adr = PcValId'
<1> USE BusFacts, BooleanFacts
<1>0. TypeOK /\ FetchInFlight /\ OnBus
  BY DEF IInv
<1>1. BusAccept(InstPort) =>
          slv'.who = InstPort /\ slv'.adr = PcValIf
  <2>1. InstPort \in 0 .. 3
    OBVIOUS
  <2>2. BusAccept(InstPort) => WbArbGntReg = InstPort
    BY DEF BusAccept
  <2> QED BY <2>1, <2>2, SlaveCases
<1>2. ~BusAccept(InstPort) /\ slv'.who = InstPort => slv.who = InstPort /\ ~m.ack /\ slv' = slv
  BY SlaveCases
<1>3. slv.who = InstPort <=> CoreInstAdrArbSelReg
  BY <1>0 DEF OnBus
<1>4. CASE Moved
  <2>1. CoreInstAdrArbSelReg => m.ack
    BY <1>4, Wires DEF Moved, Stall, CoreInstStall
  <2> QED BY <1>1, <1>2, <1>3, <1>4, <2>1 DEF Moved
<1>5. CASE Captured
  <2>1. CoreInstAdrArbSelReg => m.ack
    BY <1>0, <1>5, Wires DEF Captured, FetchInFlight
  <2> QED BY <1>2, <1>3, <1>5, <2>1 DEF Captured, Held
<1>6. CASE Waited
  <2>1. CoreInstAdrArbSelReg => ~m.ack
    BY <1>6, Wires DEF Waited
  <2>2. CoreInstAdrArbSelReg => slv' = slv
    <3>1. CoreInstAdrArbSelReg => m.stall
      BY <1>0, <1>3, <2>1 DEF OnBus
    <3> QED BY <2>1, <3>1, SlaveCases
  <2>3. slv'.who = InstPort <=> CoreInstAdrArbSelReg
    BY <1>2, <1>3, <1>6, <2>2 DEF Waited, Held
  <2>4. slv.who = InstPort => slv.adr = PcValId
    BY <1>0 DEF OnBus
  <2> QED BY <1>3, <1>6, <2>2, <2>3, <2>4 DEF Waited, Held
<1> QED BY <1>4, <1>5, <1>6, FetchStep

\* The arbiter does not give the bus to the port of the core during a fill: the
\* cache asks as soon as it misses, and the port of the core does not ask then.
LEMMA StepFill ==
    ASSUME IInv, Clock, TypeOK', FetchInFlight', Lookup', BusReadReq(Port)'
    PROVE  WbArbGntReg' # InstPort
<1> USE BusFacts, BooleanFacts
<1>0. TypeOK /\ FetchInFlight /\ OnBus /\ Arb!ArbEdge
  BY DEF IInv, Clock
<1>1. WbArbGntReg' = InstPort =>
          ArbInstCyc /\ (WbArbGntReg = InstPort \/ ~CACHE_CYC(Port))
  BY <1>0, Granted DEF TypeOK
<1>2. CASE BusReadReq(Port)
  <2>1. CACHE_CYC(Port)
    BY <1>2, FillWires, ConstantFacts DEF CACHE_CYC, WB_CYC
  <2> QED BY <1>0, <1>1, <1>2, <2>1 DEF OnBus
<1>3. CASE ~BusReadReq(Port)
  <2>1. Cached(PcValIf)
    BY <1>3, RequestStep, Wires
  <2>2. ~CoreInstAdrArbSel /\ ~CoreInstAdrArbSelReg
    BY <1>0, <2>1 DEF CoreInstAdrArbSel, FetchInFlight
  <2> QED BY <1>1, <2>2 DEF ArbInstCyc
<1> QED BY <1>2, <1>3

LEMMA StepBus ==
    ASSUME IInv, Clock, TypeOK', FetchInFlight', Lookup'
    PROVE  OnBus'
<1>1. /\ m'.ack => slv'.who # Arb!NoGnt
      /\ m'.dat = IF m'.ack THEN slv'.adr ELSE Nop
      /\ slv'.who # Arb!NoGnt /\ ~m'.ack => m'.stall
  BY DEF Clock, SlaveAnswer
<1> QED BY <1>1, StepGrant, StepData, StepInst, StepFill, BusFacts DEF OnBus

----------------------------------------------------------------------------
\* The invariant.

LEMMA InitInvariant == Init => IInv
<1> SUFFICES ASSUME Init PROVE IInv
  OBVIOUS
<1> USE ConstantFacts, BusFacts
<1>1. TypeOK
  BY InitType
<1>2. FetchInFlight
  BY DEF Init, FetchInFlight
<1>3. Lookup
  <2>1. TagRamFlushEnReg = FALSE /\ CoreAdrReg = 0 /\ CoreReadAddrStbReg = FALSE
    BY DEF Init, CacheInit
  <2>2. CoreInstAdrCacheSelReg = FALSE /\ Cached(0)
    BY DEF Init, Cached
  <2> QED BY <2>1, <2>2 DEF Lookup
<1>4. ~BusReadReq(Port)
  BY DEF Init, CacheInit, BusReadReq
<1>5. slv.who = Arb!NoGnt /\ ~m.ack /\ m.dat = Nop /\ CoreInstAdrArbSelReg = FALSE
  BY DEF Init
<1>6. Burst
  BY <1>4, <1>5 DEF Init, CacheInit, WbMasterInit, Burst, InBurst
<1>7. OnBus
  BY <1>4, <1>5 DEF OnBus
<1>8. LinesRight
  BY DEF Init, CacheInit, LinesRight
<1> QED BY <1>1, <1>2, <1>3, <1>6, <1>7, <1>8 DEF IInv

LEMMA StepInvariant ==
    ASSUME "toCached" \notin Crossings
    PROVE  IInv /\ [Clock]_vars => IInv'
<1> SUFFICES ASSUME IInv, [Clock]_vars PROVE IInv'
  OBVIOUS
<1>1. CASE UNCHANGED vars
  <2>1. /\ UNCHANGED << coreRegs, data, stb, CoreInstAdrCacheSelReg, CoreInstAdrArbSelReg >>
        /\ UNCHANGED << WbArbGntReg, slv, m >>
        /\ UNCHANGED cacheRegs
    BY <1>1 DEF vars
  <2>2. UNCHANGED << CoreAdrReg, CoreReadAddrStbReg, TagRamFlushEnReg, FillCntVal,
                     TagRam, TagRamReadData, CacheRam, CacheRamReadAddr >>
        /\ UNCHANGED masterRegs
    BY <2>1 DEF cacheRegs
  <2>3. IInv' <=> IInv
    BY <2>1, <2>2 DEF IInv, TypeOK, CacheTypeOK, WbMasterTypeOK, FetchInFlight, Lookup, Burst,
       OnBus, LinesRight, coreRegs, masterRegs, ValidTagHit, InBurst, BusReadReq, Port, Filling,
       CoreInstAdrCacheSel, CoreInstStb, CoreInstAck, ReadAck, ArbInstAck, IlockExMem,
       CoreDataAck, TagEntry
  <2> QED BY <2>3
<1>2. CASE Clock
  <2>1. TypeOK'
    BY <1>2, StepType DEF IInv
  <2>2. FetchInFlight' /\ Lookup'
    BY <1>2, StepFetch, StepLookup
  <2>3. Burst' /\ OnBus' /\ LinesRight'
    BY <1>2, <2>1, <2>2, StepBurst, StepBus, StepLines
  <2> QED BY <2>1, <2>2, <2>3 DEF IInv
<1> QED BY <1>1, <1>2

\* The invariant: what is in flight, what the cache looks up, how far a fill is and
\* what the bus works on agree at every edge, as long as no jump leads from kseg1
\* back to a cached address.
THEOREM InvariantCorrect ==
    ASSUME "toCached" \notin Crossings
    PROVE  Spec => []IInv
<1>1. Init => IInv
  BY InitInvariant
<1>2. IInv /\ [Clock]_vars => IInv'
  BY StepInvariant
<1> QED BY <1>1, <1>2, PTL DEF Spec

\* When the pipeline moves, the instruction that leaves decode is that of the
\* address decoded: its word is answered in that cycle, or came in a stall.
LEMMA InstrFollows == IInv => InstrRight
<1> SUFFICES ASSUME IInv, ~Stall PROVE InstrId = PcValId
  BY DEF InstrRight
<1>0. TypeOK /\ FetchInFlight
  BY DEF IInv
<1>1. CoreInstCycReg /\ ~CoreInstStall
  BY DEF Stall
<1>2. CASE CoreInstAdrCacheSelReg \/ CoreInstAdrArbSelReg
  <2>1. CoreInstAck
    BY <1>1, <1>2 DEF CoreInstStall, CoreInstAck
  <2>2. ~CoreInstRdWhileStallId
    BY <1>0, <1>2 DEF FetchInFlight
  <2> QED BY <2>1, <2>2, AnswerRight DEF InstrId
<1>3. CASE ~CoreInstAdrCacheSelReg /\ ~CoreInstAdrArbSelReg
  <2>1. CoreInstRdWhileStallId => CoreInstRdDataWhileStallId = PcValId
    BY <1>0 DEF FetchInFlight
  <2>2. ~CoreInstRdWhileStallId => PcValId = Nop
    BY <1>0, <1>3 DEF FetchInFlight
  <2>3. CoreInstDatRd = Nop
    BY <1>3 DEF CoreInstDatRd
  <2> QED BY <2>1, <2>2, <2>3 DEF InstrId
<1> QED BY <1>2, <1>3

\* No fetch is lost, doubled or answered with the word of another, whatever the
\* stalls of the data side, the misses and the latency of the memory.
THEOREM InstrCorrect ==
    ASSUME "toCached" \notin Crossings
    PROVE  Spec => []InstrRight
BY InvariantCorrect, InstrFollows, PTL

\* A line marked valid and not being filled holds its own words.
THEOREM LinesCorrect ==
    ASSUME "toCached" \notin Crossings
    PROVE  Spec => []LinesRight
<1>1. IInv => LinesRight
  BY DEF IInv
<1> QED BY <1>1, InvariantCorrect, PTL

\* An answer of the memory reaches the port that made the access: the arbiter does
\* not move the grant before.
THEOREM RoutedCorrect ==
    ASSUME "toCached" \notin Crossings
    PROVE  Spec => []AnswersRouted
<1>1. IInv => AnswersRouted
  BY DEF IInv, OnBus, AnswersRouted
<1> QED BY <1>1, InvariantCorrect, PTL

\* The bus takes an uncached fetch exactly when the core is told so.
THEOREM FetchCorrect ==
    ASSUME "toCached" \notin Crossings
    PROVE  Spec => []FetchAgrees
BY InvariantCorrect, Agreement, PTL

\* The cache asks for the bus only while it fills a line.
THEOREM FillsCorrect ==
    ASSUME "toCached" \notin Crossings
    PROVE  Spec => []CacheOnlyFills
<1>1. IInv => CacheOnlyFills
  <2> SUFFICES ASSUME IInv, BusCyc[CachePort] PROVE BusReadReq(Port)
    BY DEF CacheOnlyFills
  <2>1. WbCyc \/ BusReadReq(Port)
    BY BusFacts, FillWires DEF CACHE_CYC, WB_CYC
  <2> QED BY <2>1 DEF IInv, Burst, InBurst
<1> QED BY <1>1, InvariantCorrect, PTL
=============================================================================
