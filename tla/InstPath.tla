------------------------------ MODULE InstPath ------------------------------
(***************************************************************************)
(* The path of an instruction fetch: the instruction port of CPU_CORE, the *)
(* routing of MIPS1_TOP to the cache or past it, CPU_ICACHE, the arbiter   *)
(* they share with the data port and the write buffer, and a memory with   *)
(* one access outstanding.                                                 *)
(*                                                                         *)
(* The memory holds at each address that address, so that a fetched word   *)
(* tells where it came from.  Of the pipeline there is the address it      *)
(* fetches, the one it decodes, and what stalls it from the data side.     *)
(* One step is one rising edge of CLK.  Bus errors, exceptions and the     *)
(* isolated cache are left out.                                            *)
(***************************************************************************)
EXTENDS ICache

CONSTANTS
    CachedTop,  \* addresses below it are cached, those above are in kseg1
    Crossings,  \* the ways a jump may go: "toCached", "toUncached"
    DataOps,    \* what the data side may do: "fast", "mul", "arb", "ram"
    Waits       \* the memory may take more than a cycle to answer

ASSUME InstPathAssumption ==
    /\ CachedTop \in 1 .. Top - 1
    /\ CachedTop % LineWords = 0  \* no line lies across the border of kseg1
    /\ Crossings \subseteq {"toCached", "toUncached"}
    /\ DataOps \subseteq {"fast", "mul", "arb", "ram"}
    /\ Waits \in BOOLEAN

VARIABLES
    CoreInstCycReg,
    CoreInstRdWhileStallId, CoreInstRdDataWhileStallId,
    PcValId, PcValIf,
    data,  \* what the data side does: "none", a DataOps, or "load" (a "ram" past the buffer)
    stb,   \* the strobe of the data side on the bus
    CoreInstAdrCacheSelReg, CoreInstAdrArbSelReg,
    WbArbGntReg,
    slv,   \* the access the memory works on
    m      \* what the memory answers

coreRegs == << CoreInstCycReg, CoreInstRdWhileStallId, CoreInstRdDataWhileStallId, PcValId, PcValIf >>
vars == << coreRegs, data, stb, CoreInstAdrCacheSelReg, CoreInstAdrArbSelReg,
           WbArbGntReg, slv, m, cacheRegs >>

\* No instruction: all zero, which is what a port reads when nothing is selected.
Nop == Top

Cached(a) == a < CachedTop

----------------------------------------------------------------------------
\* The masters of the arbiter and what they drive.

DataPort == 0
CachePort == 1
InstPort == 2
BufferPort == 3

ArbInstAck == WbArbGntReg = InstPort /\ m.ack

\* The answer to the core.  That of the cache is the one to a read.
CoreInstAck == \/ CoreInstAdrArbSelReg /\ ArbInstAck
               \/ CoreInstAdrCacheSelReg /\ ReadAck

CoreDataAck == \/ data = "arb"  /\ WbArbGntReg = DataPort   /\ m.ack
               \/ data = "load" /\ WbArbGntReg = BufferPort /\ m.ack

\* IlockEx | IlockMem: everything that stalls the pipeline but the fetch.
IlockExMem == data # "none" /\ ~CoreDataAck

CoreInstStb_Late ==  \* mutant: the strobe stays up when the answer finds a stall
    CoreInstCycReg
CoreInstStb == CoreInstCycReg /\ ~(CoreInstAck /\ IlockExMem)
CoreInstAdrArbSel   == CoreInstStb /\ ~Cached(PcValIf)
CoreInstAdrCacheSel == CoreInstStb /\ Cached(PcValIf)

ArbInstCyc == (CoreInstAdrArbSel \/ CoreInstAdrArbSelReg) /\ CoreInstCycReg

\* The port of the cache.
Port ==
    [cyc |-> (CoreInstAdrCacheSel \/ CoreInstAdrCacheSelReg) /\ CoreInstCycReg,
     stb |-> CoreInstAdrCacheSel,
     we  |-> FALSE,
     adr |-> IF CoreInstAdrCacheSel THEN PcValIf ELSE 0]

BusCyc == [i \in 0 .. 3 |->
    CASE i = DataPort   -> data = "arb"
      [] i = CachePort  -> CACHE_CYC(Port)
      [] i = InstPort   -> ArbInstCyc
      [] i = BufferPort -> data = "load"]

BusStb == [i \in 0 .. 3 |->
    CASE i = CachePort -> WbStb
      [] i = InstPort  -> CoreInstAdrArbSel
      [] OTHER         -> stb]

BusAdr == [i \in 0 .. 3 |->
    CASE i = CachePort -> AddrCntVal
      [] i = InstPort  -> PcValIf
      [] OTHER         -> 0]

Arb == INSTANCE WbArb WITH N <- 4, cyc <- BusCyc

BusAccept(i) == WbArbGntReg = i /\ BusCyc[i] /\ BusStb[i] /\ ~m.stall

\* What the cache and the port of the data side see of the memory.
CacheM == [ack |-> Arb!Ack(CachePort, m.ack), stall |-> Arb!Stall(CachePort, m.stall),
           dat |-> m.dat]

----------------------------------------------------------------------------
\* The routing back to the core.

CoreInstStall ==
    \/ CoreInstAdrArbSel /\ Arb!Stall(InstPort, m.stall)
    \/ CoreInstAdrCacheSel /\ CORE_STALL
    \/ CoreInstAdrArbSelReg /\ ~ArbInstAck
    \/ CoreInstAdrCacheSelReg /\ ~ReadAck

CoreInstDatRd ==
    IF CoreInstAdrArbSelReg THEN (IF WbArbGntReg = InstPort THEN m.dat ELSE Nop)
    ELSE IF CoreInstAdrCacheSelReg THEN CORE_DAT_RD ELSE Nop

SelRegs ==
    /\ CoreInstAdrCacheSelReg' =
           \/ CoreInstAdrCacheSel /\ ~CoreInstStall
           \/ CoreInstAdrCacheSelReg /\ ~(CoreInstCycReg /\ CoreInstAck)
    /\ CoreInstAdrArbSelReg' =
           \/ CoreInstAdrArbSel /\ ~CoreInstStall
           \/ CoreInstAdrArbSelReg /\ ~(CoreInstCycReg /\ ArbInstAck)

----------------------------------------------------------------------------
\* The core.

Stall == ~CoreInstCycReg \/ CoreInstStall \/ IlockExMem

\* The instruction that leaves decode when the pipeline moves.
InstrId == IF CoreInstRdWhileStallId THEN CoreInstRdDataWhileStallId ELSE CoreInstDatRd

FixupCycle == ~CoreInstCycReg /\ ~CoreInstStall /\ ~IlockExMem

CycReg_Stall ==  \* mutant: CYC is dropped by a stall, answered or not
    CoreInstCycReg' = (FixupCycle \/ (CoreInstCycReg /\ ~Stall))
CycReg ==
    CoreInstCycReg' = (FixupCycle \/ (CoreInstCycReg /\ ~(Stall /\ CoreInstAck)))

CoreInstRdWhileStall == CoreInstCycReg /\ Stall /\ CoreInstAck

WhileStallRegs_Drop ==  \* mutant: the word that comes in a stall is not kept
    CoreInstRdWhileStallId' = FALSE /\ CoreInstRdDataWhileStallId' = Nop
WhileStallRegs ==
    /\ CoreInstRdWhileStallId' = (Stall /\ (CoreInstRdWhileStall \/ CoreInstRdWhileStallId))
    /\ CoreInstRdDataWhileStallId' =
           IF ~Stall THEN Nop
           ELSE IF CoreInstRdWhileStall THEN CoreInstDatRd ELSE CoreInstRdDataWhileStallId

\* The next address to fetch is any of the same segment.  It is one of the
\* other segment only after a jump, which has its delay slot in decode: the
\* two addresses before it are of one segment, and what is in EX is the jump,
\* not a wait for the multiplier.
Direction(a, b) == IF Cached(b) THEN "toCached" ELSE "toUncached"
Follows(a, b, op) ==
    \/ Cached(a) = Cached(b)
    \/ /\ Direction(a, b) \in Crossings
       /\ PcValId # Nop /\ Cached(PcValId) = Cached(a)
       /\ op # "mul"

Pipeline ==
    IF Stall
    THEN /\ UNCHANGED << PcValId, PcValIf >>
         /\ IF CoreDataAck \/ data = "fast" THEN data' = "none"
            ELSE IF data = "mul" THEN data' \in {"mul", "none"}
            ELSE data' = IF data = "ram" THEN "load" ELSE data
         /\ stb' = (data = "ram" \/ (stb /\ ~BusAccept(DataPort) /\ ~BusAccept(BufferPort)))
    ELSE /\ PcValId' = PcValIf
         /\ PcValIf' \in 0 .. Top - 1
         /\ data' \in DataOps \cup {"none"}
         /\ Follows(PcValIf, PcValIf', data')
         /\ stb' = (data' = "arb")

----------------------------------------------------------------------------
\* The memory.

SlaveAccess ==
    slv' = IF \E i \in 0 .. 3 : BusAccept(i)
           THEN [who |-> WbArbGntReg, adr |-> BusAdr[WbArbGntReg]]
           ELSE IF m.ack THEN [who |-> Arb!NoGnt, adr |-> 0] ELSE slv

SlaveAnswer ==
    /\ m' \in [ack : BOOLEAN, stall : BOOLEAN, dat : 0 .. Top]
    /\ m'.ack => slv'.who # Arb!NoGnt
    /\ m'.dat = IF m'.ack THEN slv'.adr ELSE Nop
    /\ slv'.who # Arb!NoGnt /\ ~m'.ack => m'.stall /\ Waits

----------------------------------------------------------------------------
Init ==
    /\ CacheInit
    /\ CoreInstCycReg = FALSE
    /\ CoreInstRdWhileStallId = FALSE /\ CoreInstRdDataWhileStallId = Nop
    /\ PcValId = Nop
    /\ PcValIf \in 0 .. Top - 1
    /\ data = "none" /\ stb = FALSE
    /\ CoreInstAdrCacheSelReg = FALSE /\ CoreInstAdrArbSelReg = FALSE
    /\ Arb!ArbInit
    /\ slv = [who |-> Arb!NoGnt, adr |-> 0]
    /\ m = [ack |-> FALSE, stall |-> FALSE, dat |-> Nop]

Clock ==
    /\ ICacheEdge(Port, CacheM)
    /\ SelRegs
    /\ CycReg
    /\ WhileStallRegs
    /\ Pipeline
    /\ Arb!ArbEdge
    /\ SlaveAccess
    /\ SlaveAnswer

\* The memory answers what it works on, and the multiplier is done.
Responsive ==
    /\ m'.ack = (slv'.who # Arb!NoGnt)
    /\ ~m'.stall
    /\ ~(data = "mul" /\ data' = "mul" /\ Stall)

Spec     == Init /\ [][Clock]_vars
FairSpec == Spec /\ WF_vars(Clock /\ Responsive)
=============================================================================
