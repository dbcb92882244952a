------------------------------- MODULE ICache -------------------------------
(***************************************************************************)
(* CPU_ICACHE (mips1_top/rtl/cpu_icache.v): a direct-mapped, read-only     *)
(* instruction cache, with the WB_MASTER that fills its lines.  A write    *)
(* invalidates a line.                                                     *)
(*                                                                         *)
(* The port of the core is the argument c, [cyc, stb, we, adr] with a word *)
(* address, and that of the memory the argument m, with its read data.     *)
(* Both RAMs read synchronously: TagRamReadData is what the tag RAM read   *)
(* at the last edge, CacheRamReadAddr the address the data RAM was given.  *)
(***************************************************************************)
EXTENDS WbMaster

CONSTANTS
    Top,         \* the number of word addresses
    NumLines,    \* lines of the cache, 256 in the code
    LineWords    \* words in a line, 4 in the code

ASSUME CacheAssumption ==
    /\ Top \in Nat \ {0} /\ NumLines \in Nat \ {0} /\ LineWords \in Nat \ {0}
    /\ LineWords <= MaxLen
    /\ COMB_CYC  \* the parameter CPU_ICACHE gives its WB_MASTER

VARIABLES
    CoreAdrReg, CoreReadAddrStbReg, TagRamFlushEnReg,
    FillCntVal,
    TagRam, TagRamReadData,
    CacheRam, CacheRamReadAddr

cacheRegs == << CoreAdrReg, CoreReadAddrStbReg, TagRamFlushEnReg, FillCntVal,
                TagRam, TagRamReadData, CacheRam, CacheRamReadAddr, masterRegs >>

----------------------------------------------------------------------------
\* The fields of an address.
Lines == 0 .. NumLines - 1
Tag(a)       == a \div (NumLines * LineWords)
LineIndex(a) == (a \div LineWords) % NumLines
WdIndex(a)   == a % LineWords
LineStart(a) == a - WdIndex(a)

Tags == {Tag(a) : a \in 0 .. Top - 1}
TagEntry == [valid : BOOLEAN, tag : Tags]

----------------------------------------------------------------------------
ValidTagHit == TagRamReadData.valid /\ TagRamReadData.tag = Tag(CoreAdrReg)

CORE_STALL == TagRamFlushEnReg \/ (CoreReadAddrStbReg /\ ~ValidTagHit)

CoreReadAddrStb(c) == c.cyc /\ c.stb /\ ~c.we /\ ~CORE_STALL
CoreAddrStb(c) == CoreReadAddrStb(c) \/ (c.cyc /\ c.stb /\ c.we)

TagRamFlushEn(c) == c.cyc /\ c.stb /\ c.we /\ ~CORE_STALL

\* The answer to a port that does not write, and to any port.
ReadAck     == TagRamFlushEnReg \/ ValidTagHit
CORE_ACK(c) == ~TagRamFlushEn(c) /\ ReadAck
CORE_DAT_RD == CacheRam[CacheRamReadAddr]

\* The request to the WB_MASTER: the line of the address registered.
BusReadReq(c) == c.cyc /\ CoreReadAddrStbReg /\ ~ValidTagHit
Bus(c) ==
    [op  |-> IF BusReadReq(c) THEN "read" ELSE "none",
     adr |-> LineStart(CoreAdrReg), len |-> LineWords, inc |-> TRUE]

CACHE_CYC(c) == WB_CYC(Bus(c))

TagRamStoreEn_First(c, m) ==  \* mutant: the line is valid from its first word on
    BusReadReq(c) /\ m.ack
TagRamStoreEn(c, m) == BusReadReq(c) /\ BUS_ACK(Bus(c), m) /\ BUS_LAST_ACK(Bus(c), m)
TagRamAddr(c) == IF BusReadReq(c) THEN LineIndex(CoreAdrReg) ELSE LineIndex(c.adr)
TagRamWriteData(c) == [valid |-> ~TagRamFlushEn(c), tag |-> Tag(CoreAdrReg)]

----------------------------------------------------------------------------
CacheInit ==
    /\ CoreAdrReg = 0
    /\ CoreReadAddrStbReg = FALSE
    /\ TagRamFlushEnReg = FALSE
    /\ FillCntVal = 0
    /\ TagRam = [i \in Lines |-> [valid |-> FALSE, tag |-> 0]]
    /\ TagRamReadData = [valid |-> FALSE, tag |-> 0]
    /\ CacheRam = [i \in 0 .. NumLines * LineWords - 1 |-> 0]
    /\ CacheRamReadAddr = 0
    /\ WbMasterInit

CoreRegs(c, m) ==
    /\ CoreAdrReg' = IF CoreAddrStb(c) THEN c.adr ELSE CoreAdrReg
    /\ CoreReadAddrStbReg' =
           \/ CoreReadAddrStb(c)
           \/ CoreReadAddrStbReg /\ ~(TagRamStoreEn(c, m) \/ ValidTagHit)
    /\ TagRamFlushEnReg' = TagRamFlushEn(c)

\* The tag RAM is written first: what is written is also what is read.
TagRamEdge(c, m) ==
    IF TagRamStoreEn(c, m) \/ TagRamFlushEn(c)
    THEN /\ TagRam' = [TagRam EXCEPT ![TagRamAddr(c)] = TagRamWriteData(c)]
         /\ TagRamReadData' = TagRamWriteData(c)
    ELSE /\ UNCHANGED TagRam
         /\ TagRamReadData' = TagRam[TagRamAddr(c)]

FillCounter_Wide(c, m) ==  \* mutant: the counter is wider than the index it forms
    FillCntVal' = IF CoreReadAddrStb(c) THEN 0
                  ELSE IF BusReadReq(c) /\ BUS_ACK(Bus(c), m) THEN FillCntVal + 1
                  ELSE FillCntVal
FillCounter(c, m) ==
    FillCntVal' = IF CoreReadAddrStb(c) THEN 0
                  ELSE IF BusReadReq(c) /\ BUS_ACK(Bus(c), m)
                  THEN (FillCntVal + 1) % LineWords
                  ELSE FillCntVal

CacheRamEdge(c, m) ==
    /\ CacheRam' =
           IF BusReadReq(c) /\ BUS_ACK(Bus(c), m)
           THEN [CacheRam EXCEPT ![LineIndex(CoreAdrReg) * LineWords + FillCntVal] = m.dat]
           ELSE CacheRam
    /\ CacheRamReadAddr' =
           LET a == IF BusReadReq(c) THEN CoreAdrReg ELSE c.adr
           IN  LineIndex(a) * LineWords + WdIndex(a)

ICacheEdge(c, m) ==
    /\ CoreRegs(c, m)
    /\ TagRamEdge(c, m)
    /\ FillCounter(c, m)
    /\ CacheRamEdge(c, m)
    /\ WbMasterEdge(Bus(c), m, Top)

CacheTypeOK ==
    /\ CoreAdrReg \in 0 .. Top - 1
    /\ CoreReadAddrStbReg \in BOOLEAN /\ TagRamFlushEnReg \in BOOLEAN
    /\ FillCntVal \in 0 .. LineWords - 1
    /\ TagRam \in [Lines -> TagEntry] /\ TagRamReadData \in TagEntry
    /\ CacheRam \in [0 .. NumLines * LineWords - 1 -> 0 .. Top]
    /\ CacheRamReadAddr \in 0 .. NumLines * LineWords - 1
    /\ WbMasterTypeOK(Top)
=============================================================================
