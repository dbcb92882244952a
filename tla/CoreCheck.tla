----------------------------- MODULE CoreCheck -----------------------------
(***************************************************************************)
(* The CPU, the two C models and the monitors that compare them            *)
(* (psx_top/tb/mips1_core_monitor.v, mips1_core/tb/cpu_core_monitor.v), in *)
(* lock step on one program.  The program is any: each fetch returns any   *)
(* instruction of Program.  The simulator's own loop runs beside them.     *)
(*                                                                         *)
(* The monitor of PSX_TOP calls its model when an instruction has been     *)
(* fetched and its data access has been answered, and compares the fetch   *)
(* and the access at once; the writes of the registers come when they      *)
(* come, and their checkers compare a pair when both sides have one.       *)
(* That of MIPS1_CORE calls its model at the fetch, and compares that; the *)
(* accesses and the writes come any time later, and whatever finds nothing *)
(* predicted is reported.  It stops calling the model at the first BREAK.  *)
(* Its bench does not stall the first access (wb_slave_bfm.v:68), so that  *)
(* no write of register 0 is left of the reset (cpu_core.v:1526).          *)
(***************************************************************************)
EXTENDS MliteModel

CONSTANTS
    Program,    \* the instructions the CPU may fetch
    Images,     \* what the CPU's memory may hold at first
    MaxSteps,   \* bound: instructions executed
    MaxLag      \* bound: entries the checkers of a monitor are behind

Words == {a \in Word : a % 4 = 0}

ASSUME ProgramAssumption == Program \subseteq Instr /\ Images \subseteq [Words -> Word]

VARIABLES
    d,        \* the CPU
    s,        \* the model of PSX_TOP
    refQ,     \* what it pushed and its monitor has not popped
    dutQ,     \* what the CPU did and that monitor has not popped
    m, mliteQ, mdutQ,   \* the same for the model of MIPS1_CORE
    tracing,  \* cModelTraceEnable: its monitor still calls the model
    c,        \* the simulator's own loop
    image,    \* the memory of the CPU at first: the program and its data
    alarms,   \* the checkers that reported a mismatch
    causes,   \* history: what the program did that a model does not follow
    steps

vars == << d, s, refQ, dutQ, m, mliteQ, mdutQ, tracing, c, image, alarms, causes, steps >>

Streams == {"inst", "data", "reg", "lo", "hi"}
Empty   == [k \in Streams |-> << >>]
Join(q, p) == [k \in Streams |-> q[k] \o p[k]]

----------------------------------------------------------------------------
\* What the ports and the register file of the CPU show of an instruction.
CpuEvents(ins) ==
    [ inst |-> << d.pc >>,
      data |-> IF CpuTraps(d, ins) THEN << >> ELSE CpuData(d, ins),
      reg  |-> IF CpuTraps(d, ins) THEN << >> ELSE CpuWrites(d, ins),
      lo   |-> CASE Multiplies(ins) -> << CpuProduct(d, ins) % W >>
                 [] ins.op = "MTLO" -> << d.r[ins.rs] >>
                 [] OTHER -> << >>,
      hi   |-> IF Multiplies(ins) THEN << CpuProduct(d, ins) \div W >> ELSE << >> ]

\* RdData: the lanes of a load moved down, not sign extended.  The case of
\* the upper half word is 4'h1100, which no select matches.
RdData(ins) ==
    LET a == CpuAddress(d, ins)
        n == Size(ins.op)
    IN IF ins.op \notin LoadOps \/ CpuTraps(d, ins) THEN 0
       ELSE IF n = Half /\ a % 4 = 2 THEN 0
       ELSE Field(d.mem[Align(a)], a, n)

\* Whether two entries of a stream are the same: the monitor of PSX_TOP does
\* not compare the data of a read.
Same(name, k, x, y) ==
    x = y \/ (name = "psx" /\ k = "data" /\ x.rdWrB /\ y.rdWrB /\ [x EXCEPT !.value = y.value] = y)

\* Pop the head of a stream of both queues and compare.  An empty queue gives
\* a value that equals nothing.
Compared(ref, dut, k, name) ==
    [ ref   |-> IF ref[k] = << >> THEN ref ELSE [ref EXCEPT ![k] = Tail(@)],
      dut   |-> [dut EXCEPT ![k] = Tail(@)],
      match |-> ref[k] # << >> /\ Same(name, k, ref[k][1], dut[k][1]) ]

\* That of MIPS1_CORE does: the word of memory a read returns.
Valued(seen, ins) ==
    IF ins.op \notin LoadOps \/ CpuTraps(d, ins) THEN seen
    ELSE [seen EXCEPT !.data[1].value = d.mem[Align(CpuAddress(d, ins))]]

\* The check of the fetch, behind a call.
Fetched(ref, dut, name) ==
    LET b == Compared(ref, dut, "inst", name)
    IN [ ref |-> b.ref, dut |-> b.dut,
         alarms |-> (IF b.match THEN {} ELSE {<< name, "inst" >>})
                      \cup (IF ref["inst"] = << >> THEN {<< name, "empty" >>} ELSE {}) ]

\* Both checks of PSX_TOP: the data access if there was one, and the fetch.
Monitored(ref, dut) ==
    LET a == IF dut["data"] = << >> THEN [ref |-> ref, dut |-> dut, match |-> TRUE]
             ELSE Compared(ref, dut, "data", "psx")
        b == Fetched(a.ref, a.dut, "psx")
    IN [b EXCEPT !.alarms = @ \cup (IF a.match THEN {} ELSE {<< "psx", "data" >>})]

\* The queue of MIPS1_CORE's fetches at a BREAK: what is popped of an empty
\* one is 0.
Stopped(ref, dut) ==
    LET b == Compared(ref, dut, "inst", "mlite")
        ok == IF ref["inst"] = << >> THEN dut["inst"][1] = 0 ELSE b.match
    IN [ref |-> b.ref, dut |-> b.dut, alarms |-> IF ok THEN {} ELSE {<< "mlite", "inst" >>}]

----------------------------------------------------------------------------
(***************************************************************************)
(* What a program may do that a model does not follow, at instruction ins. *)
(***************************************************************************)
Unsupported == {"SYNC", "BLTZL", "BLTZALL", "LWL", "LWR", "SWL", "SWR", "LL", "SC"}

IsAccess(ins) == ins.op \in LoadOps \cup StoreOps

CauseOf(ins) == [
    exception   |-> CpuTraps(d, ins),
    unsupported |-> \/ ins.op \in Unsupported
                    \/ ins.op = "JALR" /\ ins.rd = ins.rs
                    \/ ins.op = "BLTZAL" /\ ins.rs = Link,
    cop0   |-> ins.op \in Cop0Ops,
    slot   |-> d.slot /\ CpuTaken(d, ins),
    region |-> Absolute(ins) /\ Regional(d.pc, 0) # Regional(Plus(d.pc, 4), 0),
    far    |-> Absolute(ins) /\ SignedTarget(d.pc, ins.imm) # Regional(d.pc, ins.imm),
    link   |-> ins.op \in {"JAL", "JALR", "BLTZAL"},
    zero   |-> IsAccess(ins) /\ ins.rs = 0 /\ s.r[0] # 0,
    mliteZero |-> IsAccess(ins) /\ ins.rs = 0 /\ m.cpu.r[0] # 0,
    sign   |-> ins.op \in {"LB", "LH"} /\ Neg(CpuLoaded(d, ins)),
    half   |-> ins.op \in LoadOps /\ Size(ins.op) = Half /\ CpuAddress(d, ins) % 4 = 2,
    lane   |-> IsAccess(ins) /\ Size(ins.op) # W,
    alias  |-> IsAccess(ins) /\ CpuAddress(d, ins) >= MemSize,
    image  |-> ins.op \in LoadOps /\ image[Align(CpuAddress(d, ins))] # 0 ]

Holding(facts) == {k \in DOMAIN facts : facts[k]}
CausesOf(ins)  == Holding(CauseOf(ins))

----------------------------------------------------------------------------
Init ==
    /\ image \in Images
    /\ d = [pc |-> ResetVector, npc |-> Plus(ResetVector, 4), slot |-> FALSE, r |-> [i \in GPR |-> 0],
            lo |-> 0, hi |-> 0, mem |-> image, cop0 |-> KernelMode]
    /\ s = cpuInit(ResetVector)
    /\ refQ = [Empty EXCEPT !.inst = << ResetVector >>, !.reg = << << 0, 0 >> >>]
    /\ dutQ = [Empty EXCEPT !.reg = << << 0, 0 >> >>]
    /\ m = mliteInit
    /\ mliteQ = [Empty EXCEPT !.inst = << 0 >>]
    /\ mdutQ = Empty /\ tracing = TRUE
    /\ c = do_debug(mliteInit)
    /\ alarms = {} /\ causes = {} /\ steps = 0

\* What the two monitors leave in their queues, and report.
Popped(psx, mips) ==
    /\ refQ' = psx.ref /\ dutQ' = psx.dut
    /\ mliteQ' = mips.ref /\ mdutQ' = mips.dut
    /\ alarms' = alarms \cup psx.alarms \cup mips.alarms

\* What instruction ins, of which the CPU shows seen, is to the model and the
\* monitor of PSX_TOP,
PsxTold(ins, seen) ==
    LET call == cpuCycle(s, d.pc, ins, RdData(ins))
    IN [model |-> call.state, monitor |-> Monitored(Join(refQ, call.push), Join(dutQ, seen))]

\* and to those of MIPS1_CORE.
MliteTold(ins, seen) ==
    LET call == mliteCycle(m, d.pc, ins)
        dut  == Join(mdutQ, seen)
    IN CASE ~tracing -> [model |-> m, monitor |-> [ref |-> mliteQ, dut |-> [dut EXCEPT !.inst = << >>], alarms |-> {}]]
         [] tracing /\ ins.op = "BREAK" -> [model |-> m, monitor |-> Stopped(mliteQ, dut)]
         [] OTHER -> [model |-> call.state, monitor |-> Fetched(Join(mliteQ, call.push), dut, "mlite")]

Behind == \/ Len(dutQ.reg) > MaxLag
          \/ Len(mdutQ.data) + Len(mdutQ.reg) + Len(mdutQ.lo) + Len(mdutQ.hi) > MaxLag

\* The CPU executes an instruction.
Execute(ins) ==
    LET psx   == PsxTold(ins, CpuEvents(ins))
        mlite == MliteTold(ins, Valued(CpuEvents(ins), ins))
    IN /\ steps < MaxSteps /\ ~Behind /\ ~m.aborted /\ ~c.aborted
       /\ d' = CpuNext(d, ins)
       /\ s' = psx.model /\ m' = mlite.model
       /\ Popped(psx.monitor, mlite.monitor)
       /\ tracing' = (tracing /\ ins.op # "BREAK")
       /\ c' = Debug(c, ins)
       /\ causes' = causes \cup CausesOf(ins)
       /\ steps' = steps + 1
       /\ UNCHANGED image

\* PSX_TOP, a clock edge: every checker of a register stream that has both
\* sides of a write pops and compares them.
Registered(ref, dut) ==
    LET ready == {k \in {"reg", "lo", "hi"} : ref[k] # << >> /\ dut[k] # << >>} IN
    [ ref |-> [k \in Streams |-> IF k \in ready THEN Tail(ref[k]) ELSE ref[k]],
      dut |-> [k \in Streams |-> IF k \in ready THEN Tail(dut[k]) ELSE dut[k]],
      alarms |-> {<< "psx", k >> : k \in {j \in ready : ref[j][1] # dut[j][1]}} ]

CheckRegisters ==
    LET psx == Registered(refQ, dutQ) IN
    /\ psx.ref # refQ
    /\ Popped(psx, [ref |-> mliteQ, dut |-> mdutQ, alarms |-> {}])
    /\ UNCHANGED << d, s, m, tracing, c, image, causes, steps >>

\* MIPS1_CORE: an access is made or a register written, and compared with the
\* next one predicted.  With none predicted it must be a write of zero to
\* register 0, or to LO or HI a zero, which is what the empty queue gives.
Unexpected(k, x) ==
    CASE k = "data" -> TRUE
      [] k = "reg"  -> x # << 0, 0 >>
      [] OTHER      -> x # 0

Observed(ref, dut, k) ==
    LET b == Compared(ref, dut, k, "mlite")
        ok == IF ref[k] = << >> THEN ~Unexpected(k, dut[k][1]) ELSE b.match
    IN [ref |-> b.ref, dut |-> b.dut, alarms |-> IF ok THEN {} ELSE {<< "mlite", k >>}]

CheckMlite(k) ==
    /\ mdutQ[k] # << >>
    /\ Popped([ref |-> refQ, dut |-> dutQ, alarms |-> {}], Observed(mliteQ, mdutQ, k))
    /\ UNCHANGED << d, s, m, tracing, c, image, causes, steps >>

Next ==
    \/ CheckRegisters
    \/ \E k \in {"data", "reg", "lo", "hi"} : CheckMlite(k)
    \/ \E ins \in Program : Execute(ins)

Spec == Init /\ [][Next]_vars

=============================================================================
