-------------------------- MODULE CoreCheckProofs --------------------------
(***************************************************************************)
(* Proofs about the models and their monitors, for every program, every    *)
(* initial memory and every width of a byte.  CpuType is what the CPU      *)
(* keeps, QueueInv that a monitor never pops an empty queue of fetches,    *)
(* although a model predicts two for a taken branch and none for its slot; *)
(* PsxInv, MliteInv and LoopInv that the two models and the simulator's    *)
(* own loop follow the CPU, one instruction at a time, as CoreModelProofs  *)
(* shows of their switch, and that no checker reports what they follow.    *)
(***************************************************************************)
EXTENDS CoreModelProofs

SFields == {"r", "pc", "pc_next", "epc", "hi", "lo", "status", "skip", "dlySlot"}

\* An instruction that neither excepts nor is an untaken likely branch.
Quiet(e) == DOMAIN e = EFields /\ ~e.exc /\ e.lbranch = 2

\* A model x, between two calls, with one address in its queue, or with two
\* when the next instruction is in a delay slot.
Synced(x, q) ==
    /\ DOMAIN x = SFields /\ ~x.skip /\ x.dlySlot \in BOOLEAN
    /\ DOMAIN q = Streams
    /\ \E S : q["inst"] \in Seq(S)
    /\ Len(q["inst"]) = IF x.dlySlot THEN 2 ELSE 1

\* The inductive invariant.
QueueInv ==
    Untouched(Unpredicted) =>
        /\ Synced(s, refQ)
        /\ DOMAIN m = {"cpu", "mem", "aborted"} /\ Synced(m.cpu, mliteQ)
        /\ tracing = TRUE /\ \A k \in alarms : k[2] # "empty"

----------------------------------------------------------------------------
\* The switch of either model keeps quiet on what it knows.

LEMMA QuietPushes ==
    ASSUME NEW e, Quiet(e), NEW i, NEW v
    PROVE  /\ Quiet(Put(e, i, v)) /\ Quiet(Push(e, i, v)) /\ Quiet(PutLo(e, v))
           /\ Quiet(PutHi(e, v)) /\ Quiet(PutLink(e, i)) /\ Quiet(PushData(e, v))
<1>1. Quiet(Put(e, i, v))
  BY DEF Quiet, Put, EFields
<1>2. Quiet(Push(e, i, v))
  BY DEF Quiet, Push, EFields
<1>3. Quiet(PutLo(e, v)) /\ Quiet(PutHi(e, v))
  BY DEF Quiet, PutLo, PutHi, EFields
<1>4. \A x : Quiet(Put(e, i, x))
  BY DEF Quiet, Put, EFields
<1>5. Quiet(PutLink(e, i))
  BY <1>4 DEF PutLink
<1>6. Quiet(PushData(e, v))
  BY DEF Quiet, PushData, EFields
<1> QED BY <1>1, <1>2, <1>3, <1>5, <1>6

LEMMA QuietChanges ==
    ASSUME NEW e, Quiet(e)
    PROVE  /\ \A v : Quiet([e EXCEPT !.next = v, !.jump = TRUE])
           /\ \A v : Quiet([e EXCEPT !.branch = v]) /\ Quiet([e EXCEPT !.status = v])
           /\ \A v : Quiet([e EXCEPT !.next = v])
           /\ \A i, v : Quiet([e EXCEPT !.r[i] = v])
<1>1. \A v : Quiet([e EXCEPT !.next = v, !.jump = TRUE])
  BY DEF Quiet, EFields
<1>2. \A v : Quiet([e EXCEPT !.branch = v]) /\ Quiet([e EXCEPT !.status = v])
  BY DEF Quiet, EFields
<1>3. \A i, v : Quiet([e EXCEPT !.r[i] = v])
  BY DEF Quiet, EFields
<1>4. \A v : Quiet([e EXCEPT !.next = v])
  BY DEF Quiet, EFields
<1> QED BY <1>1, <1>2, <1>3, <1>4

LEMMA QuietFresh == \A x, pc : Quiet(Fresh(x, pc))
BY DEF Quiet, Fresh, EFields

Known == {"SYS", "BREAK", "BEQL", "BLTZL", "BLTZALL"}

LEMMA QuietSpecial ==
    ASSUME NEW e, Quiet(e), NEW ins, ins.op \notin {"SYS", "BREAK"}
    PROVE  Quiet(Special(e, ins))
<1> USE QuietPushes
<1>1. CASE ins.op \in AluOps
  BY <1>1 DEF Special, AluOps, Breaks
<1>2. CASE ins.op = "JR"
  <2>1. Special(e, ins) = [Push(e, 0, 0) EXCEPT !.next = e.r[ins.rs], !.jump = TRUE]
    BY <1>2 DEF Special, AluOps, Breaks, Multiplies
  <2>2. Quiet(Push(e, 0, 0))
    OBVIOUS
  <2>3. \A v : Quiet([Push(e, 0, 0) EXCEPT !.next = v, !.jump = TRUE])
    BY <2>2, QuietChanges
  <2> QED BY <2>1, <2>3
<1>3. CASE ins.op = "JALR"
  <2> DEFINE l == PutLink(e, ins.rd)
  <2>1. Special(e, ins) = [l EXCEPT !.next = l.r[ins.rs], !.jump = TRUE]
    BY <1>3 DEF Special, AluOps, Breaks, Multiplies
  <2>2. Quiet(l)
    OBVIOUS
  <2> HIDE DEF l
  <2>3. \A v : Quiet([l EXCEPT !.next = v, !.jump = TRUE])
    BY <2>2, QuietChanges
  <2> QED BY <2>1, <2>3
<1>4. CASE ins.op = "MOV"
  <2>1. \/ Special(e, ins) = e
        \/ Special(e, ins) = [e EXCEPT !.r[ins.rd] = e.r[ins.rs]]
    BY <1>4 DEF Special, AluOps, Breaks, Multiplies
  <2>2. \A i, v : Quiet([e EXCEPT !.r[i] = v])
    BY QuietChanges
  <2> QED BY <2>1, <2>2
<1>5. CASE ins.op = "MFLO"
  BY <1>5 DEF Special, AluOps, Breaks
<1>6. CASE ins.op = "MTLO"
  BY <1>6 DEF Special, AluOps, Breaks
<1>7. CASE ins.op \in {"MULT", "MULTU"}
  <2> DEFINE p == IF ins.op = "MULT" THEN mult_big_signed(e.r[ins.rs], e.r[ins.rt])
                                     ELSE mult_big(e.r[ins.rs], e.r[ins.rt])
  <2>1. Special(e, ins) = PutHi(PutLo(Push(e, 0, 0), p.lo), p.hi)
    BY <1>7 DEF Special, AluOps, Breaks, Multiplies
  <2>2. Quiet(PutLo(Push(e, 0, 0), p.lo))
    OBVIOUS
  <2> HIDE DEF p
  <2> QED BY <2>1, <2>2
<1>8. CASE ins.op \notin AluOps \cup {"JR", "JALR", "MOV", "MFLO", "MTLO", "MULT", "MULTU"}
  BY <1>8 DEF Special, AluOps, Breaks, Multiplies
<1> QED BY <1>1, <1>2, <1>3, <1>4, <1>5, <1>6, <1>7, <1>8

LEMMA QuietRegImm ==
    ASSUME NEW e, Quiet(e), NEW ins, ins.op \in {"BLTZ", "BLTZAL"}
    PROVE  Quiet(RegImm(e, ins))
<1>1. Quiet(PutLink(e, Link))
  BY QuietPushes
<1> QED BY <1>1 DEF RegImm, Quiet, EFields

LEMMA QuietBranches ==
    ASSUME NEW e, Quiet(e), NEW ins, NEW pc, ins.op # "BEQL"
    PROVE  Quiet(Branches(e, ins, pc))
<1>1. Quiet(PutLink(e, Link))
  BY QuietPushes
<1> QED BY <1>1 DEF Branches, Quiet, EFields

LEMMA QuietCop0 ==
    ASSUME NEW e, Quiet(e), NEW ins
    PROVE  Quiet(Cop0(e, ins)) /\ \A epc : Quiet(MliteCop0(e, ins, epc))
<1>1. \A v : Quiet(Put(e, ins.rt, v)) /\ Quiet(Push(e, ins.rt, v))
  BY QuietPushes
<1>2. \A v : Quiet([e EXCEPT !.status = v])
  BY QuietChanges
<1> QED BY <1>1, <1>2 DEF Cop0, MliteCop0

LEMMA QuietMemory ==
    ASSUME NEW e, Quiet(e), NEW ins, NEW ptr, NEW mem, NEW rd_data
    PROVE  /\ Quiet(Loads(e, ins, ptr, rd_data)) /\ Quiet(Stores(e, ins, ptr))
           /\ Quiet(MliteLoads(e, ins, ptr, mem)) /\ Quiet(MliteStores(e, ins, ptr))
<1>1. \A a, v : Quiet(Put(e, ins.rt, v)) /\ Quiet(PushData(e, a))
  BY QuietPushes
<1>2. \A a, v : Quiet(Put(PushData(e, a), ins.rt, v))
  BY <1>1, QuietPushes
<1>3. \A a : Quiet([PushData(e, a) EXCEPT !.r[ins.rt] = 1])
  BY <1>1 DEF Quiet, EFields
<1>4. Quiet(Loads(e, ins, ptr, rd_data))
  BY <1>1, <1>2 DEF Loads
<1>5. Quiet(MliteLoads(e, ins, ptr, mem))
  BY <1>2 DEF MliteLoads
<1> QED BY <1>1, <1>3, <1>4, <1>5 DEF Stores, MliteStores

LEMMA QuietSwitch ==
    ASSUME NEW e, Quiet(e), NEW ins, ins.op \notin Known, NEW pc, NEW ptr, NEW rd_data
    PROVE  Quiet(Switch(e, ins, pc, ptr, rd_data))
<1>1. CASE ins.op \in SpecialOps
  <2>1. Switch(e, ins, pc, ptr, rd_data) = Special(e, ins)
    BY <1>1 DEF Switch, SpecialOps, AluOps, RegImmOps, BranchOps, ImmOps, Cop0Ops, LoadOps, StoreOps
  <2> QED BY <2>1, QuietSpecial DEF Known
<1>2. CASE ins.op \in RegImmOps
  <2>1. ins.op \in {"BLTZ", "BLTZAL"} /\ ins.op \notin SpecialOps
    BY <1>2 DEF RegImmOps, Known, SpecialOps, AluOps
  <2>2. Switch(e, ins, pc, ptr, rd_data) = RegImm(e, ins)
    BY <1>2, <2>1 DEF Switch, SpecialOps, AluOps, RegImmOps, BranchOps, ImmOps, Cop0Ops, LoadOps, StoreOps
  <2> QED BY <2>1, <2>2, QuietRegImm
<1>3. CASE ins.op \in BranchOps
  <2>1. ins.op \notin SpecialOps /\ ins.op \notin RegImmOps /\ ins.op # "BEQL"
    BY <1>3 DEF BranchOps, Known, SpecialOps, AluOps, RegImmOps
  <2>2. Switch(e, ins, pc, ptr, rd_data) = Branches(e, ins, pc)
    BY <1>3, <2>1 DEF Switch, SpecialOps, AluOps, RegImmOps, BranchOps, ImmOps, Cop0Ops, LoadOps, StoreOps
  <2> QED BY <2>1, <2>2, QuietBranches
<1>4. CASE ins.op \notin SpecialOps \cup RegImmOps \cup BranchOps
  <2>1. Quiet(Immediate(e, ins))
    BY QuietPushes DEF Immediate
  <2> QED BY <1>4, <2>1, QuietCop0, QuietMemory DEF Switch
<1> QED BY <1>1, <1>2, <1>3, <1>4

LEMMA QuietMliteSwitch ==
    ASSUME NEW e, Quiet(e), NEW ins, ins.op \notin Known, NEW pc, NEW x
    PROVE  Quiet(SimSwitch(e, ins, pc, x)) /\ Quiet(MliteSwitch(e, ins, pc, x))
<1> DEFINE f == SimSwitch(e, ins, pc, x)
<1>1. Quiet(f)
  BY QuietCop0, QuietMemory, QuietSwitch DEF SimSwitch
<1>2. MliteSwitch(e, ins, pc, x) = IF Absolute(ins) THEN [f EXCEPT !.next = SignedTarget(pc, ins.imm)] ELSE f
  BY DEF MliteSwitch
<1> HIDE DEF f
<1>3. \A v : Quiet([f EXCEPT !.next = v])
  BY <1>1, QuietChanges
<1> QED BY <1>1, <1>2, <1>3 DEF f

----------------------------------------------------------------------------
\* One call of a model and the check of the fetch that follows it.

\* A model that executes an instruction is in a delay slot next when it has
\* just predicted two addresses.
LEMMA RetiredState ==
    ASSUME NEW x, DOMAIN x = SFields, NEW e, Quiet(e), NEW ins, NEW pc
    PROVE  /\ DOMAIN Retired(x, e, ins, pc) = SFields
           /\ ~Retired(x, e, ins, pc).skip
           /\ Retired(x, e, ins, pc).dlySlot = (~x.dlySlot /\ (Taken(e) \/ e.jump))
<1> DEFINE g == Registers(x, e, pc, NextPc(e, ins))
<1>1. DOMAIN g = SFields /\ g.skip = (e.lbranch = 0)
  BY DEF Registers, SFields
<1>2. ~g.skip
  <2>1. (e.lbranch = 0) = FALSE
    BY DEF Quiet
  <2>2. g.skip = FALSE
    BY <1>1, <2>1, Zenon
  <2> QED BY <2>2
<1> HIDE DEF g
<1>3. Retired(x, e, ins, pc) = [g EXCEPT !.dlySlot = ~x.dlySlot /\ (Taken(e) \/ e.jump)]
  BY DEF Retired, g
<1> QED BY <1>1, <1>2, <1>3 DEF SFields

LEMMA QueueStep ==
    ASSUME NEW x, NEW q, Synced(x, q), NEW e, Quiet(e), NEW ins, NEW pc,
           NEW p, p["inst"] = Predicted(x, e, ins, pc)
    PROVE  /\ DOMAIN Join(q, p) = Streams /\ Join(q, p)["inst"] # << >>
           /\ \A w : DOMAIN w = Streams /\ w["inst"] = Tail(Join(q, p)["inst"])
                     => Synced(Retired(x, e, ins, pc), w)
<1> DEFINE two == Taken(e) \/ e.jump
           y   == Retired(x, e, ins, pc)
<1>1. DOMAIN Join(q, p) = Streams /\ Join(q, p)["inst"] = q["inst"] \o Predicted(x, e, ins, pc)
  BY DEF Join, Streams
<1>2. DOMAIN y = SFields /\ ~y.skip /\ y.dlySlot = (~x.dlySlot /\ two)
  BY RetiredState DEF Synced
<1>3. PICK S : q["inst"] \in Seq(S)
  BY DEF Synced
<1> DEFINE T == S \cup {Plus(pc, 4), NextPc(e, ins)}
           l == Predicted(x, e, ins, pc)
           j == q["inst"] \o l
<1>4. q["inst"] \in Seq(T)
  BY <1>3, SeqMonotonic
<1>5. /\ l \in Seq(T)
      /\ Len(l) = IF x.dlySlot THEN 0 ELSE IF two THEN 2 ELSE 1
  <2>1. CASE x.dlySlot
    BY <2>1 DEF Predicted
  <2>2. CASE ~x.dlySlot /\ two
    <3>1. l = << Plus(pc, 4), NextPc(e, ins) >>
      BY <2>2 DEF Predicted
    <3> QED BY <2>2, <3>1
  <2>3. CASE ~x.dlySlot /\ ~two
    <3>1. l = << NextPc(e, ins) >>
      BY <2>3 DEF Predicted
    <3> QED BY <2>3, <3>1
  <2> QED BY <2>1, <2>2, <2>3
<1>6. j \in Seq(T) /\ Len(j) = Len(q["inst"]) + Len(l)
  BY <1>4, <1>5, ConcatProperties
<1>7. Len(j) = IF x.dlySlot THEN 2 ELSE IF two THEN 3 ELSE 2
  <2> HIDE DEF l, T, two, j
  <2> QED BY <1>5, <1>6 DEF Synced
<1>8. j # << >> /\ Tail(j) \in Seq(T) /\ Len(Tail(j)) = Len(j) - 1
  <2> HIDE DEF j, T, two, l
  <2>1. j # << >>
    BY <1>6, <1>7
  <2> QED BY <1>6, <2>1, HeadTailProperties
<1>9. y.dlySlot \in BOOLEAN /\ Len(Tail(j)) = IF y.dlySlot THEN 2 ELSE 1
  <2> HIDE DEF j, T, l, y
  <2>1. CASE ~x.dlySlot /\ two
    <3>1. y.dlySlot = TRUE
      BY <1>2, <2>1, Zenon
    <3>2. Len(j) = 3
      BY <1>7, <2>1, Zenon
    <3>3. Len(Tail(j)) = 2
      BY <1>8, <3>2
    <3> QED BY <3>1, <3>3
  <2>2. CASE ~(~x.dlySlot /\ two)
    <3>1. y.dlySlot = FALSE
      BY <1>2, <2>2, Zenon
    <3>2. Len(j) = 2
      BY <1>7, <2>2, Zenon
    <3>3. Len(Tail(j)) = 1
      BY <1>8, <3>2
    <3> QED BY <3>1, <3>3
  <2> QED BY <2>1, <2>2
<1> HIDE DEF j, T, l, y, two
<1>10. SUFFICES ASSUME NEW w, DOMAIN w = Streams, w["inst"] = Tail(Join(q, p)["inst"])
                PROVE  Synced(y, w)
  BY <1>1, <1>8 DEF j, l, y
<1>11. w["inst"] = Tail(j)
  BY <1>1, <1>10 DEF j, l
<1> QED BY <1>2, <1>8, <1>9, <1>10, <1>11 DEF Synced

\* The fetch is popped from both queues, and the rest of them left.
LEMMA FetchPopped ==
    ASSUME NEW ref, DOMAIN ref = Streams, ref["inst"] # << >>, NEW dut, DOMAIN dut = Streams, NEW name
    PROVE  LET v == Fetched(ref, dut, name)
           IN /\ DOMAIN v.ref = Streams /\ v.ref["inst"] = Tail(ref["inst"])
              /\ \A k \in Streams \ {"inst"} : v.ref[k] = ref[k]
              /\ DOMAIN v.dut = Streams /\ v.dut["inst"] = Tail(dut["inst"])
              /\ \A k \in Streams \ {"inst"} : v.dut[k] = dut[k]
              /\ v.alarms \subseteq {<< name, "inst" >>}
              /\ ref["inst"][1] = dut["inst"][1] => v.alarms = {}
<1> DEFINE b == Compared(ref, dut, "inst", name)
           v == Fetched(ref, dut, name)
<1>1. /\ v.ref = b.ref /\ v.dut = b.dut
      /\ v.alarms = (IF b.match THEN {} ELSE {<< name, "inst" >>})
                       \cup (IF ref["inst"] = << >> THEN {<< name, "empty" >>} ELSE {})
  BY DEF Fetched
<1>2. /\ b.ref = [ref EXCEPT !["inst"] = Tail(ref["inst"])]
      /\ b.dut = [dut EXCEPT !["inst"] = Tail(dut["inst"])]
      /\ b.match = (ref["inst"] # << >> /\ Same(name, "inst", ref["inst"][1], dut["inst"][1]))
  BY DEF Compared
<1> HIDE DEF b, v
<1>3. ref["inst"][1] = dut["inst"][1] => b.match
  <2>1. \A w : Same(name, "inst", w, w)
    BY DEF Same
  <2>2. ref["inst"][1] = dut["inst"][1] => Same(name, "inst", ref["inst"][1], dut["inst"][1])
    BY <2>1
  <2> QED BY <1>2, <2>2, Zenon
<1>4. v.alarms = IF b.match THEN {} ELSE {<< name, "inst" >>}
  BY <1>1
<1> QED BY <1>1, <1>2, <1>3, <1>4 DEF Streams, v

\* The check of PSX_TOP pops the access before, if there was one.
Accessed(ref, dut) ==
    IF dut["data"] = << >> THEN [ref |-> ref, dut |-> dut, match |-> TRUE]
    ELSE Compared(ref, dut, "data", "psx")

LEMMA MonitoredParts ==
    ASSUME NEW ref, NEW dut
    PROVE  LET g == Accessed(ref, dut)
               h == Fetched(g.ref, g.dut, "psx")
               v == Monitored(ref, dut)
           IN /\ v.ref = h.ref /\ v.dut = h.dut
              /\ v.alarms = h.alarms \cup (IF g.match THEN {} ELSE {<< "psx", "data" >>})
<1> DEFINE g == Accessed(ref, dut)
           h == Fetched(g.ref, g.dut, "psx")
<1>1. Monitored(ref, dut) = [h EXCEPT !.alarms = h.alarms \cup (IF g.match THEN {} ELSE {<< "psx", "data" >>})]
  BY DEF Monitored, Accessed
<1>2. DOMAIN h = {"ref", "dut", "alarms"}
  BY DEF Fetched
<1> HIDE DEF g, h
<1> QED BY <1>1, <1>2 DEF g, h

LEMMA AccessPopped ==
    ASSUME NEW ref, DOMAIN ref = Streams, NEW dut, DOMAIN dut = Streams
    PROVE  LET g == Accessed(ref, dut)
           IN /\ DOMAIN g.ref = Streams /\ \A k \in Streams \ {"data"} : g.ref[k] = ref[k]
              /\ DOMAIN g.dut = Streams /\ \A k \in Streams \ {"data"} : g.dut[k] = dut[k]
<1>1. CASE dut["data"] = << >>
  BY <1>1 DEF Accessed
<1>2. CASE dut["data"] # << >>
  <2> DEFINE g == Accessed(ref, dut)
  <2>1. /\ g.ref = IF ref["data"] = << >> THEN ref ELSE [ref EXCEPT !["data"] = Tail(ref["data"])]
        /\ g.dut = [dut EXCEPT !["data"] = Tail(dut["data"])]
    BY <1>2 DEF Accessed, Compared
  <2> HIDE DEF g
  <2> QED BY <2>1 DEF g
<1> QED BY <1>1, <1>2

----------------------------------------------------------------------------
\* The two calls of a step.

\* An instruction that is no excuse is one both models know.
LEMMA Unexcused ==
    ASSUME NEW ins, CausesOf(ins) \cap Unpredicted = {}
    PROVE  ins.op \notin Known
<1>1. ~CauseOf(ins).exception /\ ~CauseOf(ins).unsupported
  BY DEF CausesOf, Holding, CauseOf, Unpredicted
<1>2. ins.op \notin {"SYS", "BREAK", "BEQL"}
  BY <1>1 DEF CauseOf, CpuTraps, Breaks
<1>3. ins.op \notin {"BLTZL", "BLTZALL"}
  BY <1>1 DEF CauseOf, Unsupported
<1> QED BY <1>2, <1>3 DEF Known

\* The parts of a step: what the two monitors are left with.
PsxMonitored(ins) ==
    Monitored(Join(refQ, cpuCycle(s, d.pc, ins, RdData(ins)).push), Join(dutQ, CpuEvents(ins)))
MliteMonitored(ins) == MliteTold(ins, Valued(CpuEvents(ins), ins)).monitor

LEMMA ExecuteParts ==
    ASSUME NEW ins \in Program, Execute(ins)
    PROVE  /\ ins \in Instr /\ d' = CpuNext(d, ins) /\ image' = image
           /\ s' = cpuCycle(s, d.pc, ins, RdData(ins)).state
           /\ m' = MliteTold(ins, Valued(CpuEvents(ins), ins)).model
           /\ tracing' = (tracing /\ ins.op # "BREAK")
           /\ refQ' = PsxMonitored(ins).ref /\ dutQ' = PsxMonitored(ins).dut
           /\ mliteQ' = MliteMonitored(ins).ref /\ mdutQ' = MliteMonitored(ins).dut
           /\ alarms' = alarms \cup PsxMonitored(ins).alarms \cup MliteMonitored(ins).alarms
           /\ \A K : Untouched(K)' => Untouched(K) /\ CausesOf(ins) \cap K = {}
           /\ c' = Debug(c, ins)
<1>1. \A K : Untouched(K)' => Untouched(K) /\ CausesOf(ins) \cap K = {}
  BY DEF Execute, Untouched
<1>2. ins \in Instr
  BY ProgramAssumption
<1>3. /\ PsxTold(ins, CpuEvents(ins)).model = cpuCycle(s, d.pc, ins, RdData(ins)).state
      /\ PsxTold(ins, CpuEvents(ins)).monitor = PsxMonitored(ins)
  BY DEF PsxTold, PsxMonitored
<1> QED BY <1>1, <1>2, <1>3 DEF Execute, Popped, MliteMonitored

\* As long as the model of MIPS1_CORE is called.
LEMMA MliteCalls ==
    ASSUME tracing = TRUE, NEW ins, ins.op # "BREAK"
    PROVE  /\ MliteTold(ins, Valued(CpuEvents(ins), ins)).model = mliteCycle(m, d.pc, ins).state
           /\ MliteMonitored(ins) = Fetched(Join(mliteQ, mliteCycle(m, d.pc, ins).push),
                                            Join(mdutQ, Valued(CpuEvents(ins), ins)), "mlite")
BY DEF MliteTold, MliteMonitored

LEMMA PsxCall ==
    ASSUME Synced(s, refQ), NEW ins, ins.op \notin Known, NEW pc, NEW rd_data
    PROVE  \E e : /\ Quiet(e)
                  /\ cpuCycle(s, pc, ins, rd_data).state = Retired(s, e, ins, pc)
                  /\ cpuCycle(s, pc, ins, rd_data).push["inst"] = Predicted(s, e, ins, pc)
<1> DEFINE e == Switch(Fresh(s, pc), ins, pc, Ptr(s, ins), rd_data)
<1>1. Quiet(e)
  BY QuietFresh, QuietSwitch
<1>2. ~s.skip /\ ~e.exc
  BY <1>1 DEF Synced, Quiet
<1>3. /\ cpuCycle(s, pc, ins, rd_data).state = Retired(s, e, ins, pc)
      /\ cpuCycle(s, pc, ins, rd_data).push["inst"] = Predicted(s, e, ins, pc)
  BY <1>2 DEF cpuCycle
<1> HIDE DEF e
<1> QED BY <1>1, <1>3

LEMMA MliteCall ==
    ASSUME Synced(m.cpu, mliteQ), NEW ins, ins.op \notin Known, NEW pc
    PROVE  \E e : /\ Quiet(e)
                  /\ DOMAIN mliteCycle(m, pc, ins).state = {"cpu", "mem", "aborted"}
                  /\ mliteCycle(m, pc, ins).state.cpu = Retired(m.cpu, e, ins, pc)
                  /\ mliteCycle(m, pc, ins).push["inst"] = Predicted(m.cpu, e, ins, pc)
<1> DEFINE e == MliteSwitch(Fresh(m.cpu, pc), ins, pc, m)
<1>1. Quiet(e)
  BY QuietFresh, QuietMliteSwitch
<1>2. ~m.cpu.skip /\ ~e.exc
  BY <1>1 DEF Synced, Quiet
<1>3. /\ DOMAIN mliteCycle(m, pc, ins).state = {"cpu", "mem", "aborted"}
      /\ mliteCycle(m, pc, ins).state.cpu = Retired(m.cpu, e, ins, pc)
      /\ mliteCycle(m, pc, ins).push["inst"] = Predicted(m.cpu, e, ins, pc)
  BY <1>2 DEF mliteCycle
<1> HIDE DEF e
<1> QED BY <1>1, <1>3

LEMMA QueueInit == Init => QueueInv
<1> SUFFICES ASSUME Init PROVE QueueInv
  OBVIOUS
<1>1. DOMAIN refQ = Streams /\ refQ["inst"] = << ResetVector >>
  BY DEF Init, Empty, Streams
<1>2. DOMAIN mliteQ = Streams /\ mliteQ["inst"] = << 0 >>
  BY DEF Init, Empty, Streams
<1>3. \A v : DOMAIN cpuInit(v) = SFields /\ cpuInit(v).skip = FALSE /\ cpuInit(v).dlySlot = FALSE
  BY DEF cpuInit, SFields
<1>4. s = cpuInit(ResetVector) /\ DOMAIN m = {"cpu", "mem", "aborted"} /\ m.cpu = cpuInit(0)
  BY DEF Init, mliteInit
<1>5. ASSUME NEW v, NEW q, DOMAIN q = Streams, q["inst"] = << v >>
      PROVE  Synced(cpuInit(v), q)
  <2>1. q["inst"] \in Seq({v}) /\ Len(q["inst"]) = 1
    BY <1>5
  <2>2. ~cpuInit(v).skip /\ ~cpuInit(v).dlySlot /\ cpuInit(v).dlySlot \in BOOLEAN
    BY <1>3
  <2> QED BY <1>3, <1>5, <2>1, <2>2 DEF Synced
<1>6. Synced(s, refQ)
  BY <1>1, <1>4, <1>5
<1>7. Synced(m.cpu, mliteQ)
  BY <1>2, <1>4, <1>5
<1>8. alarms = {} /\ tracing = TRUE
  BY DEF Init
<1> QED BY <1>4, <1>6, <1>7, <1>8 DEF QueueInv

LEMMA QueueExecute ==
    ASSUME QueueInv, NEW ins \in Program, Execute(ins)
    PROVE  QueueInv'
<1> SUFFICES ASSUME Untouched(Unpredicted)'
             PROVE  /\ Synced(s, refQ)' /\ Synced(m.cpu, mliteQ)'
                    /\ DOMAIN m' = {"cpu", "mem", "aborted"} /\ tracing' = TRUE
                    /\ \A k \in alarms' : k[2] # "empty"
  BY DEF QueueInv
<1> DEFINE ref   == cpuCycle(s, d.pc, ins, RdData(ins))
           mlite == mliteCycle(m, d.pc, ins)
           jr    == Join(refQ, ref.push)
           jm    == Join(mliteQ, mlite.push)
           dr    == Join(dutQ, CpuEvents(ins))
           dm    == Join(mdutQ, Valued(CpuEvents(ins), ins))
           psx   == PsxMonitored(ins)
           mips  == MliteMonitored(ins)
<1>1. /\ s' = ref.state /\ refQ' = psx.ref /\ mliteQ' = mips.ref
      /\ alarms' = alarms \cup psx.alarms \cup mips.alarms
      /\ Untouched(Unpredicted) /\ CausesOf(ins) \cap Unpredicted = {}
  BY ExecuteParts
<1>2. ins.op \notin Known /\ ins.op # "BREAK"
  BY <1>1, Unexcused DEF Known
<1>3. /\ Synced(s, refQ) /\ Synced(m.cpu, mliteQ) /\ tracing = TRUE
      /\ \A k \in alarms : k[2] # "empty"
  BY <1>1 DEF QueueInv
<1>4. m' = mlite.state /\ mips = Fetched(jm, dm, "mlite") /\ tracing' = TRUE
  BY <1>2, <1>3, MliteCalls, ExecuteParts
<1>5. PICK e : Quiet(e) /\ ref.state = Retired(s, e, ins, d.pc)
               /\ ref.push["inst"] = Predicted(s, e, ins, d.pc)
  BY <1>2, <1>3, PsxCall
<1>6. PICK f : Quiet(f) /\ DOMAIN mlite.state = {"cpu", "mem", "aborted"}
               /\ mlite.state.cpu = Retired(m.cpu, f, ins, d.pc)
               /\ mlite.push["inst"] = Predicted(m.cpu, f, ins, d.pc)
  BY <1>2, <1>3, MliteCall
<1>7. psx = Monitored(jr, dr) /\ DOMAIN dr = Streams /\ DOMAIN dm = Streams
  BY DEF PsxMonitored, Join
<1> HIDE DEF ref, mlite, psx, mips, dr, dm
<1>8. /\ DOMAIN jr = Streams /\ jr["inst"] # << >>
      /\ \A w : DOMAIN w = Streams /\ w["inst"] = Tail(jr["inst"])
               => Synced(Retired(s, e, ins, d.pc), w)
  BY <1>3, <1>5, QueueStep
<1>9. /\ DOMAIN jm = Streams /\ jm["inst"] # << >>
      /\ \A w : DOMAIN w = Streams /\ w["inst"] = Tail(jm["inst"])
               => Synced(Retired(m.cpu, f, ins, d.pc), w)
  BY <1>3, <1>6, QueueStep
<1> HIDE DEF jr, jm
<1>10. /\ DOMAIN psx.ref = Streams /\ psx.ref["inst"] = Tail(jr["inst"])
       /\ \A k \in psx.alarms : k[2] # "empty"
  <2> DEFINE g == Accessed(jr, dr)
             h == Fetched(g.ref, g.dut, "psx")
  <2>1. DOMAIN g.ref = Streams /\ DOMAIN g.dut = Streams /\ g.ref["inst"] = jr["inst"]
    BY <1>7, <1>8, AccessPopped DEF Streams
  <2>2. psx.ref = h.ref /\ psx.alarms = h.alarms \cup (IF g.match THEN {} ELSE {<< "psx", "data" >>})
    BY <1>7, MonitoredParts
  <2> HIDE DEF g
  <2>3. DOMAIN h.ref = Streams /\ h.ref["inst"] = Tail(jr["inst"]) /\ h.alarms \subseteq {<< "psx", "inst" >>}
    BY <1>8, <2>1, FetchPopped
  <2> HIDE DEF h
  <2> QED BY <2>2, <2>3
<1>11. /\ DOMAIN mips.ref = Streams /\ mips.ref["inst"] = Tail(jm["inst"])
       /\ \A k \in mips.alarms : k[2] # "empty"
  <2>1. mips.alarms \subseteq {<< "mlite", "inst" >>}
    BY <1>4, <1>7, <1>9, FetchPopped
  <2> QED BY <1>4, <1>7, <1>9, <2>1, FetchPopped
<1>12. Synced(s', refQ')
  BY <1>1, <1>5, <1>8, <1>10
<1>13. Synced(m'.cpu, mliteQ')
  BY <1>1, <1>4, <1>6, <1>9, <1>11
<1>14. \A k \in alarms' : k[2] # "empty"
  BY <1>1, <1>3, <1>10, <1>11
<1> QED BY <1>4, <1>6, <1>12, <1>13, <1>14 DEF Synced

\* The checkers of the accesses and the registers leave the fetches alone.
LEMMA QueueCheckRegisters ==
    ASSUME QueueInv, CheckRegisters
    PROVE  QueueInv'
<1> DEFINE v == Registered(refQ, dutQ)
<1>1. /\ DOMAIN v.ref = Streams /\ v.ref["inst"] = refQ["inst"]
      /\ \A k \in v.alarms : k[2] # "empty"
  BY DEF Registered, Streams
<1>2. /\ refQ' = v.ref /\ mliteQ' = mliteQ /\ s' = s /\ m' = m /\ tracing' = tracing /\ causes' = causes
      /\ alarms' = alarms \cup v.alarms
  BY DEF CheckRegisters, Popped
<1> HIDE DEF v
<1> QED BY <1>1, <1>2 DEF QueueInv, Untouched, Synced

\* The heads of a stream are popped and, when the queues are equal, agree.
Pops(v, ref, dut, k) ==
    /\ v.ref = IF ref[k] = << >> THEN ref ELSE [ref EXCEPT ![k] = Tail(ref[k])]
    /\ v.dut = [dut EXCEPT ![k] = Tail(dut[k])]
    /\ v.alarms \subseteq {<< "mlite", k >>}
    /\ ref[k] # << >> /\ ref[k] = dut[k] => v.alarms = {}

LEMMA ObservedPops ==
    ASSUME NEW ref, NEW dut, NEW k
    PROVE  Pops(Observed(ref, dut, k), ref, dut, k)
<1> DEFINE b == Compared(ref, dut, k, "mlite")
           ok == IF ref[k] = << >> THEN ~Unexpected(k, dut[k][1]) ELSE b.match
           v == Observed(ref, dut, k)
<1>1. v.ref = b.ref /\ v.dut = b.dut /\ v.alarms = IF ok THEN {} ELSE {<< "mlite", k >>}
  BY DEF Observed
<1>2. /\ b.ref = IF ref[k] = << >> THEN ref ELSE [ref EXCEPT ![k] = Tail(ref[k])]
      /\ b.dut = [dut EXCEPT ![k] = Tail(dut[k])]
      /\ b.match = (ref[k] # << >> /\ Same("mlite", k, ref[k][1], dut[k][1]))
  BY DEF Compared
<1>3. \A w : Same("mlite", k, w, w)
  BY DEF Same
<1> HIDE DEF b, v
<1>4. ref[k] # << >> /\ ref[k] = dut[k] => ok
  <2> SUFFICES ASSUME ref[k] # << >>, ref[k] = dut[k] PROVE b.match
    OBVIOUS
  <2>1. Same("mlite", k, ref[k][1], dut[k][1])
    BY <1>3
  <2> QED BY <1>2, <2>1, Zenon
<1> HIDE DEF ok
<1>5. Pops(v, ref, dut, k)
  BY <1>1, <1>2, <1>4 DEF Pops
<1> QED BY <1>5 DEF v

Late == {"data", "reg", "lo", "hi"}

LEMMA QueueCheckMlite ==
    ASSUME QueueInv, NEW j \in Late, CheckMlite(j)
    PROVE  QueueInv'
<1> DEFINE v == Observed(mliteQ, mdutQ, j)
<1>1. /\ refQ' = refQ /\ mliteQ' = v.ref /\ s' = s /\ m' = m /\ tracing' = tracing /\ causes' = causes
      /\ alarms' = alarms \cup v.alarms
  BY DEF CheckMlite, Popped
<1>2. Pops(v, mliteQ, mdutQ, j)
  BY ObservedPops
<1> HIDE DEF v
<1>3. j # "inst" /\ j # "empty"
  BY DEF Late
<1>4. \A k \in v.alarms : k[2] # "empty"
  BY <1>2, <1>3 DEF Pops
<1>5. DOMAIN v.ref = DOMAIN mliteQ /\ v.ref["inst"] = mliteQ["inst"]
  BY <1>2, <1>3 DEF Pops
<1> QED BY <1>1, <1>4, <1>5 DEF QueueInv, Untouched, Synced

----------------------------------------------------------------------------
THEOREM QueueInvariant == Spec => []QueueInv
<1>1. QueueInv /\ [Next]_vars => QueueInv'
  <2> SUFFICES ASSUME QueueInv, [Next]_vars PROVE QueueInv'
    OBVIOUS
  <2>1. CASE CheckRegisters
    BY <2>1, QueueCheckRegisters
  <2>2. ASSUME NEW ins \in Program, Execute(ins) PROVE QueueInv'
    BY <2>2, QueueExecute
  <2>3. ASSUME NEW k \in Late, CheckMlite(k) PROVE QueueInv'
    BY <2>3, QueueCheckMlite
  <2>4. CASE UNCHANGED vars
    BY <2>4 DEF vars, QueueInv, Untouched, Synced
  <2> QED BY <2>1, <2>2, <2>3, <2>4 DEF Next, Late
<1> QED BY <1>1, QueueInit, PTL DEF Spec

\* Whatever the program, a monitor finds an address in the queue of fetches
\* when it compares one, as mips1_core_monitor.v:797 says, as long as the
\* program took no exception and used no instruction a model does not know.
THEOREM PredictedInstCorrect == Spec => []PredictedInst
<1>1. QueueInv => PredictedInst
  BY DEF QueueInv, PredictedInst, Excuse
<1> QED BY <1>1, QueueInvariant, PTL

----------------------------------------------------------------------------
(***************************************************************************)
(* The checkers.  Between two calls the queues hold the same writes of     *)
(* registers, of LO and of HI on both sides, and of fetches what Promises  *)
(* says; those of PSX_TOP hold no access, those of MIPS1_CORE the same on  *)
(* both sides.  An instruction the model follows keeps this, and none of   *)
(* the checkers reports it.                                                *)
(***************************************************************************)

Regs == {"reg", "lo", "hi"}

\* The queue of what the CPU did, between two calls: PSX_TOP, MIPS1_CORE.
Seen(t)  == DOMAIN t = Streams /\ t["inst"] = << >> /\ t["data"] = << >>
Shown(t) == DOMAIN t = Streams /\ t["inst"] = << >>

\* The queues of registers agree.
Agree(q, t) == \A k \in Regs : q[k] = t[k]

\* What the CPU shows of one instruction.
OneSeen(e, a) ==
    /\ DOMAIN e = Streams /\ e["inst"] = << a >>
    /\ e["data"] = << >> \/ \E z : e["data"] = << z >>

LEMMA JoinFacts ==
    ASSUME NEW q, NEW p
    PROVE  DOMAIN Join(q, p) = Streams /\ \A k \in Streams : Join(q, p)[k] = q[k] \o p[k]
BY DEF Join

LEMMA EmptyJoin ==
    ASSUME NEW q, q = << >>
    PROVE  /\ \A z : q \o << z >> = << z >>
           /\ q \o << >> = << >>
           /\ \A z : Tail(<< z >>) = << >>
OBVIOUS

\* What the monitor of PSX_TOP does with the queue of the CPU, whatever the
\* model predicted.
LEMMA MonitorSees ==
    ASSUME NEW ref, NEW t, Seen(t), NEW a, NEW e, OneSeen(e, a)
    PROVE  LET v == Monitored(ref, Join(t, e))
           IN /\ Seen(v.dut) /\ \A k \in Regs : v.dut[k] = Join(t, e)[k]
              /\ v.alarms \subseteq {<< "psx", "data" >>, << "psx", "inst" >>, << "psx", "empty" >>}
<1> DEFINE dut == Join(t, e)
           v == Monitored(ref, dut)
<1>1. DOMAIN dut = Streams /\ dut["inst"] = << a >> /\ (dut["data"] = << >> \/ \E z : dut["data"] = << z >>)
  <2>1. /\ DOMAIN dut = Streams
        /\ dut["inst"] = t["inst"] \o e["inst"] /\ dut["data"] = t["data"] \o e["data"]
    BY JoinFacts DEF Streams
  <2> HIDE DEF dut
  <2> QED BY <2>1, EmptyJoin DEF Seen, OneSeen
<1> HIDE DEF dut
<1> DEFINE g == Accessed(ref, dut)
           h == Fetched(g.ref, g.dut, "psx")
<1>2. v.dut = h.dut /\ v.alarms = h.alarms \cup (IF g.match THEN {} ELSE {<< "psx", "data" >>})
  BY MonitoredParts
<1>3. /\ h.dut = [g.dut EXCEPT !["inst"] = Tail(g.dut["inst"])]
      /\ h.alarms \subseteq {<< "psx", "inst" >>, << "psx", "empty" >>}
  BY DEF Fetched, Compared
<1>4. /\ DOMAIN g.dut = Streams /\ g.dut["data"] = << >> /\ g.dut["inst"] = << a >>
      /\ \A k \in Regs : g.dut[k] = dut[k]
  <2>1. CASE dut["data"] = << >>
    BY <1>1, <2>1 DEF Accessed
  <2>2. CASE dut["data"] # << >>
    <3>1. g.dut = [dut EXCEPT !["data"] = Tail(dut["data"])]
      BY <2>2 DEF Accessed, Compared
    <3>2. Tail(dut["data"]) = << >>
      <4>1. PICK z : dut["data"] = << z >>
        BY <1>1, <2>2
      <4> QED BY <4>1
    <3> HIDE DEF g
    <3> QED BY <1>1, <3>1, <3>2 DEF Streams, Regs
  <2> QED BY <2>1, <2>2
<1> HIDE DEF g, h, v
<1>5. /\ Seen(h.dut) /\ \A k \in Regs : h.dut[k] = dut[k]
  <2>1. Tail(<< a >>) = << >>
    OBVIOUS
  <2> QED BY <1>3, <1>4, <2>1 DEF Streams, Regs, Seen
<1> QED BY <1>2, <1>3, <1>5 DEF dut, v

\* The comparison, when the model has predicted a fetch and logged an access
\* if the CPU made one.
LEMMA MonitorAgrees ==
    ASSUME NEW ref, DOMAIN ref = Streams, NEW dut, DOMAIN dut = Streams,
           ref["inst"] # << >>, NEW a, dut["inst"] = << a >>,
           \/ ref["data"] = << >> /\ dut["data"] = << >>
           \/ \E y, z : ref["data"] = << y >> /\ dut["data"] = << z >>
    PROVE  LET v == Monitored(ref, dut)
           IN /\ v.ref["inst"] = Tail(ref["inst"]) /\ v.ref["data"] = << >>
              /\ \A k \in Regs : v.ref[k] = ref[k]
              /\ v.alarms \subseteq {<< "psx", "data" >>, << "psx", "inst" >>}
              /\ ref["inst"][1] = a => << "psx", "inst" >> \notin v.alarms
              /\ ref["data"] = dut["data"] => << "psx", "data" >> \notin v.alarms
<1> DEFINE v == Monitored(ref, dut)
           g == Accessed(ref, dut)
           h == Fetched(g.ref, g.dut, "psx")
<1>1. v.ref = h.ref /\ v.alarms = h.alarms \cup (IF g.match THEN {} ELSE {<< "psx", "data" >>})
  BY MonitoredParts
<1>2. /\ DOMAIN g.ref = Streams /\ \A k \in Streams \ {"data"} : g.ref[k] = ref[k]
      /\ DOMAIN g.dut = Streams /\ \A k \in Streams \ {"data"} : g.dut[k] = dut[k]
  BY AccessPopped
<1>3. g.ref["data"] = << >> /\ (ref["data"] = dut["data"] => g.match)
  <2>1. CASE dut["data"] = << >>
    <3>1. g = [ref |-> ref, dut |-> dut, match |-> TRUE]
      BY <2>1 DEF Accessed
    <3>2. ref["data"] = << >>
      BY <2>1
    <3> QED BY <3>1, <3>2
  <2>2. CASE dut["data"] # << >>
    <3>1. PICK y, z : ref["data"] = << y >> /\ dut["data"] = << z >>
      BY <2>2
    <3>2. /\ g.ref = [ref EXCEPT !["data"] = Tail(ref["data"])]
          /\ g.match = (ref["data"] # << >> /\ Same("psx", "data", ref["data"][1], dut["data"][1]))
      BY <2>2, <3>1 DEF Accessed, Compared
    <3>3. Tail(<< y >>) = << >> /\ << y >> # << >>
      OBVIOUS
    <3>4. ref["data"] = dut["data"] => g.match
      <4>1. \A w : Same("psx", "data", w, w)
        BY DEF Same
      <4> QED BY <3>1, <3>2, <3>3, <4>1
    <3> HIDE DEF g
    <3> QED BY <3>1, <3>2, <3>3, <3>4 DEF Streams
  <2> QED BY <2>1, <2>2
<1> HIDE DEF g
<1>4. g.ref["inst"] = ref["inst"] /\ g.dut["inst"] = << a >> /\ g.ref["inst"] # << >>
  BY <1>2 DEF Streams
<1>5. /\ h.ref["inst"] = Tail(ref["inst"])
      /\ \A k \in Streams \ {"inst"} : h.ref[k] = g.ref[k]
      /\ h.alarms \subseteq {<< "psx", "inst" >>}
      /\ ref["inst"][1] = a => h.alarms = {}
  <2>1. g.dut["inst"][1] = a
    BY <1>4
  <2> QED BY <1>2, <1>4, <2>1, FetchPopped
<1> HIDE DEF h, v
<1>6. h.ref["data"] = << >> /\ \A k \in Regs : h.ref[k] = ref[k]
  BY <1>2, <1>3, <1>5 DEF Streams, Regs
<1>7. v.alarms \subseteq {<< "psx", "data" >>, << "psx", "inst" >>}
  BY <1>1, <1>5
<1>8. ref["inst"][1] = a => << "psx", "inst" >> \notin v.alarms
  BY <1>1, <1>5
<1>9. ref["data"] = dut["data"] => << "psx", "data" >> \notin v.alarms
  BY <1>1, <1>3, <1>5
<1> QED BY <1>1, <1>5, <1>6, <1>7, <1>8, <1>9 DEF v

----------------------------------------------------------------------------
\* One instruction that a model x follows, with its queue q and that of the
\* CPU t: f is what the switch did, p what it pushed, e what the CPU showed.

LEMMA FollowedQuiet ==
    ASSUME NEW f, DOMAIN f = EFields, NEW ins, NEW p, Goes(f, ins, p)
    PROVE  Quiet(f)
BY DEF Goes, Quiet

LEMMA RetiredHolds ==
    ASSUME NEW x, DOMAIN x = SFields, NEW f, NEW ins, NEW pc,
           Computes(f, ins), d' = CpuNext(d, ins), ~CpuTraps(d, ins)
    PROVE  LET y == Retired(x, f, ins, pc)
           IN y.r = [d'.r EXCEPT ![0] = y.r[0]] /\ y.lo = d'.lo /\ y.hi = d'.hi
<1> DEFINE y == Retired(x, f, ins, pc)
           g == Registers(x, f, pc, NextPc(f, ins))
<1>1. DOMAIN g = SFields /\ g.r = f.r /\ g.lo = f.lo /\ g.hi = f.hi
  BY DEF Registers, SFields
<1> HIDE DEF g
<1>2. y = [g EXCEPT !.dlySlot = ~x.dlySlot /\ (Taken(f) \/ f.jump)]
  BY DEF Retired, g
<1>3. y.r = f.r /\ y.lo = f.lo /\ y.hi = f.hi
  BY <1>1, <1>2 DEF SFields
<1> HIDE DEF y
<1>4. d'.r = CpuRegs(d, ins) /\ d'.lo = CpuNext(d, ins).lo /\ d'.hi = CpuNext(d, ins).hi
  BY CpuDoes
<1>5. y.r = [CpuRegs(d, ins) EXCEPT ![0] = y.r[0]]
  BY <1>3 DEF Computes
<1> QED BY <1>3, <1>4, <1>5 DEF Computes, y

Two(u, v)      == << u >> \o << v >> = << u, v >>
Three(u, v, w) == << u >> \o << v, w >> = << u, v, w >>

LEMMA ShortQueues ==
    ASSUME NEW u, NEW v, NEW w
    PROVE  /\ Two(u, v) /\ Three(u, v, w)
           /\ Tail(<< u, v >>) = << v >> /\ Tail(<< u, v, w >>) = << v, w >>
<1> DEFINE S == {u, v, w}
<1>1. ASSUME NEW i \in Seq(S), NEW j \in Seq(S), Len(i) = 2, Len(j) = 2, i[1] = j[1], i[2] = j[2]
      PROVE  i = j
  BY <1>1, SeqEqual
<1>2. ASSUME NEW i \in Seq(S), NEW j \in Seq(S), Len(i) = 3, Len(j) = 3,
             i[1] = j[1], i[2] = j[2], i[3] = j[3]
      PROVE  i = j
  BY <1>2, SeqEqual
<1>3. << u >> \o << v >> = << u, v >>
  <2> DEFINE i == << u >> \o << v >>
             j == << u, v >>
  <2>1. i \in Seq(S) /\ Len(i) = 2 /\ i[1] = u /\ i[2] = v
    OBVIOUS
  <2>2. j \in Seq(S) /\ Len(j) = 2 /\ j[1] = u /\ j[2] = v
    OBVIOUS
  <2> HIDE DEF i, j
  <2>3. i = j
    BY <2>1, <2>2, <1>1
  <2> QED BY <2>3 DEF i, j
<1>4. << u >> \o << v, w >> = << u, v, w >>
  <2> DEFINE i == << u >> \o << v, w >>
             j == << u, v, w >>
  <2>1. i \in Seq(S) /\ Len(i) = 3 /\ i[1] = u /\ i[2] = v /\ i[3] = w
    OBVIOUS
  <2>2. j \in Seq(S) /\ Len(j) = 3 /\ j[1] = u /\ j[2] = v /\ j[3] = w
    OBVIOUS
  <2> HIDE DEF i, j
  <2>3. i = j
    BY <2>1, <2>2, <1>2
  <2> QED BY <2>3 DEF i, j
<1>5. Tail(<< u, v >>) = << v >> /\ Tail(<< u, v, w >>) = << v, w >>
  OBVIOUS
<1> QED BY <1>3, <1>4, <1>5 DEF Two, Three

\* Where the CPU is on the path the model x expects, after an instruction that
\* keeps it there: the last fetch was d.pc, and y is what x becomes.
InStep(ins, x, q) ==
    /\ x.dlySlot = d.slot /\ Promises(q, x)
    /\ ~CauseOf(ins).region /\ ~CauseOf(ins).slot
Fetches(j, y) ==
    /\ j # << >> /\ j[1] = d.pc
    /\ y.dlySlot = d'.slot
    /\ Tail(j) = IF y.dlySlot THEN << d'.pc, d'.npc >> ELSE << d'.pc >>

NextSlot(y, x, f) == y.dlySlot = (~x.dlySlot /\ (Taken(f) \/ f.jump))

\* The addresses in the queue: those promised, then those pushed; the first is
\* the fetch that is compared, the rest is promised for the next.
LEMMA PromiseStep ==
    ASSUME CpuType, NEW ins, Followed(ins), NEW f, Goes(f, ins, d.pc),
           NEW x, NEW q, InStep(ins, x, q),
           d' = CpuNext(d, ins), NEW y, NextSlot(y, x, f)
    PROVE  Fetches(q["inst"] \o Predicted(x, f, ins, d.pc), y)
<1> DEFINE l == Predicted(x, f, ins, d.pc)
           j == q["inst"] \o l
<1>0. /\ y.dlySlot = (~x.dlySlot /\ (Taken(f) \/ f.jump))
      /\ x.dlySlot = d.slot /\ Promises(q, x)
      /\ ~CauseOf(ins).region /\ ~CauseOf(ins).slot
  BY DEF NextSlot, InStep
<1>1. /\ d'.pc = d.npc /\ d'.slot = CpuTaken(d, ins)
      /\ d'.npc = IF CpuTaken(d, ins) THEN CpuTarget(d, ins) ELSE Plus(d.npc, 4)
  BY CpuDoes DEF Followed
<1>2. /\ NextPc(f, ins) = IF CpuTaken(d, ins) THEN CpuTarget(d, ins) ELSE Plus(d.pc, 4)
      /\ (Taken(f) \/ f.jump) <=> CpuTaken(d, ins)
  BY <1>0, NextFollows
<1>3. d.slot \in BOOLEAN /\ CpuTaken(d, ins) \in BOOLEAN
  BY DEF CpuType, CpuTaken
<1>4. CASE d.slot
  <2>1. ~CpuTaken(d, ins)
    BY <1>0, <1>4 DEF CauseOf
  <2>2. x.dlySlot /\ y.dlySlot = FALSE /\ d'.slot = FALSE
    BY <1>0, <1>1, <1>3, <1>4, <2>1
  <2>3. q["inst"] = << d.pc, d.npc >> /\ l = << >>
    BY <1>0, <2>2 DEF Promises, Predicted
  <2>4. j = << d.pc, d.npc >>
    BY <2>3
  <2>5. j # << >> /\ j[1] = d.pc /\ Tail(j) = << d.npc >>
    BY <2>4
  <2> QED BY <1>1, <2>2, <2>5 DEF Fetches
<1>5. CASE ~d.slot /\ CpuTaken(d, ins)
  <2>1. d.npc = Plus(d.pc, 4)
    BY <1>5 DEF CpuType
  <2>2. ~x.dlySlot /\ y.dlySlot = TRUE /\ d'.slot = TRUE
    BY <1>0, <1>1, <1>2, <1>3, <1>5
  <2>3. q["inst"] = << d.pc >> /\ l = << Plus(d.pc, 4), CpuTarget(d, ins) >>
    BY <1>0, <1>2, <1>5, <2>2 DEF Promises, Predicted
  <2>4. j = << d.pc, d.npc, CpuTarget(d, ins) >>
    <3>1. Three(d.pc, Plus(d.pc, 4), CpuTarget(d, ins))
      BY ShortQueues
    <3> QED BY <2>1, <2>3, <3>1 DEF Three
  <2>5. j # << >> /\ j[1] = d.pc /\ Tail(j) = << d.npc, CpuTarget(d, ins) >>
    BY <2>4
  <2> QED BY <1>1, <1>5, <2>2, <2>5 DEF Fetches
<1>6. CASE ~d.slot /\ ~CpuTaken(d, ins)
  <2>1. d.npc = Plus(d.pc, 4)
    BY <1>6 DEF CpuType
  <2>2. ~x.dlySlot /\ y.dlySlot = FALSE /\ d'.slot = FALSE
    BY <1>0, <1>1, <1>2, <1>3, <1>6
  <2>3. q["inst"] = << d.pc >> /\ l = << d.npc >>
    BY <1>0, <1>2, <1>6, <2>1, <2>2 DEF Promises, Predicted
  <2>4. j = << d.pc, d.npc >>
    <3>1. Two(d.pc, d.npc)
      BY ShortQueues
    <3> QED BY <2>3, <3>1 DEF Two
  <2>5. j # << >> /\ j[1] = d.pc /\ Tail(j) = << d.npc >>
    BY <2>4
  <2> QED BY <1>1, <2>2, <2>5 DEF Fetches
<1> QED BY <1>4, <1>5, <1>6

\* What a model pushes of an instruction.
Pushed(p, f, a) ==
    /\ p["inst"] = a /\ p["data"] = f.data
    /\ p["reg"] = f.regs /\ p["lo"] = f.los /\ p["hi"] = f.his

\* No access on either side, or one.
OneEach(x, y) == (x = << >> /\ y = << >>) \/ (\E v, w : x = << v >> /\ y = << w >>)

\* What is then true of y, which the model becomes.
Retains(y) == y.r = [d'.r EXCEPT ![0] = y.r[0]] /\ y.lo = d'.lo /\ y.hi = d'.hi

\* Its queue, before the checks.
LEMMA ModelStep ==
    ASSUME CpuType, NEW ins, Followed(ins), NEW f, Quiet(f), Computes(f, ins), Pushes(f, ins),
           NEW x, NEW q, Synced(x, q), NEW t, Agree(q, t),
           NEW p, Pushed(p, f, Predicted(x, f, ins, d.pc)),
           NEW e, \A k \in Regs : e[k] = CpuEvents(ins)[k], d' = CpuNext(d, ins)
    PROVE  LET y == Retired(x, f, ins, d.pc)
               ref == Join(q, p)
           IN /\ Retains(y) /\ ref["inst"] # << >>
              /\ Agree(ref, Join(t, e))
              /\ InStep(ins, x, q) /\ Goes(f, ins, d.pc) => Fetches(ref["inst"], y)
<1> DEFINE y == Retired(x, f, ins, d.pc)
           ref == Join(q, p)
           dut == Join(t, e)
<1>1. ~CpuTraps(d, ins) /\ DOMAIN x = SFields
  BY DEF Followed, Synced
<1>2. Retains(y)
  BY <1>1, RetiredHolds DEF Retains
<1>3. ref["inst"] # << >>
  BY QueueStep DEF Pushed
<1>4. \A k \in Streams : ref[k] = q[k] \o p[k] /\ dut[k] = t[k] \o e[k]
  BY JoinFacts
<1> HIDE DEF ref, dut
<1>5. Agree(ref, dut)
  <2>1. p["reg"] = CpuEvents(ins).reg /\ p["lo"] = CpuEvents(ins).lo /\ p["hi"] = CpuEvents(ins).hi
    BY DEF Pushed, Pushes
  <2>2. \A k \in Regs : k \in Streams /\ p[k] = e[k] /\ q[k] = t[k]
    BY <2>1 DEF Regs, Streams, Agree
  <2> QED BY <1>4, <2>2 DEF Agree
<1>6. ASSUME InStep(ins, x, q), Goes(f, ins, d.pc)
      PROVE  Fetches(ref["inst"], y)
  <2>1. NextSlot(y, x, f)
    BY <1>1, RetiredState DEF NextSlot
  <2>2. ref["inst"] = q["inst"] \o Predicted(x, f, ins, d.pc)
    BY <1>4 DEF Pushed, Streams
  <2> HIDE DEF y
  <2> QED BY <1>6, <2>1, <2>2, PromiseStep
<1> QED BY <1>2, <1>3, <1>5, <1>6 DEF ref, dut

\* After the checks of PSX_TOP: v is what its monitor is left with, same is
\* whether the model logged the access the CPU made.
Keeps(ins, x, q, y, v, same) ==
    /\ Retains(y) /\ Agree(v.ref, v.dut) /\ v.ref["data"] = << >>
    /\ v.alarms \subseteq {<< "psx", "data" >>, << "psx", "inst" >>}
    /\ same => << "psx", "data" >> \notin v.alarms
    /\ InStep(ins, x, q)
         => /\ << "psx", "inst" >> \notin v.alarms
            /\ y.dlySlot = d'.slot
            /\ v.ref["inst"] = IF y.dlySlot THEN << d'.pc, d'.npc >> ELSE << d'.pc >>

LEMMA FollowStep ==
    ASSUME CpuType, NEW ins, Followed(ins), NEW f, DOMAIN f = EFields, AllFollow(f, ins, d.pc),
           NEW x, NEW q, Synced(x, q), NEW t, Seen(t), Agree(q, t), q["data"] = << >>,
           NEW p, Pushed(p, f, Predicted(x, f, ins, d.pc)),
           NEW e, OneSeen(e, d.pc), \A k \in Regs : e[k] = CpuEvents(ins)[k],
           OneEach(f.data, e["data"]), d' = CpuNext(d, ins)
    PROVE  LET y == Retired(x, f, ins, d.pc)
               v == Monitored(Join(q, p), Join(t, e))
           IN Keeps(ins, x, q, y, v, f.data = e["data"])
<1> DEFINE y == Retired(x, f, ins, d.pc)
           ref == Join(q, p)
           dut == Join(t, e)
           v == Monitored(ref, dut)
<1>1. Computes(f, ins) /\ Pushes(f, ins) /\ Goes(f, ins, d.pc)
  BY DEF AllFollow
<1>2. Quiet(f)
  BY <1>1, FollowedQuiet
<1>3. /\ Retains(y) /\ ref["inst"] # << >> /\ Agree(ref, dut)
      /\ InStep(ins, x, q) => Fetches(ref["inst"], y)
  BY <1>1, <1>2, ModelStep
<1>4. /\ DOMAIN ref = Streams /\ DOMAIN dut = Streams
      /\ \A k \in Streams : ref[k] = q[k] \o p[k] /\ dut[k] = t[k] \o e[k]
  BY JoinFacts
<1> HIDE DEF ref, dut
<1>5. dut["inst"] = << d.pc >> /\ ref["data"] = f.data /\ dut["data"] = e["data"]
  <2>1. /\ dut["inst"] = t["inst"] \o e["inst"] /\ ref["data"] = q["data"] \o p["data"]
        /\ dut["data"] = t["data"] \o e["data"]
    BY <1>4 DEF Streams
  <2>2. /\ t["inst"] = << >> /\ t["data"] = << >> /\ q["data"] = << >> /\ p["data"] = f.data
        /\ e["inst"] = << d.pc >>
    BY DEF Seen, Pushed, OneSeen
  <2>3. \A i : i = << >> => \A z : i \o << z >> = << z >> /\ i \o << >> = << >>
    BY EmptyJoin
  <2>4. OneEach(f.data, e["data"])
    OBVIOUS
  <2> QED BY <2>1, <2>2, <2>3, <2>4 DEF OneEach
<1>6. /\ v.ref["inst"] = Tail(ref["inst"]) /\ v.ref["data"] = << >>
      /\ \A k \in Regs : v.ref[k] = ref[k]
      /\ v.alarms \subseteq {<< "psx", "data" >>, << "psx", "inst" >>}
      /\ ref["inst"][1] = d.pc => << "psx", "inst" >> \notin v.alarms
      /\ ref["data"] = dut["data"] => << "psx", "data" >> \notin v.alarms
  <2>1. \/ ref["data"] = << >> /\ dut["data"] = << >>
        \/ \E i, j : ref["data"] = << i >> /\ dut["data"] = << j >>
    BY <1>5 DEF OneEach
  <2> QED BY <1>3, <1>4, <1>5, <2>1, MonitorAgrees
<1>7. \A k \in Regs : v.dut[k] = dut[k]
  BY MonitorSees DEF dut
<1> HIDE DEF y, v
<1>8. Agree(v.ref, v.dut)
  BY <1>3, <1>6, <1>7 DEF Agree
<1>9. Keeps(ins, x, q, y, v, f.data = e["data"])
  BY <1>3, <1>5, <1>6, <1>8 DEF Keeps, Fetches
<1> QED BY <1>9 DEF y, v, ref, dut

\* After the check of MIPS1_CORE's fetch.
MliteKeeps(ins, x, q, t, f, e, y, v) ==
    /\ Retains(y) /\ Agree(v.ref, v.dut) /\ Shown(v.dut)
    /\ v.ref["data"] = q["data"] \o f.data /\ v.dut["data"] = t["data"] \o e["data"]
    /\ v.alarms \subseteq {<< "mlite", "inst" >>}
    /\ InStep(ins, x, q) /\ Goes(f, ins, d.pc)
         => /\ v.alarms = {}
            /\ y.dlySlot = d'.slot
            /\ v.ref["inst"] = IF y.dlySlot THEN << d'.pc, d'.npc >> ELSE << d'.pc >>

\* A fetch is added to the queue of the CPU, and no other is in it.
LEMMA ShownJoin ==
    ASSUME NEW t, Shown(t), NEW a, NEW e, OneSeen(e, a)
    PROVE  DOMAIN Join(t, e) = Streams /\ Join(t, e)["inst"] = << a >>
<1> DEFINE dut == Join(t, e)
<1>1. DOMAIN dut = Streams /\ dut["inst"] = t["inst"] \o e["inst"]
  BY JoinFacts DEF Streams
<1> HIDE DEF dut
<1>2. DOMAIN dut = Streams /\ dut["inst"] = << a >>
  BY <1>1, EmptyJoin DEF Shown, OneSeen
<1> QED BY <1>2 DEF dut

LEMMA MliteFollowStep ==
    ASSUME CpuType, NEW ins, Followed(ins), NEW f, Quiet(f), Computes(f, ins), Pushes(f, ins),
           NEW x, NEW q, Synced(x, q), NEW t, Shown(t), Agree(q, t),
           NEW p, Pushed(p, f, Predicted(x, f, ins, d.pc)),
           NEW e, OneSeen(e, d.pc), \A k \in Regs : e[k] = CpuEvents(ins)[k], d' = CpuNext(d, ins)
    PROVE  LET y == Retired(x, f, ins, d.pc)
               v == Fetched(Join(q, p), Join(t, e), "mlite")
           IN MliteKeeps(ins, x, q, t, f, e, y, v)
<1> DEFINE y == Retired(x, f, ins, d.pc)
           ref == Join(q, p)
           dut == Join(t, e)
           v == Fetched(ref, dut, "mlite")
<1>1. /\ Retains(y) /\ ref["inst"] # << >> /\ Agree(ref, dut)
      /\ InStep(ins, x, q) /\ Goes(f, ins, d.pc) => Fetches(ref["inst"], y)
  BY ModelStep
<1>2. dut["inst"] = << d.pc >>
  BY ShownJoin
<1>3. /\ DOMAIN ref = Streams /\ DOMAIN dut = Streams
      /\ ref["data"] = q["data"] \o f.data /\ dut["data"] = t["data"] \o e["data"]
  <2>1. /\ DOMAIN ref = Streams /\ DOMAIN dut = Streams
        /\ ref["data"] = q["data"] \o p["data"] /\ dut["data"] = t["data"] \o e["data"]
    BY JoinFacts DEF Streams
  <2> HIDE DEF ref, dut
  <2> QED BY <2>1 DEF Pushed
<1> HIDE DEF ref, dut
<1>4. /\ DOMAIN v.ref = Streams /\ v.ref["inst"] = Tail(ref["inst"])
      /\ \A k \in Streams \ {"inst"} : v.ref[k] = ref[k]
      /\ DOMAIN v.dut = Streams /\ v.dut["inst"] = Tail(dut["inst"])
      /\ \A k \in Streams \ {"inst"} : v.dut[k] = dut[k]
      /\ v.alarms \subseteq {<< "mlite", "inst" >>}
      /\ ref["inst"][1] = dut["inst"][1] => v.alarms = {}
  BY <1>1, <1>3, FetchPopped
<1> HIDE DEF y, v
<1>5. v.dut["inst"] = << >> /\ dut["inst"][1] = d.pc
  BY <1>2, <1>4
<1>6. Agree(v.ref, v.dut) /\ v.ref["data"] = ref["data"] /\ v.dut["data"] = dut["data"]
  BY <1>1, <1>4 DEF Agree, Regs, Streams
<1>7. MliteKeeps(ins, x, q, t, f, e, y, v)
  BY <1>1, <1>3, <1>4, <1>5, <1>6 DEF MliteKeeps, Shown, Fetches
<1> QED BY <1>7 DEF y, v, ref, dut

----------------------------------------------------------------------------
\* The registers of the CPU are words, its register 0 is zero and it fetches
\* words, the one after the next fetch unless it comes from a branch.

LEMMA CpuTypeInit == Init => CpuType
<1> HIDE DEF W
<1> SUFFICES ASSUME Init PROVE CpuType
  OBVIOUS
<1>1. 0 \in Word /\ ResetVector \in Words
  BY WordFacts, ResetAssumption DEF Word, Words
<1>2. Plus(ResetVector, 4) \in Words
  BY <1>1, WordsPlus
<1>3. image \in [Words -> Word]
  BY ProgramAssumption DEF Init
<1>4. d = [pc |-> ResetVector, npc |-> Plus(ResetVector, 4), slot |-> FALSE, r |-> [i \in GPR |-> 0],
           lo |-> 0, hi |-> 0, mem |-> image, cop0 |-> KernelMode]
  BY DEF Init
<1>5. KernelMode \in Cop0State
  BY DEF KernelMode, Cop0State
<1> QED BY <1>1, <1>2, <1>3, <1>4, <1>5, RegAssumption DEF CpuType

LEMMA CpuTypeNext == CpuType /\ [Next]_vars => CpuType'
<1> SUFFICES ASSUME CpuType, [Next]_vars PROVE CpuType'
  OBVIOUS
<1>1. ASSUME NEW ins \in Program, Execute(ins) PROVE CpuType'
  <2>1. ins \in Instr /\ d' = CpuNext(d, ins)
    BY <1>1, ProgramAssumption DEF Execute
  <2> QED BY <2>1, CpuTypeStep
<1>2. CASE CheckRegisters \/ UNCHANGED vars
  BY <1>2 DEF CheckRegisters, vars, CpuType
<1>3. ASSUME NEW k, CheckMlite(k) PROVE CpuType'
  BY <1>3 DEF CheckMlite, CpuType
<1> QED BY <1>1, <1>2, <1>3 DEF Next

\* Whatever the program, the CPU holds words, fetches words, and follows the
\* next word of memory unless the instruction before was a branch
\* (cpu_core.v, the registers of the fetch and of the file of registers).
THEOREM CpuTypeCorrect == Spec => []CpuType
BY CpuTypeInit, CpuTypeNext, PTL DEF Spec

----------------------------------------------------------------------------
(***************************************************************************)
(* The model of PSX_TOP.                                                   *)
(***************************************************************************)

\* The inductive invariant, with CpuType and QueueInv: as long as the model
\* follows the registers, the queues of the checkers agree, and as long as it
\* follows the fetches too, it is in a delay slot when the CPU is.
PsxInv ==
    /\ Seen(dutQ)
    /\ Untouched(PsxData) => Holds(s) /\ Agree(refQ, dutQ) /\ refQ["data"] = << >>
    /\ Untouched(PsxData \cup Control) => s.dlySlot = d.slot /\ Promises(refQ, s)
    /\ PsxNoFalseAlarm

LEMMA PsxInvInit == Init => PsxInv
<1> SUFFICES ASSUME Init PROVE PsxInv
  OBVIOUS
<1>1. /\ refQ = [Empty EXCEPT !.inst = << ResetVector >>, !.reg = << << 0, 0 >> >>]
      /\ dutQ = [Empty EXCEPT !.reg = << << 0, 0 >> >>]
      /\ s = cpuInit(ResetVector) /\ alarms = {}
      /\ d.pc = ResetVector /\ d.slot = FALSE /\ d.r = [i \in GPR |-> 0] /\ d.lo = 0 /\ d.hi = 0
  BY DEF Init
<1>2. Seen(dutQ) /\ Agree(refQ, dutQ) /\ refQ["inst"] = << d.pc >> /\ refQ["data"] = << >>
  BY <1>1 DEF Seen, Agree, Regs, Empty, Streams
<1>3. s.r = d.r /\ s.lo = 0 /\ s.hi = 0 /\ s.dlySlot = FALSE
  BY <1>1 DEF cpuInit
<1>4. Holds(s)
  BY <1>1, <1>3, RegAssumption DEF Holds
<1> QED BY <1>1, <1>2, <1>3, <1>4 DEF PsxInv, Promises, PsxNoFalseAlarm

\* What it means that an instruction is none of a set of causes.
LEMMA NoCause ==
    ASSUME NEW ins, NEW K, CausesOf(ins) \cap K = {}
    PROVE  \A k \in K : k \in DOMAIN CauseOf(ins) => ~CauseOf(ins)[k]
BY DEF CausesOf, Holding

LEMMA FollowedHere ==
    ASSUME NEW ins \in Instr, NEW K, {"exception", "unsupported", "cop0"} \subseteq K,
           CausesOf(ins) \cap K = {}
    PROVE  Followed(ins) /\ ins.op \notin Known
<1>1. {"exception", "unsupported", "cop0"} \subseteq DOMAIN CauseOf(ins)
  BY DEF CauseOf
<1>2. ~CauseOf(ins).exception /\ ~CauseOf(ins).unsupported /\ ~CauseOf(ins).cop0
  BY <1>1, NoCause
<1>3. ~CpuTraps(d, ins)
  BY <1>2 DEF CauseOf
<1>4. CausesOf(ins) \cap Unpredicted = {}
  BY DEF Unpredicted
<1> QED BY <1>2, <1>3, <1>4, Unexcused DEF Followed

\* Of an instruction the CPU shows its fetch, and one access at most.
LEMMA EventsSeen ==
    ASSUME NEW ins
    PROVE  OneSeen(CpuEvents(ins), d.pc)
<1>1. DOMAIN CpuEvents(ins) = Streams /\ CpuEvents(ins)["inst"] = << d.pc >>
  BY DEF CpuEvents, Streams
<1>2. CpuData(d, ins) = << >> \/ \E z : CpuData(d, ins) = << z >>
  BY DEF CpuData
<1>3. CpuEvents(ins)["data"] = IF CpuTraps(d, ins) THEN << >> ELSE CpuData(d, ins)
  BY DEF CpuEvents
<1> QED BY <1>1, <1>2, <1>3 DEF OneSeen

\* The call, in terms of the switch.
LEMMA PsxCalled ==
    ASSUME Synced(s, refQ), NEW ins, ins.op \notin Known, NEW pc, NEW rd_data
    PROVE  LET f == Switch(Fresh(s, pc), ins, pc, Ptr(s, ins), rd_data)
               v == cpuCycle(s, pc, ins, rd_data)
           IN /\ DOMAIN f = EFields
              /\ v.state = Retired(s, f, ins, pc)
              /\ Pushed(v.push, f, Predicted(s, f, ins, pc))
<1> DEFINE f == Switch(Fresh(s, pc), ins, pc, Ptr(s, ins), rd_data)
           v == cpuCycle(s, pc, ins, rd_data)
<1>1. Quiet(f)
  BY QuietFresh, QuietSwitch
<1>2. ~s.skip /\ ~f.exc /\ DOMAIN f = EFields
  BY <1>1 DEF Synced, Quiet
<1>3. /\ v.state = Retired(s, f, ins, pc)
      /\ v.push["inst"] = Predicted(s, f, ins, pc) /\ v.push["data"] = f.data
      /\ v.push["reg"] = f.regs /\ v.push["lo"] = f.los /\ v.push["hi"] = f.his
  BY <1>2 DEF cpuCycle
<1> HIDE DEF f, v
<1>4. Pushed(v.push, f, Predicted(s, f, ins, pc))
  BY <1>3 DEF Pushed
<1> QED BY <1>2, <1>3, <1>4 DEF f, v

\* The switch does what the CPU does.
LEMMA PsxSwitchFollows ==
    ASSUME CpuType, Holds(s), NEW ins, Followed(ins), ~CauseOf(ins).sign, ~CauseOf(ins).half
    PROVE  LET f == Switch(Fresh(s, d.pc), ins, d.pc, Ptr(s, ins), RdData(ins))
           IN /\ AllFollow(f, ins, d.pc)
              /\ OneEach(f.data, CpuEvents(ins)["data"])
              /\ ~CauseOf(ins).zero => f.data = CpuEvents(ins)["data"]
<1> DEFINE e == Fresh(s, d.pc)
           p == Ptr(s, ins)
           f == Switch(e, ins, d.pc, p, RdData(ins))
<1>1. Start(e, d.pc)
  BY FreshStart
<1>2. ins \in Instr /\ ~CpuTraps(d, ins) /\ CpuEvents(ins)["data"] = CpuData(d, ins)
  BY CpuDoes DEF Followed
<1>3. CASE ~IsAccess(ins)
  <2>1. AllFollow(f, ins, d.pc) /\ f.data = << >>
    <3> HIDE DEF e, p
    <3> QED BY <1>1, <1>3, SwitchFollows
  <2>2. CpuData(d, ins) = << >>
    BY <1>3 DEF CpuData, IsAccess
  <2>3. /\ AllFollow(f, ins, d.pc) /\ OneEach(f.data, CpuData(d, ins))
        /\ ~CauseOf(ins).zero => f.data = CpuData(d, ins)
    <3> HIDE DEF e, p, f
    <3> QED BY <2>1, <2>2 DEF OneEach
  <2> QED BY <1>2, <2>3
<1>4. CASE IsAccess(ins)
  <2>1. /\ AllFollow(f, ins, d.pc)
        /\ \E y, z : f.data = << y >> /\ CpuData(d, ins) = << z >>
        /\ p = CpuAddress(d, ins) => f.data = CpuData(d, ins)
    <3> HIDE DEF e, p
    <3> QED BY <1>1, <1>4, PsxAccessFollows
  <2>2. ~CauseOf(ins).zero => p = CpuAddress(d, ins)
    <3>1. ~CauseOf(ins).zero => (ins.rs = 0 => s.r[0] = 0)
      BY <1>4 DEF CauseOf
    <3> QED BY <1>2, <3>1, PointerFollows
  <2>3. /\ AllFollow(f, ins, d.pc) /\ OneEach(f.data, CpuData(d, ins))
        /\ ~CauseOf(ins).zero => f.data = CpuData(d, ins)
    <3> HIDE DEF e, p, f
    <3> QED BY <2>1, <2>2 DEF OneEach
  <2> QED BY <1>2, <2>3
<1> QED BY <1>3, <1>4

\* What a monitor reports bears its name.
LEMMA PsxNamed ==
    ASSUME NEW ref, NEW dut
    PROVE  /\ \A k \in Monitored(ref, dut).alarms : k[1] = "psx"
           /\ \A k \in Registered(ref, dut).alarms : k[1] = "psx" /\ k[2] \in Regs
<1> DEFINE g == Accessed(ref, dut)
           h == Fetched(g.ref, g.dut, "psx")
<1>1. Monitored(ref, dut).alarms = h.alarms \cup (IF g.match THEN {} ELSE {<< "psx", "data" >>})
  BY MonitoredParts
<1>2. h.alarms \subseteq {<< "psx", "inst" >>, << "psx", "empty" >>}
  BY DEF Fetched
<1> HIDE DEF g, h
<1>3. \A k \in Registered(ref, dut).alarms : k[1] = "psx" /\ k[2] \in Regs
  BY DEF Registered, Regs
<1> QED BY <1>1, <1>2, <1>3

LEMMA MliteNamed ==
    ASSUME NEW ins
    PROVE  /\ MliteMonitored(ins).alarms \subseteq {<< "mlite", "inst" >>, << "mlite", "empty" >>}
           /\ \A k \in MliteMonitored(ins).alarms : k[1] = "mlite"
<1> DEFINE dut == Join(mdutQ, Valued(CpuEvents(ins), ins))
           v   == MliteMonitored(ins)
<1>1. \A ref, t : /\ Fetched(ref, t, "mlite").alarms \subseteq {<< "mlite", "inst" >>, << "mlite", "empty" >>}
                  /\ Stopped(ref, t).alarms \subseteq {<< "mlite", "inst" >>}
  BY DEF Fetched, Stopped
<1>2. \/ v.alarms = {} \/ \E ref, t : v = Fetched(ref, t, "mlite") \/ v = Stopped(ref, t)
  BY DEF MliteMonitored, MliteTold
<1> HIDE DEF v
<1>3. v.alarms \subseteq {<< "mlite", "inst" >>, << "mlite", "empty" >>}
  BY <1>1, <1>2
<1> QED BY <1>3 DEF v

\* A step that the model of PSX_TOP follows.
LEMMA PsxStep ==
    ASSUME CpuType, QueueInv, PsxInv, NEW ins \in Program, Execute(ins), Untouched(PsxData)'
    PROVE  LET v == PsxMonitored(ins)
           IN /\ Holds(s)' /\ Agree(refQ', dutQ') /\ refQ'["data"] = << >>
              /\ v.alarms \subseteq {<< "psx", "data" >>, << "psx", "inst" >>}
              /\ ~CauseOf(ins).zero => << "psx", "data" >> \notin v.alarms
              /\ Untouched(PsxData \cup Control)'
                   => /\ << "psx", "inst" >> \notin v.alarms
                      /\ s'.dlySlot = d'.slot /\ Promises(refQ, s)'
<1> DEFINE f == Switch(Fresh(s, d.pc), ins, d.pc, Ptr(s, ins), RdData(ins))
           p == cpuCycle(s, d.pc, ins, RdData(ins)).push
           y == Retired(s, f, ins, d.pc)
           e == CpuEvents(ins)
           v == PsxMonitored(ins)
<1>1. /\ ins \in Instr /\ d' = CpuNext(d, ins)
      /\ s' = cpuCycle(s, d.pc, ins, RdData(ins)).state
      /\ refQ' = v.ref /\ dutQ' = v.dut
      /\ \A K : Untouched(K)' => Untouched(K) /\ CausesOf(ins) \cap K = {}
  BY ExecuteParts
<1>2. Untouched(PsxData) /\ CausesOf(ins) \cap PsxData = {}
  BY <1>1
<1>3. Followed(ins) /\ ins.op \notin Known
  BY <1>1, <1>2, FollowedHere DEF PsxData
<1>4. ~CauseOf(ins).sign /\ ~CauseOf(ins).half
  <2>1. {"sign", "half"} \subseteq DOMAIN CauseOf(ins)
    BY DEF CauseOf
  <2> QED BY <1>2, <2>1, NoCause DEF PsxData
<1>5. Synced(s, refQ) /\ Seen(dutQ) /\ Holds(s) /\ Agree(refQ, dutQ) /\ refQ["data"] = << >>
  BY <1>2 DEF QueueInv, PsxInv, Untouched, PsxData, Unpredicted
<1>6. DOMAIN f = EFields /\ s' = y /\ Pushed(p, f, Predicted(s, f, ins, d.pc))
  BY <1>1, <1>3, <1>5, PsxCalled
<1>7. /\ AllFollow(f, ins, d.pc) /\ OneEach(f.data, e["data"])
      /\ ~CauseOf(ins).zero => f.data = e["data"]
  BY <1>3, <1>4, <1>5, PsxSwitchFollows
<1>8. OneSeen(e, d.pc)
  BY EventsSeen
<1>9. v = Monitored(Join(refQ, p), Join(dutQ, e))
  BY DEF PsxMonitored
<1> HIDE DEF f, p, v
<1>10. Keeps(ins, s, refQ, y, v, f.data = e["data"])
  <2>1. \A k \in Regs : e[k] = CpuEvents(ins)[k]
    OBVIOUS
  <2> HIDE DEF e
  <2>2. Keeps(ins, s, refQ, y, Monitored(Join(refQ, p), Join(dutQ, e)), f.data = e["data"])
    BY <1>1, <1>3, <1>5, <1>6, <1>7, <1>8, <2>1, FollowStep
  <2> QED BY <1>9, <2>2
<1>11. Untouched(PsxData \cup Control)' => InStep(ins, s, refQ)
  <2> SUFFICES ASSUME Untouched(PsxData \cup Control)' PROVE InStep(ins, s, refQ)
    OBVIOUS
  <2>1. Untouched(PsxData \cup Control) /\ CausesOf(ins) \cap (PsxData \cup Control) = {}
    BY <1>1
  <2>2. {"slot", "region"} \subseteq DOMAIN CauseOf(ins)
    BY DEF CauseOf
  <2>3. ~CauseOf(ins).slot /\ ~CauseOf(ins).region
    BY <2>1, <2>2, NoCause DEF Control
  <2> QED BY <2>1, <2>3 DEF InStep, PsxInv
<1> HIDE DEF y
<1>12. Holds(s)'
  BY <1>6, <1>10 DEF Holds, Keeps, Retains
<1>13. Promises(refQ, s)' <=> v.ref["inst"] = IF y.dlySlot THEN << d'.pc, d'.npc >> ELSE << d'.pc >>
  BY <1>1, <1>6 DEF Promises
<1> QED BY <1>1, <1>6, <1>7, <1>10, <1>11, <1>12, <1>13 DEF v, Keeps

LEMMA PsxExecute ==
    ASSUME CpuType, QueueInv, PsxInv, NEW ins \in Program, Execute(ins)
    PROVE  PsxInv'
<1> DEFINE v == PsxMonitored(ins)
           w == MliteMonitored(ins)
<1>1. /\ refQ' = v.ref /\ dutQ' = v.dut
      /\ alarms' = alarms \cup v.alarms \cup w.alarms
      /\ \A K : Untouched(K)' => Untouched(K) /\ CausesOf(ins) \cap K = {}
  BY ExecuteParts
<1>2. Seen(v.dut) /\ v.alarms \subseteq {<< "psx", "data" >>, << "psx", "inst" >>, << "psx", "empty" >>}
  BY EventsSeen, MonitorSees DEF PsxInv, PsxMonitored
<1>3. Untouched(PsxData)' => Holds(s)' /\ Agree(refQ, dutQ)' /\ refQ'["data"] = << >>
  <2> SUFFICES ASSUME Untouched(PsxData)'
               PROVE  Holds(s)' /\ Agree(refQ, dutQ)' /\ refQ'["data"] = << >>
    OBVIOUS
  <2>1. Holds(s)' /\ Agree(refQ', dutQ') /\ refQ'["data"] = << >>
    BY PsxStep
  <2> QED BY <2>1 DEF Agree
<1>4. Untouched(PsxData \cup Control)' => s'.dlySlot = d'.slot /\ Promises(refQ, s)'
  <2> SUFFICES ASSUME Untouched(PsxData \cup Control)' PROVE s'.dlySlot = d'.slot /\ Promises(refQ, s)'
    OBVIOUS
  <2>1. Untouched(PsxData)'
    BY DEF Untouched
  <2> QED BY <2>1, PsxStep
<1>5. ASSUME NEW k \in alarms', k[1] = "psx", Untouched(Excuse(k))' PROVE FALSE
  <2>1. Untouched(Excuse(k))
    BY <1>1, <1>5
  <2>2. k \in v.alarms
    <3>1. k \notin alarms
      BY <1>5, <2>1 DEF PsxInv, PsxNoFalseAlarm
    <3>2. k \notin w.alarms
      BY <1>5, MliteNamed
    <3> QED BY <1>1, <1>5, <3>1, <3>2
  <2>3. CASE k = << "psx", "empty" >>
    <3>1. Untouched(Unpredicted)'
      BY <1>5, <2>3 DEF Excuse
    <3>2. QueueInv'
      BY QueueExecute
    <3> QED BY <1>5, <2>3, <3>1, <3>2 DEF QueueInv
  <2>4. CASE k = << "psx", "inst" >>
    <3>1. Untouched(PsxData \cup Control)'
      BY <1>5, <2>4 DEF Excuse
    <3>2. Untouched(PsxData)'
      BY <3>1 DEF Untouched
    <3> QED BY <2>2, <2>4, <3>1, <3>2, PsxStep
  <2>5. CASE k = << "psx", "data" >>
    <3>1. Untouched(PsxData \cup {"zero"})'
      BY <1>5, <2>5 DEF Excuse
    <3>2. Untouched(PsxData)' /\ CausesOf(ins) \cap {"zero"} = {}
      BY <1>1, <3>1 DEF Untouched
    <3>3. ~CauseOf(ins).zero
      <4>1. "zero" \in DOMAIN CauseOf(ins)
        BY DEF CauseOf
      <4> QED BY <3>2, <4>1, NoCause
    <3> QED BY <2>2, <2>5, <3>2, <3>3, PsxStep
  <2> QED BY <1>2, <2>2, <2>3, <2>4, <2>5
<1>6. Seen(dutQ)'
  BY <1>1, <1>2 DEF Seen
<1>7. PsxNoFalseAlarm'
  BY <1>5 DEF PsxNoFalseAlarm
<1> QED BY <1>3, <1>4, <1>6, <1>7 DEF PsxInv

\* The checkers of the registers pop equal heads of equal queues.
LEMMA RegisteredFacts ==
    ASSUME NEW ref, NEW dut
    PROVE  LET v == Registered(ref, dut)
           IN /\ v.ref["inst"] = ref["inst"] /\ v.ref["data"] = ref["data"]
              /\ Seen(dut) => Seen(v.dut)
              /\ Agree(ref, dut) => Agree(v.ref, v.dut) /\ v.alarms = {}
<1> DEFINE ready == {k \in Regs : ref[k] # << >> /\ dut[k] # << >>}
           v == Registered(ref, dut)
<1>1. /\ v.ref = [k \in Streams |-> IF k \in ready THEN Tail(ref[k]) ELSE ref[k]]
      /\ v.dut = [k \in Streams |-> IF k \in ready THEN Tail(dut[k]) ELSE dut[k]]
      /\ v.alarms = {<< "psx", k >> : k \in {j \in ready : ref[j][1] # dut[j][1]}}
  BY DEF Registered, Regs
<1> HIDE DEF v
<1>2. "inst" \notin ready /\ "data" \notin ready /\ ready \subseteq Regs
  BY DEF Regs
<1> HIDE DEF ready
<1>3. /\ v.ref["inst"] = ref["inst"] /\ v.ref["data"] = ref["data"]
      /\ v.dut["inst"] = dut["inst"] /\ v.dut["data"] = dut["data"] /\ DOMAIN v.dut = Streams
  BY <1>1, <1>2 DEF Streams
<1>4. ASSUME Agree(ref, dut) PROVE Agree(v.ref, v.dut) /\ v.alarms = {}
  <2>1. \A k \in Regs : ref[k] = dut[k] /\ k \in Streams
    BY <1>4 DEF Agree, Regs, Streams
  <2>2. \A k \in Regs : v.ref[k] = v.dut[k]
    BY <1>1, <2>1
  <2>3. {j \in ready : ref[j][1] # dut[j][1]} = {}
    BY <1>2, <2>1
  <2> QED BY <1>1, <1>3, <1>4, <2>2, <2>3 DEF Agree
<1> QED BY <1>3, <1>4 DEF Seen, v

LEMMA CheckParts ==
    ASSUME CheckRegisters
    PROVE  /\ d' = d /\ s' = s /\ m' = m /\ c' = c /\ tracing' = tracing
           /\ image' = image /\ causes' = causes /\ mliteQ' = mliteQ /\ mdutQ' = mdutQ
           /\ refQ' = Registered(refQ, dutQ).ref /\ dutQ' = Registered(refQ, dutQ).dut
           /\ alarms' = alarms \cup Registered(refQ, dutQ).alarms
BY DEF CheckRegisters, Popped

LEMMA CheckMliteParts ==
    ASSUME NEW j, CheckMlite(j)
    PROVE  /\ d' = d /\ s' = s /\ m' = m /\ c' = c /\ tracing' = tracing
           /\ image' = image /\ causes' = causes /\ refQ' = refQ /\ dutQ' = dutQ
           /\ mdutQ[j] # << >> /\ Pops(Observed(mliteQ, mdutQ, j), mliteQ, mdutQ, j)
           /\ mliteQ' = Observed(mliteQ, mdutQ, j).ref /\ mdutQ' = Observed(mliteQ, mdutQ, j).dut
           /\ alarms' = alarms \cup Observed(mliteQ, mdutQ, j).alarms
<1>1. Pops(Observed(mliteQ, mdutQ, j), mliteQ, mdutQ, j)
  BY ObservedPops
<1> QED BY <1>1 DEF CheckMlite, Popped

LEMMA PsxCheckRegisters ==
    ASSUME PsxInv, CheckRegisters
    PROVE  PsxInv'
<1> DEFINE v == Registered(refQ, dutQ)
<1>1. /\ d' = d /\ s' = s /\ causes' = causes /\ refQ' = v.ref /\ dutQ' = v.dut
      /\ alarms' = alarms \cup v.alarms
  BY CheckParts
<1>2. /\ v.ref["inst"] = refQ["inst"] /\ Seen(v.dut)
      /\ v.ref["data"] = refQ["data"]
      /\ Agree(refQ, dutQ) => Agree(v.ref, v.dut) /\ v.alarms = {}
  BY RegisteredFacts DEF PsxInv
<1>3. \A k \in v.alarms : k[1] = "psx" /\ k[2] \in Regs
  BY PsxNamed
<1> HIDE DEF v
<1>4. Seen(dutQ)' /\ (Untouched(PsxData)' => Agree(refQ, dutQ)' /\ refQ'["data"] = << >>)
  BY <1>1, <1>2 DEF PsxInv, Seen, Agree, Untouched
<1>5. Untouched(PsxData)' => Holds(s)'
  BY <1>1 DEF PsxInv, Holds, Untouched
<1>6. Untouched(PsxData \cup Control)' => s'.dlySlot = d'.slot /\ Promises(refQ, s)'
  BY <1>1, <1>2 DEF PsxInv, Promises, Untouched
<1>7. ASSUME NEW k \in alarms', k[1] = "psx", Untouched(Excuse(k))' PROVE FALSE
  <2>1. k \in alarms => FALSE
    BY <1>1, <1>7 DEF PsxInv, PsxNoFalseAlarm, Untouched
  <2>2. k \in v.alarms
    BY <1>1, <1>3, <1>7, <2>1
  <2>3. k[2] \notin {"inst", "data", "empty"}
    BY <1>3, <2>2 DEF Regs
  <2>4. Excuse(k) = PsxData
    BY <1>7, <2>3 DEF Excuse
  <2>5. Untouched(PsxData)
    BY <1>1, <1>7, <2>4 DEF Untouched
  <2> QED BY <1>2, <2>2, <2>5 DEF PsxInv
<1>8. PsxNoFalseAlarm'
  BY <1>7 DEF PsxNoFalseAlarm
<1> QED BY <1>4, <1>5, <1>6, <1>8 DEF PsxInv

\* The checkers of the other monitor leave those of PSX_TOP alone.
LEMMA PsxCheckMlite ==
    ASSUME PsxInv, NEW j, CheckMlite(j)
    PROVE  PsxInv'
<1> DEFINE v == Observed(mliteQ, mdutQ, j)
<1>1. /\ d' = d /\ s' = s /\ causes' = causes /\ refQ' = refQ /\ dutQ' = dutQ
      /\ alarms' = alarms \cup v.alarms /\ Pops(v, mliteQ, mdutQ, j)
  BY CheckMliteParts
<1> HIDE DEF v
<1>2. \A k \in v.alarms : k[1] = "mlite"
  BY <1>1 DEF Pops
<1>3. PsxNoFalseAlarm'
  BY <1>1, <1>2 DEF PsxInv, PsxNoFalseAlarm, Untouched
<1> QED BY <1>1, <1>3 DEF PsxInv, Seen, Untouched, Holds, Agree, Promises

\* The model of PSX_TOP keeps in step with the CPU, whatever the program: its
\* state, what it has promised to fetch, and the agreement of every checker
\* that has no cause to differ.
THEOREM PsxInvariant == Spec => []PsxInv
<1>1. CpuType /\ QueueInv /\ PsxInv /\ [Next]_vars => PsxInv'
  <2> SUFFICES ASSUME CpuType, QueueInv, PsxInv, [Next]_vars PROVE PsxInv'
    OBVIOUS
  <2>1. ASSUME NEW ins \in Program, Execute(ins) PROVE PsxInv'
    BY <2>1, PsxExecute
  <2>2. CASE CheckRegisters
    BY <2>2, PsxCheckRegisters
  <2>3. ASSUME NEW k, CheckMlite(k) PROVE PsxInv'
    BY <2>3, PsxCheckMlite
  <2>4. CASE UNCHANGED vars
    BY <2>4 DEF vars, PsxInv, Seen, Untouched, Holds, Agree, Promises, PsxNoFalseAlarm
  <2> QED BY <2>1, <2>2, <2>3, <2>4 DEF Next
<1> QED BY <1>1, PsxInvInit, CpuTypeCorrect, QueueInvariant, PTL DEF Spec

\* Whatever the program, the monitor of PSX_TOP reports no fetch, access or
\* write of a correct CPU, until the program does what the checker that reports
\* it is known not to follow.
THEOREM PsxNoFalseAlarmCorrect == Spec => []PsxNoFalseAlarm
<1>1. PsxInv => PsxNoFalseAlarm
  BY DEF PsxInv
<1> QED BY <1>1, PsxInvariant, PTL

LEMMA HeldRegisters ==
    ASSUME NEW x, Holds(x), CpuType
    PROVE  SameRegisters(x)
BY DEF Holds, CpuType, SameRegisters

\* Whatever the program, cpuCycle (mips1_core_model.c) holds the registers of
\* the CPU between two calls, and its queue the fetches that come next.
THEOREM PsxFollowsCorrect == Spec => []PsxFollows
<1>1. CpuType /\ PsxInv => PsxFollows
  BY HeldRegisters DEF PsxInv, PsxFollows
<1> QED BY <1>1, CpuTypeCorrect, PsxInvariant, PTL

----------------------------------------------------------------------------
(***************************************************************************)
(* The model of MIPS1_CORE.  It starts at address 0, as MIPS1_CORE does:   *)
(* only then are its promises those of the CPU.                            *)
(***************************************************************************)

\* The inductive invariant, with CpuType and QueueInv: the memory of the model
\* is the CPU's, where that was zero, for what it loads to be what the CPU loads.
MliteInv ==
    /\ Shown(mdutQ)
    /\ Untouched(MliteData) => Holds(m.cpu) /\ Agree(mliteQ, mdutQ) /\ MemHolds(m.mem)
    /\ Untouched(MliteData \cup {"lane"}) => mliteQ["data"] = mdutQ["data"]
    /\ ResetVector = 0 =>
         /\ Untouched(MliteData \cup MliteControl) => m.cpu.dlySlot = d.slot /\ Promises(mliteQ, m.cpu)
         /\ MliteNoFalseAlarm

LEMMA MliteInvInit == Init => MliteInv
<1> SUFFICES ASSUME Init PROVE MliteInv
  OBVIOUS
<1> HIDE DEF W
<1>1. /\ mliteQ = [Empty EXCEPT !.inst = << 0 >>] /\ mdutQ = Empty
      /\ m = mliteInit /\ alarms = {}
      /\ d.pc = ResetVector /\ d.slot = FALSE /\ d.r = [i \in GPR |-> 0] /\ d.lo = 0 /\ d.hi = 0
      /\ d.mem = image
  BY DEF Init
<1>2. /\ Shown(mdutQ) /\ Agree(mliteQ, mdutQ) /\ mliteQ["inst"] = << 0 >>
      /\ mliteQ["data"] = mdutQ["data"]
  BY <1>1 DEF Shown, Agree, Regs, Empty, Streams
<1>3. m.cpu.r = d.r /\ m.cpu.lo = 0 /\ m.cpu.hi = 0 /\ m.cpu.dlySlot = FALSE
  BY <1>1 DEF mliteInit, cpuInit
<1>4. Holds(m.cpu)
  BY <1>1, <1>3, RegAssumption DEF Holds
<1>5. MemHolds(m.mem)
  <2>1. m.mem = [a \in MemWords |-> 0]
    BY <1>1 DEF mliteInit, MemWords
  <2>2. 0 \in Word
    BY WordFacts DEF Word
  <2> QED BY <1>1, <2>1, <2>2 DEF MemHolds
<1>6. ResetVector = 0 => m.cpu.dlySlot = d.slot /\ Promises(mliteQ, m.cpu)
  BY <1>1, <1>2, <1>3 DEF Promises
<1>7. MliteNoFalseAlarm
  BY <1>1 DEF MliteNoFalseAlarm
<1> QED BY <1>2, <1>4, <1>5, <1>6, <1>7 DEF MliteInv

LEMMA MliteCalled ==
    ASSUME Synced(m.cpu, mliteQ), NEW ins, ins.op \notin Known, NEW pc
    PROVE  LET f == MliteSwitch(Fresh(m.cpu, pc), ins, pc, m)
               v == mliteCycle(m, pc, ins)
           IN /\ DOMAIN f = EFields
              /\ v.state.cpu = Retired(m.cpu, f, ins, pc)
              /\ v.state.mem = Stored(ins, m, Fresh(m.cpu, pc))
              /\ Pushed(v.push, f, Predicted(m.cpu, f, ins, pc))
<1> DEFINE f == MliteSwitch(Fresh(m.cpu, pc), ins, pc, m)
           v == mliteCycle(m, pc, ins)
<1>1. Quiet(f)
  BY QuietFresh, QuietMliteSwitch
<1>2. ~m.cpu.skip /\ ~f.exc /\ DOMAIN f = EFields
  BY <1>1 DEF Synced, Quiet
<1>3. /\ v.state.cpu = Retired(m.cpu, f, ins, pc)
      /\ v.state.mem = Stored(ins, m, Fresh(m.cpu, pc))
      /\ v.push["inst"] = Predicted(m.cpu, f, ins, pc) /\ v.push["data"] = f.data
      /\ v.push["reg"] = f.regs /\ v.push["lo"] = f.los /\ v.push["hi"] = f.his
  BY <1>2 DEF mliteCycle
<1> HIDE DEF f, v
<1>4. Pushed(v.push, f, Predicted(m.cpu, f, ins, pc))
  BY <1>3 DEF Pushed
<1> QED BY <1>2, <1>3, <1>4 DEF f, v

\* Causes of this model that an instruction is not.
MliteClear(ins) == ~CauseOf(ins).alias /\ ~CauseOf(ins).image /\ ~CauseOf(ins).mliteZero

LEMMA MliteClearHere ==
    ASSUME NEW ins, CausesOf(ins) \cap MliteData = {}
    PROVE  MliteClear(ins)
<1>1. {"alias", "image", "mliteZero"} \subseteq DOMAIN CauseOf(ins)
  BY DEF CauseOf
<1> QED BY <1>1, NoCause DEF MliteData, MliteClear

\* The address, for an access.
LEMMA MlitePointer ==
    ASSUME CpuType, NEW x, Holds(x), NEW ins, Followed(ins), IsAccess(ins),
           ins.rs = 0 => x.r[0] = 0
    PROVE  Ptr(x, ins) = CpuAddress(d, ins)
BY PointerFollows DEF Followed

LEMMA MliteOther ==
    ASSUME NEW ins, Followed(ins), ~IsAccess(ins), NEW e, NEW pc, NEW x
    PROVE  SimSwitch(e, ins, pc, x) = Switch(e, ins, pc, 0, 0) /\ ~IsStore(ins)
<1>1. ins.op \notin LoadOps \cup StoreOps
  BY DEF IsAccess
<1>2. ins.op \notin {"LWL", "LWR", "LL", "SWL", "SC"} \cup Cop0Ops
  BY DEF Followed, CauseOf, Unsupported
<1>3. ~IsLoad(ins) /\ ~IsStore(ins)
  BY <1>1, <1>2 DEF IsLoad, IsStore
<1> QED BY <1>2, <1>3 DEF SimSwitch

LEMMA SimSwitchFollows ==
    ASSUME CpuType, NEW ins, Followed(ins), NEW x, Holds(x.cpu), MemHolds(x.mem), NEW p,
           Links(ins) => p = d.pc, ~CauseOf(ins).alias, ~CauseOf(ins).image,
           IsAccess(ins) /\ ins.rs = 0 => x.cpu.r[0] = 0
    PROVE  LET f == SimSwitch(Fresh(x.cpu, p), ins, p, x)
               v == Valued(CpuEvents(ins), ins)
           IN /\ AllFollow(f, ins, p)
              /\ OneEach(f.data, v["data"])
              /\ ~CauseOf(ins).lane => f.data = v["data"]
<1> DEFINE e == Fresh(x.cpu, p)
           f == SimSwitch(e, ins, p, x)
           v == Valued(CpuEvents(ins), ins)
<1>1. Start(e, p)
  BY FreshStart
<1> HIDE DEF e
<1>2. CASE ~IsAccess(ins)
  <2>1. AllFollow(f, ins, p) /\ f.data = << >>
    <3>1. f = Switch(e, ins, p, 0, 0)
      BY <1>2, MliteOther
    <3> QED BY <1>1, <1>2, <3>1, SwitchFollows
  <2>2. v.data = CpuData(d, ins)
    BY <1>2, ValuedAccess DEF IsAccess
  <2>3. CpuData(d, ins) = << >>
    BY <1>2 DEF CpuData, IsAccess
  <2>4. AllFollow(f, ins, p) /\ OneEach(f.data, v["data"]) /\ f.data = v["data"]
    <3> HIDE DEF f, v
    <3> QED BY <2>1, <2>2, <2>3 DEF OneEach
  <2> QED BY <2>4 DEF e
<1>3. CASE IsAccess(ins)
  <2>1. Ptr(x.cpu, ins) = CpuAddress(d, ins)
    BY <1>3, MlitePointer
  <2>2. /\ AllFollow(f, ins, p)
        /\ \E y, z : f.data = << y >> /\ v.data = << z >>
        /\ ~CauseOf(ins).lane => f.data = v.data
    BY <1>1, <1>3, <2>1, MliteAccessFollows
  <2>3. /\ AllFollow(f, ins, p) /\ OneEach(f.data, v["data"])
        /\ ~CauseOf(ins).lane => f.data = v["data"]
    <3> HIDE DEF f, v
    <3> QED BY <2>2 DEF OneEach
  <2> QED BY <2>3 DEF e
<1> QED BY <1>2, <1>3

\* The call from the test bench differs in where a jump goes.
LEMMA MliteSwitchFollows ==
    ASSUME CpuType, NEW ins, Followed(ins), Holds(m.cpu), MemHolds(m.mem),
           ~CauseOf(ins).alias, ~CauseOf(ins).image,
           IsAccess(ins) /\ ins.rs = 0 => m.cpu.r[0] = 0, ins.op \notin Known
    PROVE  LET f == MliteSwitch(Fresh(m.cpu, d.pc), ins, d.pc, m)
               v == Valued(CpuEvents(ins), ins)
           IN /\ Computes(f, ins) /\ Pushes(f, ins)
              /\ ~CauseOf(ins).far => Goes(f, ins, d.pc)
              /\ ~CauseOf(ins).lane => f.data = v["data"]
<1> DEFINE e == Fresh(m.cpu, d.pc)
           g == SimSwitch(e, ins, d.pc, m)
           f == MliteSwitch(e, ins, d.pc, m)
           v == Valued(CpuEvents(ins), ins)
<1>1. AllFollow(g, ins, d.pc) /\ (~CauseOf(ins).lane => g.data = v["data"])
  BY SimSwitchFollows
<1>2. DOMAIN g = EFields
  BY QuietFresh, QuietMliteSwitch DEF Quiet
<1>3. f = IF Absolute(ins) THEN [g EXCEPT !.next = SignedTarget(d.pc, ins.imm)] ELSE g
  BY DEF MliteSwitch
<1> HIDE DEF e, f, g, v
<1>4. CASE ~Absolute(ins)
  BY <1>1, <1>3, <1>4 DEF AllFollow, e, f, g, v
<1>5. CASE Absolute(ins)
  <2>1. /\ f.r = g.r /\ f.lo = g.lo /\ f.hi = g.hi /\ f.regs = g.regs /\ f.los = g.los /\ f.his = g.his
        /\ f.data = g.data /\ f.lbranch = g.lbranch /\ f.exc = g.exc /\ f.jump = g.jump
        /\ f.branch = g.branch /\ f.next = SignedTarget(d.pc, ins.imm)
    BY <1>2, <1>3, <1>5 DEF EFields
  <2>2. Computes(f, ins) /\ Pushes(f, ins)
    BY <1>1, <2>1 DEF AllFollow, Computes, Pushes
  <2>3. ASSUME ~CauseOf(ins).far PROVE Goes(f, ins, d.pc)
    <3>1. SignedTarget(d.pc, ins.imm) = Regional(d.pc, ins.imm)
      BY <1>5, <2>3 DEF CauseOf
    <3>2. Jumps(ins) /\ ins.op \in {"J", "JAL"}
      BY <1>5 DEF Absolute, Jumps
    <3> QED BY <1>1, <2>1, <3>1, <3>2 DEF AllFollow, Goes
  <2> QED BY <1>1, <2>1, <2>2, <2>3 DEF e, f, g, v
<1> QED BY <1>4, <1>5

\* What is stored is what the CPU stores.
LEMMA MliteStored ==
    ASSUME CpuType, NEW ins, Followed(ins), NEW x, Holds(x.cpu), MemHolds(x.mem), NEW p,
           ~CauseOf(ins).alias, IsAccess(ins) /\ ins.rs = 0 => x.cpu.r[0] = 0,
           d' = CpuNext(d, ins), image' = image
    PROVE  LET y == Stored(ins, x, Fresh(x.cpu, p))
           IN y \in [MemWords -> Word] /\ \A i \in MemWords : image[i] = 0 => y[i] = d'.mem[i]
<1> DEFINE y == Stored(ins, x, Fresh(x.cpu, p))
           n == Size(ins.op)
           a == CpuAddress(d, ins)
<1>1. y = IF ins.op \in StoreOps THEN mem_write(x.mem, n, a, d.r[ins.rt]) ELSE x.mem
  <2>1. CASE ins.op \in StoreOps
    <3>1. IsAccess(ins) /\ IsStore(ins)
      BY <2>1 DEF IsAccess, IsStore
    <3>2. Ptr(x.cpu, ins) = a
      BY <3>1, MlitePointer
    <3>3. Aligned(n, a)
      BY <3>1, AddressFacts DEF Aligned, Followed
    <3>4. Fresh(x.cpu, p).r = d.r
      BY FreshStart DEF Start
    <3> HIDE DEF n, a
    <3> QED BY <2>1, <3>1, <3>2, <3>3, <3>4 DEF Stored, n
  <2>2. CASE ins.op \notin StoreOps
    <3>1. ~IsStore(ins)
      BY <2>2 DEF Followed, CauseOf, Unsupported, IsStore
    <3> QED BY <2>2, <3>1 DEF Stored
  <2> QED BY <2>1, <2>2
<1> HIDE DEF y
<1>2. y \in [MemWords -> Word] /\ \A i \in MemWords : image[i] = 0 => y[i] = d'.mem[i]
  BY <1>1, MemoryWritten
<1> QED BY <1>2 DEF y

\* What that monitor sees of an instruction, the model following or not.
LEMMA ValuedSeen ==
    ASSUME NEW ins
    PROVE  OneSeen(Valued(CpuEvents(ins), ins), d.pc)
<1> DEFINE q == CpuEvents(ins)
           w == d.mem[Align(CpuAddress(d, ins))]
<1>1. CASE ins.op \notin LoadOps \/ CpuTraps(d, ins)
  BY <1>1, EventsSeen DEF Valued
<1>2. CASE ins.op \in LoadOps /\ ~CpuTraps(d, ins)
  <2>1. Valued(q, ins) = [q EXCEPT !.data = [q.data EXCEPT ![1] = [q.data[1] EXCEPT !.value = w]]]
    BY <1>2 DEF Valued
  <2>2. \E z : q.data = << z >>
    BY <1>2 DEF CpuEvents, CpuData
  <2>3. PICK z : q.data = << z >>
    BY <2>2
  <2>4. \A o : [<< z >> EXCEPT ![1] = o] = << o >>
    OBVIOUS
  <2>5. Valued(q, ins) = [q EXCEPT !.data = << [z EXCEPT !.value = w] >>]
    <3>1. q.data[1] = z
      BY <2>3
    <3> QED BY <2>1, <2>3, <2>4, <3>1
  <2> HIDE DEF q
  <2>6. OneSeen(q, d.pc)
    BY EventsSeen DEF q
  <2> QED BY <2>5, <2>6 DEF OneSeen, Streams, q
<1> QED BY <1>1, <1>2

\* Equal queues stay equal when the same is added to both.
LEMMA EqualJoin ==
    ASSUME NEW q, NEW t, q = t, NEW a, NEW b, a = b
    PROVE  q \o a = t \o b
OBVIOUS

\* A step that the model of MIPS1_CORE follows.
LEMMA MliteStep ==
    ASSUME CpuType, QueueInv, MliteInv, NEW ins \in Program, Execute(ins), Untouched(MliteData)'
    PROVE  /\ Holds(m.cpu)' /\ Agree(mliteQ', mdutQ') /\ MemHolds(m.mem)'
           /\ Untouched(MliteData \cup {"lane"})' => mliteQ'["data"] = mdutQ'["data"]
           /\ ResetVector = 0 /\ Untouched(MliteData \cup MliteControl)'
                => /\ MliteMonitored(ins).alarms = {}
                   /\ m'.cpu.dlySlot = d'.slot /\ Promises(mliteQ, m.cpu)'
<1> DEFINE f == MliteSwitch(Fresh(m.cpu, d.pc), ins, d.pc, m)
           p == mliteCycle(m, d.pc, ins).push
           y == Retired(m.cpu, f, ins, d.pc)
           e == Valued(CpuEvents(ins), ins)
           v == MliteMonitored(ins)
<1>1. /\ ins \in Instr /\ d' = CpuNext(d, ins) /\ image' = image
      /\ m' = MliteTold(ins, e).model
      /\ mliteQ' = v.ref /\ mdutQ' = v.dut
      /\ \A K : Untouched(K)' => Untouched(K) /\ CausesOf(ins) \cap K = {}
  BY ExecuteParts
<1>2. Untouched(MliteData) /\ CausesOf(ins) \cap MliteData = {}
  BY <1>1
<1>3. Followed(ins) /\ ins.op \notin Known
  BY <1>1, <1>2, FollowedHere DEF MliteData
<1>4. /\ ~CauseOf(ins).alias /\ ~CauseOf(ins).image
      /\ IsAccess(ins) /\ ins.rs = 0 => m.cpu.r[0] = 0
  <2>1. MliteClear(ins)
    BY <1>2, MliteClearHere
  <2> QED BY <2>1 DEF MliteClear, CauseOf
<1>5. /\ Synced(m.cpu, mliteQ) /\ Shown(mdutQ) /\ Holds(m.cpu) /\ Agree(mliteQ, mdutQ)
      /\ MemHolds(m.mem) /\ tracing = TRUE
  BY <1>2 DEF QueueInv, MliteInv, Untouched, MliteData, Unpredicted
<1>6. m' = mliteCycle(m, d.pc, ins).state /\ v = Fetched(Join(mliteQ, p), Join(mdutQ, e), "mlite")
  <2>1. ins.op # "BREAK"
    BY <1>3 DEF Known
  <2> QED BY <1>1, <1>5, <2>1, MliteCalls
<1>7. /\ m'.cpu = y /\ Pushed(p, f, Predicted(m.cpu, f, ins, d.pc))
      /\ m'.mem = Stored(ins, m, Fresh(m.cpu, d.pc))
  BY <1>3, <1>5, <1>6, MliteCalled
<1>8. /\ Computes(f, ins) /\ Pushes(f, ins)
      /\ ~CauseOf(ins).far => Goes(f, ins, d.pc)
      /\ ~CauseOf(ins).lane => f.data = e["data"]
  BY <1>3, <1>4, <1>5, MliteSwitchFollows
<1>9. Quiet(f)
  BY <1>3, QuietFresh, QuietMliteSwitch
<1>10. OneSeen(e, d.pc) /\ \A k \in Regs : e[k] = CpuEvents(ins)[k]
  <2>1. \A k \in Streams \ {"data"} : e[k] = CpuEvents(ins)[k]
    BY <1>3, ValuedAccess
  <2>2. OneSeen(e, d.pc)
    BY ValuedSeen
  <2> HIDE DEF e
  <2> QED BY <2>1, <2>2 DEF Streams, Regs
<1> HIDE DEF f, p, v
<1>11. MliteKeeps(ins, m.cpu, mliteQ, mdutQ, f, e, y, v)
  <2> HIDE DEF e
  <2>1. MliteKeeps(ins, m.cpu, mliteQ, mdutQ, f, e, y, Fetched(Join(mliteQ, p), Join(mdutQ, e), "mlite"))
    BY <1>1, <1>3, <1>5, <1>7, <1>8, <1>9, <1>10, MliteFollowStep
  <2> QED BY <1>6, <2>1
<1>12. ResetVector = 0 /\ Untouched(MliteData \cup MliteControl)'
         => InStep(ins, m.cpu, mliteQ) /\ Goes(f, ins, d.pc)
  <2> SUFFICES ASSUME ResetVector = 0, Untouched(MliteData \cup MliteControl)'
               PROVE  InStep(ins, m.cpu, mliteQ) /\ Goes(f, ins, d.pc)
    OBVIOUS
  <2>1. /\ Untouched(MliteData \cup MliteControl)
        /\ CausesOf(ins) \cap (MliteData \cup MliteControl) = {}
    BY <1>1
  <2>2. {"slot", "region", "far"} \subseteq DOMAIN CauseOf(ins)
    BY DEF CauseOf
  <2>3. ~CauseOf(ins).slot /\ ~CauseOf(ins).region /\ ~CauseOf(ins).far
    BY <2>1, <2>2, NoCause DEF MliteControl, Control
  <2> QED BY <1>8, <2>1, <2>3 DEF InStep, MliteInv
<1>13. MemHolds(m.mem)'
  <2> DEFINE u == Stored(ins, m, Fresh(m.cpu, d.pc))
  <2>1. u \in [MemWords -> Word] /\ \A i \in MemWords : image[i] = 0 => u[i] = d'.mem[i]
    BY <1>1, <1>3, <1>4, <1>5, MliteStored
  <2> HIDE DEF u
  <2>2. m'.mem = u
    BY <1>7 DEF u
  <2> QED BY <1>1, <2>1, <2>2 DEF MemHolds
<1>14. ASSUME Untouched(MliteData \cup {"lane"})' PROVE mliteQ'["data"] = mdutQ'["data"]
  <2>1. Untouched(MliteData \cup {"lane"}) /\ CausesOf(ins) \cap (MliteData \cup {"lane"}) = {}
    BY <1>1, <1>14
  <2>2. "lane" \in DOMAIN CauseOf(ins)
    BY DEF CauseOf
  <2>3. ~CauseOf(ins).lane
    BY <2>1, <2>2, NoCause
  <2>4. mliteQ["data"] = mdutQ["data"]
    BY <2>1 DEF MliteInv
  <2>5. v.ref["data"] = mliteQ["data"] \o f.data /\ v.dut["data"] = mdutQ["data"] \o e["data"]
    BY <1>11 DEF MliteKeeps
  <2>6. f.data = e["data"]
    BY <1>8, <2>3
  <2> HIDE DEF e
  <2> QED BY <1>1, <2>4, <2>5, <2>6, EqualJoin
<1> HIDE DEF y
<1>15. Holds(m.cpu)' /\ Agree(mliteQ', mdutQ')
  BY <1>1, <1>7, <1>11 DEF Holds, MliteKeeps, Retains
<1>16. ASSUME ResetVector = 0, Untouched(MliteData \cup MliteControl)'
       PROVE  /\ v.alarms = {} /\ m'.cpu.dlySlot = d'.slot /\ Promises(mliteQ, m.cpu)'
  <2>1. /\ v.alarms = {} /\ y.dlySlot = d'.slot
        /\ v.ref["inst"] = IF y.dlySlot THEN << d'.pc, d'.npc >> ELSE << d'.pc >>
    BY <1>11, <1>12, <1>16 DEF MliteKeeps
  <2>2. Promises(mliteQ, m.cpu)' <=> v.ref["inst"] = IF y.dlySlot THEN << d'.pc, d'.npc >> ELSE << d'.pc >>
    BY <1>1, <1>7 DEF Promises
  <2> QED BY <1>7, <2>1, <2>2
<1> QED BY <1>13, <1>14, <1>15, <1>16 DEF v

LEMMA MliteShows ==
    ASSUME Shown(mdutQ), NEW ins
    PROVE  Shown(MliteMonitored(ins).dut)
<1> DEFINE e == Valued(CpuEvents(ins), ins)
           dut == Join(mdutQ, e)
           v == MliteMonitored(ins)
<1>1. DOMAIN dut = Streams /\ dut["inst"] = << d.pc >>
  <2>1. OneSeen(e, d.pc)
    BY ValuedSeen
  <2> HIDE DEF e
  <2> QED BY <2>1, ShownJoin
<1>2. \A q : /\ Fetched(q, dut, "mlite").dut = [dut EXCEPT !["inst"] = Tail(dut["inst"])]
             /\ Stopped(q, dut).dut = [dut EXCEPT !["inst"] = Tail(dut["inst"])]
  BY DEF Fetched, Stopped, Compared
<1>3. \/ v.dut = [dut EXCEPT !["inst"] = << >>]
      \/ \E q : v.dut = Fetched(q, dut, "mlite").dut \/ v.dut = Stopped(q, dut).dut
  BY DEF MliteMonitored, MliteTold
<1>4. Tail(<< d.pc >>) = << >>
  OBVIOUS
<1> HIDE DEF dut, v
<1>5. v.dut = [dut EXCEPT !["inst"] = << >>]
  BY <1>1, <1>2, <1>3, <1>4
<1>6. Shown(v.dut)
  BY <1>1, <1>5 DEF Shown, Streams
<1> QED BY <1>6 DEF v

LEMMA MliteExecute ==
    ASSUME CpuType, QueueInv, MliteInv, NEW ins \in Program, Execute(ins)
    PROVE  MliteInv'
<1> DEFINE v == MliteMonitored(ins)
           w == PsxMonitored(ins)
<1>1. /\ mliteQ' = v.ref /\ mdutQ' = v.dut
      /\ alarms' = alarms \cup w.alarms \cup v.alarms
      /\ \A K : Untouched(K)' => Untouched(K) /\ CausesOf(ins) \cap K = {}
  BY ExecuteParts
<1>2. Shown(v.dut) /\ v.alarms \subseteq {<< "mlite", "inst" >>, << "mlite", "empty" >>}
  BY MliteShows, MliteNamed DEF MliteInv
<1>3. Untouched(MliteData)' => Holds(m.cpu)' /\ Agree(mliteQ, mdutQ)' /\ MemHolds(m.mem)'
  <2> SUFFICES ASSUME Untouched(MliteData)' PROVE Holds(m.cpu)' /\ Agree(mliteQ, mdutQ)' /\ MemHolds(m.mem)'
    OBVIOUS
  <2>1. Holds(m.cpu)' /\ Agree(mliteQ', mdutQ') /\ MemHolds(m.mem)'
    BY MliteStep
  <2> QED BY <2>1 DEF Agree, Holds, MemHolds
<1>4. Untouched(MliteData \cup {"lane"})' => mliteQ'["data"] = mdutQ'["data"]
  <2> SUFFICES ASSUME Untouched(MliteData \cup {"lane"})' PROVE mliteQ'["data"] = mdutQ'["data"]
    OBVIOUS
  <2>1. Untouched(MliteData)'
    BY DEF Untouched
  <2> QED BY <2>1, MliteStep
<1>5. ResetVector = 0 /\ Untouched(MliteData \cup MliteControl)'
        => m'.cpu.dlySlot = d'.slot /\ Promises(mliteQ, m.cpu)'
  <2> SUFFICES ASSUME ResetVector = 0, Untouched(MliteData \cup MliteControl)'
               PROVE  m'.cpu.dlySlot = d'.slot /\ Promises(mliteQ, m.cpu)'
    OBVIOUS
  <2>1. Untouched(MliteData)'
    BY DEF Untouched
  <2> QED BY <2>1, MliteStep
<1>6. ASSUME ResetVector = 0, NEW k \in alarms', k[1] = "mlite", Untouched(Excuse(k))' PROVE FALSE
  <2>1. Untouched(Excuse(k))
    BY <1>1, <1>6
  <2>2. k \in v.alarms
    <3>1. k \notin alarms
      BY <1>6, <2>1 DEF MliteInv, MliteNoFalseAlarm
    <3>2. k \notin w.alarms
      BY <1>6, PsxNamed DEF PsxMonitored
    <3> QED BY <1>1, <1>6, <3>1, <3>2
  <2>3. CASE k = << "mlite", "empty" >>
    <3>1. Untouched(Unpredicted)'
      BY <1>6, <2>3 DEF Excuse
    <3>2. QueueInv'
      BY QueueExecute
    <3> QED BY <1>6, <2>3, <3>1, <3>2 DEF QueueInv
  <2>4. CASE k = << "mlite", "inst" >>
    <3>1. Untouched(MliteData \cup MliteControl)'
      BY <1>6, <2>4 DEF Excuse
    <3>2. Untouched(MliteData)'
      BY <3>1 DEF Untouched
    <3> QED BY <1>6, <2>2, <3>1, <3>2, MliteStep
  <2> QED BY <1>2, <2>2, <2>3, <2>4
<1>7. Shown(mdutQ)'
  BY <1>1, <1>2 DEF Shown
<1>8. ResetVector = 0 => MliteNoFalseAlarm'
  BY <1>6 DEF MliteNoFalseAlarm
<1> QED BY <1>3, <1>4, <1>5, <1>7, <1>8 DEF MliteInv

\* The checkers of PSX_TOP leave those of MIPS1_CORE alone.
LEMMA MliteCheckRegisters ==
    ASSUME MliteInv, CheckRegisters
    PROVE  MliteInv'
<1> DEFINE w == Registered(refQ, dutQ)
<1>1. /\ d' = d /\ m' = m /\ image' = image /\ causes' = causes /\ mliteQ' = mliteQ /\ mdutQ' = mdutQ
      /\ alarms' = alarms \cup w.alarms
  BY CheckParts
<1>2. \A k \in w.alarms : k[1] = "psx"
  BY PsxNamed
<1> HIDE DEF w
<1>3. ResetVector = 0 => MliteNoFalseAlarm'
  BY <1>1, <1>2 DEF MliteInv, MliteNoFalseAlarm, Untouched
<1> QED BY <1>1, <1>3 DEF MliteInv, Shown, Untouched, Holds, MemHolds, Agree, Promises

\* The late checkers pop equal heads of equal queues.
LEMMA LateChecks ==
    ASSUME NEW ref, DOMAIN ref = Streams, NEW dut, DOMAIN dut = Streams,
           NEW j \in Late, NEW v, Pops(v, ref, dut, j), NEW k \in Late, ref[k] = dut[k]
    PROVE  v.ref[k] = v.dut[k]
<1>1. v.dut = [dut EXCEPT ![j] = Tail(dut[j])] /\ j \in Streams
  BY DEF Pops, Late, Streams
<1>2. CASE k = j
  <2>1. CASE ref[j] = << >>
    <3>1. v.ref = ref /\ v.dut[j] = Tail(dut[j]) /\ dut[j] = << >>
      BY <1>1, <1>2, <2>1 DEF Pops
    <3> QED BY <1>1, <1>2, <2>1, <3>1
  <2>2. CASE ref[j] # << >>
    <3>1. v.ref = [ref EXCEPT ![j] = Tail(ref[j])]
      BY <2>2 DEF Pops
    <3> QED BY <1>1, <1>2, <3>1
  <2> QED BY <2>1, <2>2
<1>3. CASE k # j
  <2>1. v.ref[k] = ref[k]
    BY <1>3 DEF Pops
  <2> QED BY <1>1, <1>3, <2>1
<1> QED BY <1>2, <1>3

LEMMA MliteCheckMlite ==
    ASSUME QueueInv, MliteInv, NEW j \in Late, CheckMlite(j)
    PROVE  MliteInv'
<1> DEFINE v == Observed(mliteQ, mdutQ, j)
<1>1. /\ d' = d /\ m' = m /\ image' = image /\ causes' = causes
      /\ mdutQ[j] # << >> /\ Pops(v, mliteQ, mdutQ, j)
      /\ mliteQ' = v.ref /\ mdutQ' = v.dut /\ alarms' = alarms \cup v.alarms
  BY CheckMliteParts
<1> HIDE DEF v
<1>2. j # "inst" /\ j \in Streams /\ Shown(mdutQ)
  BY DEF Late, Streams, MliteInv
<1>3. Shown(v.dut)
  BY <1>1, <1>2 DEF Pops, Shown
<1>4. v.ref["inst"] = mliteQ["inst"]
  BY <1>1, <1>2 DEF Pops
<1>5. Untouched(MliteData) => DOMAIN mliteQ = Streams
  BY DEF QueueInv, Synced, Untouched, MliteData, Unpredicted
<1>6. ASSUME Untouched(MliteData), NEW k \in Late, mliteQ[k] = mdutQ[k]
      PROVE  v.ref[k] = v.dut[k]
  BY <1>1, <1>2, <1>5, <1>6, LateChecks DEF Shown
<1>7. Untouched(MliteData) => Agree(v.ref, v.dut)
  BY <1>6 DEF MliteInv, Agree, Late, Regs
<1>8. ASSUME Untouched(MliteData \cup {"lane"}) PROVE v.ref["data"] = v.dut["data"]
  <2>1. Untouched(MliteData) /\ mliteQ["data"] = mdutQ["data"]
    BY <1>8 DEF MliteInv, Untouched
  <2> QED BY <1>6, <2>1 DEF Late
<1>9. ASSUME ResetVector = 0, NEW k \in alarms', k[1] = "mlite", Untouched(Excuse(k)) PROVE FALSE
  <2>1. k \notin alarms
    BY <1>9 DEF MliteInv, MliteNoFalseAlarm
  <2>2. k = << "mlite", j >> /\ v.alarms # {}
    BY <1>1, <1>9, <2>1 DEF Pops
  <2>3. mliteQ[j] # mdutQ[j]
    BY <1>1, <2>2 DEF Pops
  <2>4. CASE j = "data"
    <3>1. Excuse(k) = MliteData \cup {"lane"}
      BY <2>2, <2>4 DEF Excuse
    <3> QED BY <1>9, <2>3, <2>4, <3>1 DEF MliteInv
  <2>5. CASE j \in Regs
    <3>1. Excuse(k) = MliteData
      BY <2>2, <2>5 DEF Excuse, Regs
    <3> QED BY <1>9, <2>3, <2>5, <3>1 DEF MliteInv, Agree
  <2> QED BY <2>4, <2>5 DEF Late, Regs
<1>10. ResetVector = 0 => MliteNoFalseAlarm'
  <2> SUFFICES ASSUME ResetVector = 0, NEW k \in alarms', k[1] = "mlite" PROVE ~Untouched(Excuse(k))'
    BY DEF MliteNoFalseAlarm
  <2>1. ~Untouched(Excuse(k))
    BY <1>9
  <2> QED BY <1>1, <2>1 DEF Untouched
<1>11. Untouched(MliteData)' => Holds(m.cpu)' /\ Agree(mliteQ, mdutQ)' /\ MemHolds(m.mem)'
  BY <1>1, <1>7 DEF MliteInv, Holds, MemHolds, Agree, Untouched
<1>12. ResetVector = 0 /\ Untouched(MliteData \cup MliteControl)'
        => m'.cpu.dlySlot = d'.slot /\ Promises(mliteQ, m.cpu)'
  BY <1>1, <1>4 DEF MliteInv, Promises, Untouched
<1> QED BY <1>1, <1>3, <1>8, <1>10, <1>11, <1>12 DEF MliteInv, Shown, Untouched

\* The model of MIPS1_CORE keeps in step with the CPU in the same way, with
\* the memory of its own, if the program starts at address 0.
THEOREM MliteInvariant == Spec => []MliteInv
<1>1. CpuType /\ QueueInv /\ MliteInv /\ [Next]_vars => MliteInv'
  <2> SUFFICES ASSUME CpuType, QueueInv, MliteInv, [Next]_vars PROVE MliteInv'
    OBVIOUS
  <2>1. ASSUME NEW ins \in Program, Execute(ins) PROVE MliteInv'
    BY <2>1, MliteExecute
  <2>2. CASE CheckRegisters
    BY <2>2, MliteCheckRegisters
  <2>3. ASSUME NEW k \in Late, CheckMlite(k) PROVE MliteInv'
    BY <2>3, MliteCheckMlite
  <2>4. CASE UNCHANGED vars
    BY <2>4 DEF vars, MliteInv, Shown, Untouched, Holds, MemHolds, Agree, Promises, MliteNoFalseAlarm
  <2> QED BY <2>1, <2>2, <2>3, <2>4 DEF Next, Late
<1> QED BY <1>1, MliteInvInit, CpuTypeCorrect, QueueInvariant, PTL DEF Spec

\* Whatever the program, the monitor of MIPS1_CORE, which starts at address 0,
\* reports no fetch, access or write of a correct CPU, until the program does
\* what the checker that reports it is known not to follow.
THEOREM MliteNoFalseAlarmCorrect ==
    ASSUME ResetVector = 0
    PROVE  Spec => []MliteNoFalseAlarm
<1>1. MliteInv => MliteNoFalseAlarm
  BY DEF MliteInv
<1> QED BY <1>1, MliteInvariant, PTL

\* Whatever the program, mlite_cycle (mlite_dpi.c) holds the registers of the
\* CPU between two calls and, where it was zero at first, its memory; its queue
\* holds the fetches that come next.
THEOREM MliteFollowsCorrect ==
    ASSUME ResetVector = 0
    PROVE  Spec => []MliteFollows
<1>1. CpuType /\ MliteInv => MliteFollows
  <2>1. MemHolds(m.mem) => \A a \in DOMAIN m.mem : image[a] = 0 => m.mem[a] = d.mem[a]
    BY DEF MemHolds
  <2> QED BY <2>1, HeldRegisters DEF MliteInv, MliteFollows
<1> QED BY <1>1, CpuTypeCorrect, MliteInvariant, PTL

\* Whatever the program and wherever it starts, every write of a register, of
\* LO and of HI, and every access of whole words of MIPS1_CORE, is predicted, in
\* order: the checkers are left with equal queues.
THEOREM StreamsAgreeCorrect == Spec => []StreamsAgree
<1>1. PsxInv /\ MliteInv => StreamsAgree
  BY DEF PsxInv, MliteInv, StreamsAgree, Agree, Regs
<1> QED BY <1>1, PsxInvariant, MliteInvariant, PTL

----------------------------------------------------------------------------
(***************************************************************************)
(* The loop of the simulator, which is told no address: pc and pc_next are *)
(* where the CPU is and goes, the offsets of the code being those of the   *)
(* next instruction.                                                       *)
(***************************************************************************)

LoopCauses == (MliteData \cup {"link", "slot"}) \ {"mliteZero"}

LoopAt(x) ==
    /\ DOMAIN x.cpu = SFields /\ ~x.cpu.skip
    /\ x.cpu.r = d.r /\ x.cpu.lo = d.lo /\ x.cpu.hi = d.hi
    /\ x.cpu.pc = d.pc /\ x.cpu.pc_next = d.npc
    /\ MemHolds(x.mem)

\* The inductive invariant, with CpuType.
LoopInv == Untouched(LoopCauses) => LoopAt(c)

LEMMA LoopInvInit ==
    ASSUME ResetVector = 0, Init
    PROVE  LoopInv
<1> HIDE DEF W
<1>1. /\ d.r = [i \in GPR |-> 0] /\ d.lo = 0 /\ d.hi = 0 /\ d.pc = 0 /\ d.npc = Plus(0, 4)
      /\ d.mem = image /\ c = do_debug(mliteInit)
  BY DEF Init
<1> DEFINE z == cpuInit(0)
           t == [z EXCEPT !.pc_next = Plus(z.pc, 4), !.skip = FALSE]
           u == [t EXCEPT !.r = [t.r EXCEPT ![0] = 0]]
<1>2. /\ DOMAIN z = SFields /\ z.r = [i \in GPR |-> 0] /\ z.pc = 0 /\ z.lo = 0 /\ z.hi = 0
  BY DEF cpuInit, SFields
<1>3. c.cpu = u /\ c.mem = [a \in MemWords |-> 0]
  BY <1>1 DEF do_debug, show_state, mliteInit, MemWords
<1> HIDE DEF z
<1>4. /\ DOMAIN u = SFields /\ ~u.skip /\ u.pc = 0 /\ u.pc_next = Plus(0, 4)
      /\ u.lo = 0 /\ u.hi = 0 /\ u.r = [z.r EXCEPT ![0] = 0]
  BY <1>2 DEF SFields
<1> HIDE DEF u, t
<1>5. u.r = d.r
  BY <1>1, <1>2, <1>4, RegAssumption
<1>6. MemHolds(c.mem)
  <2>1. 0 \in Word
    BY WordFacts DEF Word
  <2> QED BY <1>1, <1>3, <2>1 DEF MemHolds
<1> QED BY <1>1, <1>3, <1>4, <1>5, <1>6 DEF LoopInv, LoopAt

\* A branch counts its offset from the word after the slot, as e.next has it,
\* and the loop reduces it by a word: it counts from the slot.
LEMMA OffsetFacts ==
    ASSUME NEW x \in Words, NEW y \in Word
    PROVE  Plus(Plus(Plus(x, 4), 4 * y), W - 4) = Plus(x, 4 * y)
<1> HIDE DEF W
<1> DEFINE z == 4 * y
<1>1. W \in Nat \ {0} /\ W \in Int /\ W - 4 \in Int /\ 4 \in Int
  BY WordFacts
<1>2. x \in Int /\ z \in Int
  BY WordsPlus
<1> HIDE DEF z
<1>3. Plus(Plus(x, 4), z) = Plus(x, 4 + z)
  BY <1>1, <1>2, PlusPlus, Zenon
<1>4. 4 + z \in Int
  BY <1>2
<1>5. Plus(Plus(x, 4 + z), W - 4) = Plus(x, (4 + z) + (W - 4))
  BY <1>1, <1>2, <1>4, PlusPlus, Zenon
<1>6. (x + ((4 + z) + (W - 4))) % W = (x + z) % W
  <2>1. x + ((4 + z) + (W - 4)) = (x + z) + W * 1 /\ x + z \in Int /\ 1 \in Int
    BY <1>1, <1>2
  <2>2. ((x + z) + W * 1) % W = (x + z) % W
    BY <1>1, <2>1, ModShift
  <2> QED BY <2>1, <2>2
<1> QED BY <1>3, <1>5, <1>6 DEF Plus, z

LEMMA LoopNextFollows ==
    ASSUME CpuType, NEW ins, Followed(ins), ~CauseOf(ins).slot, NEW e, Goes(e, ins, d.npc)
    PROVE  LoopNext(e, ins) = IF CpuTaken(d, ins) THEN CpuTarget(d, ins) ELSE Plus(d.npc, 4)
<1> HIDE DEF W
<1>1. /\ ins \in Instr /\ ~CpuTraps(d, ins) /\ d.npc \in Words /\ d.npc \in Word
      /\ ins.imm \in Word
  BY Operands DEF Followed, CpuType, Words
<1>2. Plus(d.npc, 4) \in Words /\ CpuTarget(d, ins) \in Words
  BY <1>1, WordsPlus, TargetFacts
<1>3. \A x \in Words : Align(x) = x
  BY DEF Words, Word, Align
<1>4. CpuTaken(d, ins) => Plus(d.pc, 4) = d.npc
  BY DEF CauseOf, CpuType
<1>5. /\ Taken(e) <=> CpuTaken(d, ins) /\ ~Jumps(ins)
      /\ e.next = IF ~Jumps(ins) THEN Plus(d.npc, 4)
                  ELSE IF ins.op \in {"J", "JAL"} THEN Regional(d.npc, ins.imm) ELSE d.r[ins.rs]
  BY DEF Goes, Taken
<1>6. CASE ~CpuTaken(d, ins)
  <2>1. ~Jumps(ins)
    BY <1>6 DEF Jumps, CpuTaken
  <2>2. LoopNext(e, ins) = Align(Plus(d.npc, 4))
    BY <1>5, <1>6, <2>1 DEF LoopNext
  <2> QED BY <1>2, <1>3, <1>6, <2>2
<1>7. CASE CpuTaken(d, ins) /\ ~Jumps(ins)
  <2>1. LoopNext(e, ins) = Align(Plus(Plus(Plus(d.npc, 4), 4 * ins.imm), W - 4))
    BY <1>5, <1>7 DEF LoopNext
  <2>2. Plus(Plus(Plus(d.npc, 4), 4 * ins.imm), W - 4) = Plus(d.npc, 4 * ins.imm)
    BY <1>1, OffsetFacts
  <2>3. CpuTarget(d, ins) = Plus(d.npc, 4 * ins.imm)
    BY <1>4, <1>7 DEF CpuTarget, Jumps
  <2>4. LoopNext(e, ins) = Align(CpuTarget(d, ins))
    BY <2>1, <2>2, <2>3
  <2> QED BY <1>2, <1>3, <1>7, <2>4
<1>8. CASE CpuTaken(d, ins) /\ Jumps(ins)
  <2>1. e.next = CpuTarget(d, ins)
    BY <1>4, <1>5, <1>8 DEF CpuTarget, Jumps
  <2>2. LoopNext(e, ins) = Align(CpuTarget(d, ins))
    BY <1>5, <1>8, <2>1 DEF LoopNext
  <2> QED BY <1>2, <1>3, <1>8, <2>2
<1> QED BY <1>6, <1>7, <1>8

\* The fields that LoopSwitch leaves as they are.
Unpushed(e, f) ==
    /\ e.r = f.r /\ e.lo = f.lo /\ e.hi = f.hi /\ e.next = f.next /\ e.branch = f.branch
    /\ e.lbranch = f.lbranch /\ e.jump = f.jump /\ e.exc = f.exc

LEMMA LoopSwitchFacts ==
    ASSUME NEW ins, NEW p, NEW x, DOMAIN SimSwitch(Fresh(x.cpu, p), ins, p, x) = EFields
    PROVE  Unpushed(LoopSwitch(Fresh(x.cpu, p), ins, p, x), SimSwitch(Fresh(x.cpu, p), ins, p, x))
<1> DEFINE f == SimSwitch(Fresh(x.cpu, p), ins, p, x)
           e == LoopSwitch(Fresh(x.cpu, p), ins, p, x)
<1>1. e = [f EXCEPT !.data = << >>, !.regs = << >>, !.los = << >>, !.his = << >>]
  BY DEF LoopSwitch
<1> HIDE DEF e, f
<1>2. DOMAIN f = EFields
  BY DEF f
<1>3. Unpushed(e, f)
  BY <1>1, <1>2 DEF Unpushed, EFields
<1> QED BY <1>3 DEF e, f

\* The loop's state after one cycle in which nothing is skipped and no exception taken.
CycledTo(x, e, ins) ==
    LET y == Debug(x, ins)
    IN /\ DOMAIN y.cpu = SFields /\ ~y.cpu.skip
       /\ y.cpu.r = [e.r EXCEPT ![0] = 0] /\ y.cpu.lo = e.lo /\ y.cpu.hi = e.hi
       /\ y.cpu.pc = x.cpu.pc_next /\ y.cpu.pc_next = LoopNext(e, ins)
       /\ y.mem = Stored(ins, x, Fresh(x.cpu, x.cpu.pc_next))

LEMMA Cycled ==
    ASSUME NEW x, DOMAIN x.cpu = SFields, ~x.cpu.skip, NEW ins,
           NEW e, e = LoopSwitch(Fresh(x.cpu, x.cpu.pc_next), ins, x.cpu.pc_next, x),
           e.exc = FALSE, e.lbranch = 2
    PROVE  CycledTo(x, e, ins)
<1> DEFINE p == x.cpu.pc_next
           o == Registers(x.cpu, e, p, LoopNext(e, ins))
           z == cycle(x, ins)
           u == [o EXCEPT !.r = [o.r EXCEPT ![0] = 0]]
           y == Debug(x, ins)
<1>1. /\ DOMAIN o = SFields /\ o.skip = (e.lbranch = 0)
      /\ o.r = e.r /\ o.lo = e.lo /\ o.hi = e.hi /\ o.pc = p /\ o.pc_next = LoopNext(e, ins)
  BY DEF Registers, SFields
<1>2. ~o.skip
  <2>1. (e.lbranch = 0) = FALSE
    OBVIOUS
  <2> HIDE DEF o
  <2>2. o.skip = FALSE
    BY <1>1, <2>1, Zenon
  <2> QED BY <2>2
<1>3. /\ DOMAIN z = {"cpu", "mem", "aborted"}
      /\ z.cpu = o /\ z.mem = Stored(ins, x, Fresh(x.cpu, p))
  BY DEF cycle
<1>4. y.cpu = u /\ y.mem = Stored(ins, x, Fresh(x.cpu, p))
  <2>1. y = [z EXCEPT !.cpu = [z.cpu EXCEPT !.r = [z.cpu.r EXCEPT ![0] = 0]]]
    BY DEF Debug, show_state
  <2> HIDE DEF z, o, y
  <2> QED BY <1>3, <2>1 DEF u
<1> HIDE DEF o, y, z
<1>5. /\ DOMAIN u = SFields /\ u.skip = o.skip /\ u.r = [o.r EXCEPT ![0] = 0]
      /\ u.lo = o.lo /\ u.hi = o.hi /\ u.pc = o.pc /\ u.pc_next = o.pc_next
  BY <1>1 DEF SFields
<1> HIDE DEF u
<1> QED BY <1>1, <1>2, <1>4, <1>5 DEF y, CycledTo

LEMMA LoopExecute ==
    ASSUME CpuType, LoopInv, NEW ins \in Program, Execute(ins)
    PROVE  LoopInv'
<1> SUFFICES ASSUME Untouched(LoopCauses)' PROVE LoopAt(c)'
  BY DEF LoopInv
<1> DEFINE p == c.cpu.pc_next
           f == SimSwitch(Fresh(c.cpu, p), ins, p, c)
           e == LoopSwitch(Fresh(c.cpu, p), ins, p, c)
           y == Debug(c, ins)
           u == Stored(ins, c, Fresh(c.cpu, p))
<1>1. /\ ins \in Instr /\ d' = CpuNext(d, ins) /\ image' = image /\ c' = y
      /\ \A K : Untouched(K)' => Untouched(K) /\ CausesOf(ins) \cap K = {}
  BY ExecuteParts
<1>2. Untouched(LoopCauses) /\ CausesOf(ins) \cap LoopCauses = {}
  BY <1>1
<1>3. Followed(ins) /\ ins.op \notin Known
  BY <1>1, <1>2, FollowedHere DEF LoopCauses, MliteData
<1>4. ~CauseOf(ins).alias /\ ~CauseOf(ins).image /\ ~CauseOf(ins).slot /\ ~Links(ins)
  <2>1. {"alias", "image", "slot", "link"} \subseteq DOMAIN CauseOf(ins)
    BY DEF CauseOf
  <2>2. {"alias", "image", "slot", "link"} \subseteq LoopCauses
    BY DEF LoopCauses, MliteData
  <2>3. ~CauseOf(ins).alias /\ ~CauseOf(ins).image /\ ~CauseOf(ins).slot /\ ~CauseOf(ins).link
    BY <1>2, <2>1, <2>2, NoCause
  <2>4. CauseOf(ins).link <=> Links(ins)
    BY DEF CauseOf, Links
  <2> QED BY <2>3, <2>4
<1>5. LoopAt(c) /\ p = d.npc
  BY <1>2 DEF LoopInv, LoopAt
<1>6. /\ Holds(c.cpu) /\ MemHolds(c.mem) /\ c.cpu.r[0] = 0
      /\ DOMAIN c.cpu = SFields /\ ~c.cpu.skip
  BY <1>5, Same0 DEF Holds, LoopAt, CpuType
<1>7. AllFollow(f, ins, p)
  <2> HIDE DEF p
  <2> QED BY <1>3, <1>4, <1>6, SimSwitchFollows
<1>8. DOMAIN f = EFields
  BY <1>3, QuietFresh, QuietMliteSwitch DEF Quiet
<1>9. Unpushed(e, f)
  BY <1>8, LoopSwitchFacts
<1>10. u \in [MemWords -> Word] /\ \A i \in MemWords : image[i] = 0 => u[i] = d'.mem[i]
  <2> HIDE DEF p
  <2> QED BY <1>1, <1>3, <1>4, <1>6, MliteStored
<1> HIDE DEF f
<1>11. Goes(e, ins, d.npc) /\ Computes(e, ins)
  <2> HIDE DEF e, p
  <2> QED BY <1>5, <1>7, <1>9 DEF AllFollow, Goes, Computes, Unpushed
<1>12. LoopNext(e, ins) = IF CpuTaken(d, ins) THEN CpuTarget(d, ins) ELSE Plus(d.npc, 4)
  <2> HIDE DEF e
  <2> QED BY <1>3, <1>4, <1>11, LoopNextFollows
<1>13. /\ DOMAIN y.cpu = SFields /\ ~y.cpu.skip
       /\ y.cpu.r = [e.r EXCEPT ![0] = 0] /\ y.cpu.lo = e.lo /\ y.cpu.hi = e.hi
       /\ y.cpu.pc = p /\ y.cpu.pc_next = LoopNext(e, ins) /\ y.mem = u
  <2>1. e.exc = FALSE /\ e.lbranch = 2
    BY <1>11 DEF Goes
  <2>2. e = LoopSwitch(Fresh(c.cpu, c.cpu.pc_next), ins, c.cpu.pc_next, c)
    OBVIOUS
  <2> HIDE DEF e
  <2>3. CycledTo(c, e, ins)
    <3> HIDE DEF p, u, y
    <3> QED BY <1>6, <2>1, <2>2, Cycled
  <2> QED BY <2>3 DEF CycledTo
<1> HIDE DEF e, p, u, y
<1>14. /\ d'.r = CpuRegs(d, ins) /\ d'.lo = CpuNext(d, ins).lo /\ d'.hi = CpuNext(d, ins).hi
       /\ d'.pc = d.npc
       /\ d'.npc = IF CpuTaken(d, ins) THEN CpuTarget(d, ins) ELSE Plus(d.npc, 4)
  BY <1>1, <1>3, CpuDoes DEF Followed
<1>15. [e.r EXCEPT ![0] = 0] = CpuRegs(d, ins)
  <2>1. e.r = [CpuRegs(d, ins) EXCEPT ![0] = e.r[0]]
    BY <1>11 DEF Computes
  <2>2. CpuRegs(d, ins) \in [GPR -> Word] /\ CpuRegs(d, ins)[0] = 0
    BY <1>1, <1>3, CpuRegsType DEF Followed
  <2> DEFINE g == CpuRegs(d, ins)
             h == e.r
  <2>3. g \in [GPR -> Word] /\ g[0] = 0 /\ h = [g EXCEPT ![0] = h[0]]
    BY <2>1, <2>2
  <2> HIDE DEF g, h
  <2>4. [h EXCEPT ![0] = 0] = g
    BY <2>3
  <2> QED BY <2>4 DEF g, h
<1>16. MemHolds(c.mem)'
  BY <1>1, <1>10, <1>13 DEF MemHolds
<1>17. y.cpu.lo = d'.lo /\ y.cpu.hi = d'.hi
  BY <1>11, <1>13, <1>14 DEF Computes
<1> QED BY <1>1, <1>5, <1>12, <1>13, <1>14, <1>15, <1>16, <1>17 DEF LoopAt

\* The simulator's own loop, which is told of no fetch, is where the CPU is
\* before every instruction, if the program starts at address 0.
THEOREM LoopInvariant ==
    ASSUME ResetVector = 0
    PROVE  Spec => []LoopInv
<1>1. CpuType /\ LoopInv /\ [Next]_vars => LoopInv'
  <2> SUFFICES ASSUME CpuType, LoopInv, [Next]_vars PROVE LoopInv'
    OBVIOUS
  <2>1. ASSUME NEW ins \in Program, Execute(ins) PROVE LoopInv'
    BY <2>1, LoopExecute
  <2>2. ASSUME d' = d, c' = c, image' = image, causes' = causes PROVE LoopInv'
    BY <2>2 DEF LoopInv, LoopAt, Untouched, MemHolds
  <2>3. CASE CheckRegisters
    BY <2>2, <2>3, CheckParts
  <2>4. ASSUME NEW k \in Late, CheckMlite(k) PROVE LoopInv'
    BY <2>2, <2>4, CheckMliteParts
  <2>5. CASE UNCHANGED vars
    BY <2>2, <2>5 DEF vars
  <2> QED BY <2>1, <2>3, <2>4, <2>5 DEF Next, Late
<1>2. Init => LoopInv
  BY LoopInvInit
<1> QED BY <1>1, <1>2, CpuTypeCorrect, PTL DEF Spec

\* Whatever the program, the simulator's own loop (cycle, mlite_dpi.c), which
\* is told no address, is where the CPU is, goes where the CPU goes and holds
\* its registers, until the program does what the loop does not follow.
THEOREM LoopFollowsCorrect ==
    ASSUME ResetVector = 0
    PROVE  Spec => []LoopFollows
<1>1. LoopInv => LoopFollows
  BY DEF LoopInv, LoopCauses, LoopAt, LoopFollows, SameRegisters
<1> QED BY <1>1, LoopInvariant, PTL

=============================================================================
