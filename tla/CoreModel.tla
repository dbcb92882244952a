----------------------------- MODULE CoreModel -----------------------------
(***************************************************************************)
(* The C model of the CPU that the monitor of PSX_TOP calls               *)
(* (psx_top/dpi/mips1_core_model.c): it is told each instruction the CPU   *)
(* fetches, with the data of a load, executes it and pushes what it        *)
(* expects of the CPU on queues the monitor compares with: the addresses   *)
(* fetched, the accesses of the data port, the writes of the registers, of *)
(* LO and of HI.                                                           *)
(***************************************************************************)
EXTENDS MipsIsa

CONSTANTS
    ResetVector,       \* where cpuInit starts, 0xbfc00000
    VectorBev,         \* 0x80000080, with bit BEV of the status set
    VectorNoBev        \* 0xbfc00180

ASSUME ResetAssumption == ResetVector \in Word /\ ResetVector % 4 = 0

\* State: the fields cpuCycle uses.  exceptionId is zero between calls.
ModelState == [ r : [GPR -> Word], pc : Word, pc_next : Word, epc : Word,
                hi : Word, lo : Word, status : Word, skip : BOOLEAN, dlySlot : BOOLEAN ]

cpuInit(reset) ==
    [ r |-> [i \in GPR |-> 0], pc |-> reset, pc_next |-> 0, epc |-> 0,
      hi |-> 0, lo |-> 0, status |-> 0, skip |-> FALSE, dlySlot |-> FALSE ]

----------------------------------------------------------------------------
\* Multiplication of words by their halves.

Halves(ahi, a, bhi, b) ==
    LET alo == a % Half
        blo == b % Half
        c0  == (alo * blo) % W
        c1a == (ahi * blo) % W
        c1b == (alo * bhi) % W
    IN [c0 |-> c0, c1a |-> c1a, c1b |-> c1b,
        c1 |-> (c1a % Half) + (c1b % Half) + (c0 \div Half),
        c2 |-> (ahi * bhi) % W]

Product(h, sh) ==
    [hi |-> (h.c2 + sh[h.c1a] + sh[h.c1b] + (h.c1 \div Half)) % W,
     lo |-> ((h.c1 * Half) + (h.c0 % Half)) % W]

Logical    == [v \in Word |-> v \div Half]
Arithmetic == [v \in Word |-> (Signed(v) \div Half) % W]

mult_big(a, b)        == Product(Halves(Logical[a], a, Logical[b], b), Logical)
mult_big_signed_Logical(a, b) == Product(Halves(Logical[a], a, Logical[b], b), Logical)
mult_big_signed(a, b) == Product(Halves(Arithmetic[a], a, Arithmetic[b], b), Arithmetic)

----------------------------------------------------------------------------
(***************************************************************************)
(* The switch of cpuCycle.  e is what it has done so far: the registers,   *)
(* pc_next, branch, lbranch and jump, the exception, and what it pushed.   *)
(***************************************************************************)

Fresh(s, pc) ==
    [ r |-> [s.r EXCEPT ![0] = 0], next |-> Plus(pc, 4), hi |-> s.hi, lo |-> s.lo,
      status |-> s.status, branch |-> FALSE, lbranch |-> 2, jump |-> FALSE, exc |-> FALSE,
      regs |-> << >>, los |-> << >>, his |-> << >>, data |-> << >> ]

\* The address, computed before register 0 is cleared.
Ptr(s, ins) == Plus(ins.imm, s.r[ins.rs])

Put(e, i, v)  == [e EXCEPT !.r[i] = v, !.regs = Append(@, << i, v >>)]
Push(e, i, v) == [e EXCEPT !.regs = Append(@, << i, v >>)]
PutLo_Silent(e, v) == [e EXCEPT !.lo = v]
PutLo(e, v)   == [e EXCEPT !.lo = v, !.los = Append(@, v)]
PutHi(e, v)   == [e EXCEPT !.hi = v, !.his = Append(@, v)]
PutLink(e, i) == Put(e, i, Plus(e.next, 4))
PushData(e, a) == [e EXCEPT !.data = Append(@, a)]

Special(e, ins) ==
    LET a == e.r[ins.rs]
        b == e.r[ins.rt]
    IN
    CASE ins.op \in AluOps -> Put(e, ins.rd, Alu(ins, a, b))
      [] ins.op = "JR"   -> [Push(e, 0, 0) EXCEPT !.next = a, !.jump = TRUE]
      [] ins.op = "JALR" -> LET l == PutLink(e, ins.rd)
                            IN [l EXCEPT !.next = l.r[ins.rs], !.jump = TRUE]
      [] ins.op = "MOV"  -> IF b = 0 THEN [e EXCEPT !.r[ins.rd] = a] ELSE e
      [] Breaks(ins)      -> [e EXCEPT !.exc = TRUE]
      [] ins.op = "MFLO" -> Put(e, ins.rd, e.lo)
      [] ins.op = "MTLO" -> PutLo(Push(e, 0, a), a)
      [] Multiplies(ins) -> LET p == IF ins.op = "MULT" THEN mult_big_signed(a, b)
                                                        ELSE mult_big(a, b)
                            IN PutHi(PutLo(Push(e, 0, 0), p.lo), p.hi)
      [] OTHER -> e

RegImm(e, ins) ==
    LET l == IF ins.op \in {"BLTZAL", "BLTZALL"} THEN PutLink(e, Link) ELSE e
    IN IF ins.op \in {"BLTZ", "BLTZAL"}
       THEN [l EXCEPT !.branch = Neg(l.r[ins.rs])]
       ELSE [l EXCEPT !.lbranch = IF Neg(l.r[ins.rs]) THEN 1 ELSE 0]

\* J to BGTZ, and the likely branches BEQL to BGTZL.
Branches(e, ins, pc) ==
    LET equal == e.r[ins.rs] = e.r[ins.rt]
        l == IF ins.op = "JAL" THEN PutLink(e, Link) ELSE e
    IN CASE ins.op = "BEQ"  -> [e EXCEPT !.branch = equal]
         [] ins.op = "BEQL" -> [e EXCEPT !.lbranch = IF equal THEN 1 ELSE 0]
         [] OTHER -> [l EXCEPT !.next = Regional(pc, ins.imm), !.jump = TRUE]

Immediate(e, ins) == Put(e, ins.rt, Plus(e.r[ins.rs], ins.imm))

\* The scaled status register has BEV (bit 22) as its top bit and bit 21, read
\* as one, below it.  Of the other registers nothing is read or written, but a
\* read is pushed all the same.
Bev(status)     == Neg(status)
WithBit21(v)    == IF (v \div (W \div 4)) % 2 = 1 THEN v ELSE v + (W \div 4)

Cop0(e, ins) ==
    CASE ins.op = "MFC0" /\ IsStatus(ins)  -> Put(e, ins.rt, WithBit21(e.status))
      [] ins.op = "MFC0" /\ ~IsStatus(ins) -> Push(e, ins.rt, e.r[ins.rt])
      [] ins.op = "MTC0" /\ IsStatus(ins)  -> [e EXCEPT !.status = e.r[ins.rt]]
      [] OTHER -> e

Loads(e, ins, ptr, rd_data) ==
    CASE ins.op = "LWR" -> e
      [] ins.op = "LL"  -> Put(e, ins.rt, rd_data)
      [] ins.op \in {"LBU", "LHU"} ->
           Put(PushData(e, Access(TRUE, Size(ins.op), ptr, 0)), ins.rt, rd_data % Size(ins.op))
      [] OTHER -> Put(PushData(e, Access(TRUE, Size(ins.op), ptr, 0)), ins.rt, rd_data)

Stores(e, ins, ptr) == PushData(e, Access(FALSE, Size(ins.op), ptr, e.r[ins.rt]))

Switch(e, ins, pc, ptr, rd_data) ==
    CASE ins.op \in SpecialOps -> Special(e, ins)
      [] ins.op \in RegImmOps  -> RegImm(e, ins)
      [] ins.op \in BranchOps  -> Branches(e, ins, pc)
      [] ins.op \in ImmOps     -> Immediate(e, ins)
      [] ins.op \in Cop0Ops    -> Cop0(e, ins)
      [] ins.op \in LoadOps \cup {"LWL", "LWR", "LL"} -> Loads(e, ins, ptr, rd_data)
      [] ins.op \in StoreOps \cup {"SWL", "SC"} -> Stores(e, ins, ptr)
      [] OTHER -> e

----------------------------------------------------------------------------
\* What cpuCycle does after the switch.

Taken(e) == e.branch \/ e.lbranch = 1

NextPc(e, ins) == Align(IF Taken(e) THEN Plus(e.next, 4 * ins.imm) ELSE e.next)

\* "branch delay slot": the last instruction did not go on to the next word.
SavedPc(s, ins) ==
    LET epc == Plus(s.pc, 4) IN
    IF s.pc_next # epc THEN Plus(epc, IF Breaks(ins) THEN 3 ELSE 2)
    ELSE Plus(epc, IF Breaks(ins) THEN 1 ELSE 0)

Registers(s, e, pc, next) ==
    [s EXCEPT !.r = e.r, !.hi = e.hi, !.lo = e.lo, !.status = e.status,
              !.pc = pc, !.pc_next = next, !.skip = (e.lbranch = 0)]

\* The slot of an untaken likely branch or of an exception: nothing is done,
\* and nothing pushed.
Skipped(s, pc) ==
    [s EXCEPT !.r[0] = 0, !.pc = pc, !.pc_next = Plus(pc, 4), !.skip = FALSE]

Excepted(s, e, ins, pc) ==
    LET vector == IF Bev(e.status) THEN VectorBev ELSE VectorNoBev
    IN [Registers(s, e, pc, vector) EXCEPT
           !.r[ins.rt] = IF ins.rt = 0 THEN 0 ELSE s.r[ins.rt],
           !.epc = SavedPc(s, ins), !.skip = TRUE]

Retired(s, e, ins, pc) ==
    [Registers(s, e, pc, NextPc(e, ins)) EXCEPT
        !.dlySlot = ~s.dlySlot /\ (Taken(e) \/ e.jump)]

\* The addresses pushed: in a delay slot none, it was pushed with its branch.
Predicted_Always(s, e, ins, pc) ==
    IF Taken(e) \/ e.jump THEN << Plus(pc, 4), NextPc(e, ins) >> ELSE << NextPc(e, ins) >>
Predicted(s, e, ins, pc) ==
    IF s.dlySlot THEN << >>
    ELSE IF Taken(e) \/ e.jump THEN << Plus(pc, 4), NextPc(e, ins) >>
    ELSE << NextPc(e, ins) >>

\* One call: the state it leaves, and what it pushes on each queue.
cpuCycle(s, pc, ins, rd_data) ==
    LET e == Switch(Fresh(s, pc), ins, pc, Ptr(s, ins), rd_data)
        none == [inst |-> << >>, data |-> << >>, reg |-> << >>, lo |-> << >>, hi |-> << >>]
        pushed == [none EXCEPT !.data = e.data, !.reg = e.regs, !.lo = e.los, !.hi = e.his]
    IN CASE s.skip -> [state |-> Skipped(s, pc), push |-> none]
         [] ~s.skip /\ e.exc ->
              LET t == Excepted(s, e, ins, pc)
              IN [state |-> t, push |-> [pushed EXCEPT !.inst = << t.pc_next >>]]
         [] OTHER ->
              [state |-> Retired(s, e, ins, pc),
               push  |-> [pushed EXCEPT !.inst = Predicted(s, e, ins, pc)]]

=============================================================================
