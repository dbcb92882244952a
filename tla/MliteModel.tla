---------------------------- MODULE MliteModel -----------------------------
(***************************************************************************)
(* The Plasma simulator in C that the test bench of MIPS1_CORE calls       *)
(* (mips1_core/dpi/mlite_dpi.c), from which CoreModel was made: it has a   *)
(* memory of its own, so that it predicts the data of loads too, a smaller *)
(* COP0 and the exception vector of the Plasma CPU.  Below it is the       *)
(* simulator's own loop, cycle, which finds the next instruction itself.   *)
(*                                                                         *)
(* Both are little endian, as cpuInit leaves them; the process identifier  *)
(* is always 0, so that the user mode of COP0 is never entered.            *)
(***************************************************************************)
EXTENDS CoreModel

CONSTANTS
    MemSize,      \* bytes of the memory, MEM_SIZE (2 MB)
    WinBase,      \* the window on its upper half, 0x10000000
    VectorMlite   \* 0x3c

ASSUME MemAssumption ==
    /\ MemSize \in 1 .. W /\ MemSize % 8 = 0
    /\ WinBase \in Nat \ {0} /\ WinBase % MemSize = 0

\* The registers, the memory, and whether an assertion ended the program.
mliteInit ==
    [ cpu |-> cpuInit(0), aborted |-> FALSE,
      mem |-> [a \in {x \in 0 .. MemSize - 1 : x % 4 = 0} |-> 0] ]

----------------------------------------------------------------------------
\* The memory.

Physical(a) ==
    (a % MemSize) + (IF a \in WinBase .. WinBase + (MemSize \div 2) - 1 THEN MemSize \div 2 ELSE 0)

\* An unaligned read goes on in the next word (behind the end of the memory,
\* where the code reads what malloc left there, in the first); the CPU traps.
mem_read(mem, n, a) ==
    LET p == Align(Physical(a))
    IN ((mem[p] + W * mem[(p + 4) % MemSize]) \div Lane(a)) % n

mem_write_Word(mem, n, a, v) == [mem EXCEPT ![Align(Physical(a))] = v]
mem_write(mem, n, a, v) == [mem EXCEPT ![Align(Physical(a))] = PutField(@, a, n, v)]

\* The assertions of mem_write.
Aligned(n, a) == a % Bytes(n) = 0

----------------------------------------------------------------------------
\* The cases of the switch that are not those of CoreModel.

MliteCop0(e, ins, epc) ==
    IF ins.op # "MTC0"
    THEN Put(e, ins.rt, IF IsStatus(ins) THEN e.status ELSE epc)
    ELSE [e EXCEPT !.status = e.r[ins.rt] % 2]

MliteLoads_Unsigned(e, ins, ptr, mem) ==
    LET v == mem_read(mem, Size(ins.op), ptr)
    IN IF ins.op = "LWR" THEN e
       ELSE Put(PushData(e, Access(TRUE, Size(ins.op), ptr, v)), ins.rt, v)
MliteLoads(e, ins, ptr, mem) ==
    LET n == Size(ins.op)
        v == mem_read(mem, n, ptr)
        l == PushData(e, Access(TRUE, n, ptr, v))
    IN CASE ins.op = "LWR" -> e
         [] ins.op \in {"LB", "LH"} -> Put(l, ins.rt, SignExt(v, n))
         [] OTHER -> Put(l, ins.rt, v)

MliteStores(e, ins, ptr) ==
    LET l == PushData(e, Access(FALSE, Size(ins.op), ptr, e.r[ins.rt]))
    IN IF ins.op = "SC" THEN [l EXCEPT !.r[ins.rt] = 1] ELSE l

IsStore(ins) == ins.op \in StoreOps \cup {"SWL", "SC"}
IsLoad(ins)  == ins.op \in LoadOps \cup {"LWL", "LWR", "LL"}

\* pc is the address s->pc holds while the instruction is executed.
SimSwitch(e, ins, pc, m) ==
    CASE IsLoad(ins)  -> MliteLoads(e, ins, Ptr(m.cpu, ins), m.mem)
      [] IsStore(ins) -> MliteStores(e, ins, Ptr(m.cpu, ins))
      [] ins.op \in Cop0Ops -> MliteCop0(e, ins, m.cpu.epc)
      [] OTHER -> Switch(e, ins, pc, 0, 0)

\* (opcode << 6) >> 4: where opcode is an int, as it is in the call from the
\* test bench, the top bit of the target is shifted into the region.
SignedTarget(pc, t) ==
    LET f == (4 * t) % (W \div 2)
    IN IF 2 * f >= W \div 2 THEN W \div 2 + f ELSE Regional(pc, t)

Absolute(ins) == ins.op \in {"J", "JAL"}

MliteSwitch(e, ins, pc, m) ==
    IF Absolute(ins) THEN [SimSwitch(e, ins, pc, m) EXCEPT !.next = SignedTarget(pc, ins.imm)]
                  ELSE SimSwitch(e, ins, pc, m)

\* The memory after the stores of the switch.
Stored(ins, m, e) ==
    LET n == Size(ins.op)
        a == Ptr(m.cpu, ins)
    IN IF IsStore(ins) /\ Aligned(n, a) THEN mem_write(m.mem, n, a, e.r[ins.rt]) ELSE m.mem

Aborts(ins, m) == IsStore(ins) /\ ~Aligned(Size(ins.op), Ptr(m.cpu, ins))

----------------------------------------------------------------------------
\* One call from the test bench.  An exception pushes no address.

MliteExcepted(s, e, ins, pc) ==
    [Registers(s, e, pc, VectorMlite) EXCEPT
        !.r[ins.rt] = IF ins.rt = 0 THEN 0 ELSE s.r[ins.rt],
        !.epc = SavedPc(s, ins), !.skip = TRUE]

mliteCycle(m, pc, ins) ==
    LET s == m.cpu
        f == Fresh(s, pc)
        e == MliteSwitch(f, ins, pc, m)
        none == [inst |-> << >>, data |-> << >>, reg |-> << >>, lo |-> << >>, hi |-> << >>]
    IN IF s.skip THEN [state |-> [m EXCEPT !.cpu = Skipped(s, pc)], push |-> none]
       ELSE [ state |->
                [ cpu |-> IF e.exc THEN MliteExcepted(s, e, ins, pc) ELSE Retired(s, e, ins, pc),
                  mem |-> Stored(ins, m, f), aborted |-> Aborts(ins, m) ],
              push |->
                [ inst |-> IF e.exc THEN << >> ELSE Predicted(s, e, ins, pc),
                  data |-> e.data, reg |-> e.regs, lo |-> e.los, hi |-> e.his ] ]

----------------------------------------------------------------------------
(***************************************************************************)
(* The loop of the simulator.  s->pc moves to pc_next before the switch,   *)
(* so that the links and targets the switch computes from pc_next and pc   *)
(* are those of the next instruction; the offset of a branch is reduced by *)
(* a word.  The program it runs is the instruction that is fetched.        *)
(***************************************************************************)

LoopNext_WholeOffset(e, ins) == NextPc(e, ins)
LoopNext(e, ins) ==
    Align(IF Taken(e) THEN Plus(Plus(e.next, 4 * ins.imm), W - 4) ELSE e.next)

\* The same cases as in mliteCycle, but opcode is unsigned; nothing is pushed.
LoopSwitch(e, ins, pc, c) ==
    [SimSwitch(e, ins, pc, c) EXCEPT !.data = << >>, !.regs = << >>, !.los = << >>, !.his = << >>]

cycle(c, ins) ==
    LET s == c.cpu
        pc == s.pc_next
        f == Fresh(s, pc)
        e == LoopSwitch(f, ins, pc, c)
        done == Registers(s, e, pc, LoopNext(e, ins))
    IN [ cpu |->
           CASE s.skip -> Skipped(s, pc)
             [] ~s.skip /\ e.exc -> MliteExcepted(s, e, ins, pc)
             [] OTHER -> done,
         mem |-> IF s.skip THEN c.mem ELSE Stored(ins, c, f),
         aborted |-> ~s.skip /\ Aborts(ins, c) ]

\* show_state decodes the code around pc with cycle, which clears register 0.
show_state(c) == [c EXCEPT !.cpu.r[0] = 0]

\* do_debug: ch stays ' ', no input being read, which is the command to run
\* one cycle and show the state, over and over.
do_debug(c) == show_state([c EXCEPT !.cpu.pc_next = Plus(c.cpu.pc, 4), !.cpu.skip = FALSE])

Debug(c, ins) == show_state(cycle(c, ins))

=============================================================================
