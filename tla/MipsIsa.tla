------------------------------ MODULE MipsIsa ------------------------------
(***************************************************************************)
(* Instructions, words and byte lanes, as the two C models of the CPU and  *)
(* the CPU itself see them, and the CPU: one instruction at a time, as an  *)
(* observer of its ports sees it (mips1_core/rtl/cpu_core.v).              *)
(*                                                                         *)
(* The machine is scaled: a byte has Byte values, a half word Byte^2 and a *)
(* word and an address Byte^4, so that every shift, mask and sign          *)
(* extension of the code is there with fewer bits.  Instructions are the   *)
(* decoded fields; one operation stands for those that differ only in the  *)
(* function they compute:                                                  *)
(*   ALU   the three-register operations and ALUI the immediate ones that  *)
(*         cannot overflow; ADD, SUB and ADDI can                          *)
(*   BEQ   BEQ, BNE, BLEZ, BGTZ            BLTZ  BLTZ, BGEZ (AL, L, ALL)   *)
(*   BREAK the word 0x0000000d             SYS   SYSCALL, any other BREAK  *)
(*   MFLO, MTLO  also MFHI, MTHI           MOV   MOVZ, MOVN                *)
(*   COP   COP1-3, LWC1-3                  NOP   SWC1-3                    *)
(*   RFE   also the TLB's functions                                        *)
(*   LL, SC      also LWC0, SWC0, the same words of the CPU                *)
(*   TRAP  what only the models know: MAD, CACHE, LDC1-3, SDC1-3, DADDU    *)
(* DIV, DIVU, CFC0 and CTC0 are left out.                                  *)
(***************************************************************************)
EXTENDS Integers, Sequences

CONSTANTS
    Byte,     \* the values of a byte, 256 in the code
    GPR,      \* general purpose registers; 0 and Link are among them
    Link,     \* the register of the link instructions, 31
    Vector    \* CORE_EXC_VECTOR_IN: where the CPU takes its exceptions

\* The top bit of a byte, a half word and a word is its sign.
ASSUME ByteAssumption == Byte \in Nat /\ Byte >= 2 /\ Byte % 2 = 0
ASSUME RegAssumption == {0, Link} \subseteq GPR /\ GPR \subseteq Nat

Half == Byte * Byte
W    == Half * Half
Word == 0 .. W - 1

ASSUME VectorAssumption == Vector \in Word /\ Vector % 4 = 0

AluOps     == {"ALU", "ADD", "SUB"}
ImmOps     == {"ALUI", "ADDI"}
Cop0Ops    == {"MFC0", "MTC0", "RFE"}
SpecialOps == AluOps \cup {"JR", "JALR", "MOV", "SYS", "BREAK", "SYNC", "MFLO", "MTLO", "MULT", "MULTU", "TRAP"}
RegImmOps  == {"BLTZ", "BLTZAL", "BLTZL", "BLTZALL"}
BranchOps  == {"J", "JAL", "BEQ", "BEQL"}
LoadOps    == {"LB", "LBU", "LH", "LHU", "LW"}
StoreOps   == {"SB", "SH", "SW"}
Ops == SpecialOps \cup RegImmOps \cup BranchOps \cup LoadOps \cup StoreOps \cup ImmOps
         \cup Cop0Ops \cup {"LWL", "SWL", "LWR", "SWR", "LL", "SC", "COP", "NOP"}

\* imm is sign extended; for jumps it is the target.
Instr == [op : Ops, rs : GPR, rt : GPR, rd : GPR, imm : Word]

Plus(a, b)  == (a + b) % W
Neg(a)      == 2 * a >= W
Signed(a)   == IF Neg(a) THEN a - W ELSE a
Minus(a, b) == (a - b) % W
Align(a)    == a - (a % 4)                        \* a & ~3
Alu(ins, a, b) == IF ins.op = "SUB" THEN Minus(a, b) ELSE Plus(a, b)
Breaks(ins)    == ins.op \in {"SYS", "BREAK"}
IsStatus(ins)  == ins.rd = Link                   \* stands for register 12
SignExt(v, n) == IF 2 * v < n THEN v ELSE W - n + v
Regional(pc, t) == (pc - (pc % (W \div 2))) + ((4 * t) % (W \div 2))

Size(op) == CASE op \in {"LB", "LBU", "SB"} -> Byte
              [] op \in {"LH", "LHU", "SH"} -> Half
              [] OTHER -> W
Bytes(n) == CASE n = Byte -> 1 [] n = Half -> 2 [] OTHER -> 4

\* The weight of the byte lane of address a, the field of n values of word w
\* that starts there, and w with it replaced.
Lane(a) == CASE a % 4 = 0 -> 1
             [] a % 4 = 1 -> Byte
             [] a % 4 = 2 -> Half
             [] OTHER -> Half * Byte
Field(w, a, n) == (w \div Lane(a)) % n
PutField(w, a, n, v) == w + ((v % n) - Field(w, a, n)) * Lane(a)

\* An access of the data port, as the monitors log it.
Access(rd, n, a, v) == [rdWrB |-> rd, size |-> n, address |-> a, value |-> v % n]

----------------------------------------------------------------------------
(***************************************************************************)
(* The CPU.  Its state d has the registers, HI and LO, the address it      *)
(* fetches and the one after, whether that one is a branch's, the memory   *)
(* behind it, and of the status register of COP0 who runs (KUC, with the   *)
(* KUP and KUO below it) and whether a user may use the coprocessors (CU). *)
(* It takes an exception for SYSCALL and BREAK, for what it does not       *)
(* implement (cpu_core.v:409-430), for a coprocessor a user may not use,   *)
(* for a signed overflow and for an unaligned access; it then fetches from *)
(* the vector.  Interrupts and bus errors are not modelled, nor that the   *)
(* instructions behind an MTC0 are decoded before it writes, nor the       *)
(* accesses of LWL, LWR, SWL and SWR, which select no byte, and of LL and  *)
(* SC: no model is compared with the CPU behind one (CoreCheck).           *)
(***************************************************************************)

\* The status written: the scaled word has KUC as bit 1, KUP and KUO as bit 0
\* and the four CU as its top bit.
Cop0Status(v) == [kuc |-> (v \div 2) % 2 = 1, kup |-> v % 2 = 1, kuo |-> v % 2 = 1, cu |-> Neg(v)]
KernelMode    == [kuc |-> FALSE, kup |-> FALSE, kuo |-> FALSE, cu |-> FALSE]
Entered(q)    == [q EXCEPT !.kuc = FALSE, !.kup = q.kuc, !.kuo = q.kup]
Restored(q)   == [q EXCEPT !.kuc = q.kup, !.kup = q.kuo]
Usable(d)     == d.cop0.kuc => d.cop0.cu

\* The second operand.
CpuOperand(d, ins) == IF ins.op \in ImmOps THEN ins.imm ELSE d.r[ins.rt]

\* The operands have one sign and the result the other, for SUB as well as for
\* ADD: of two positive numbers the difference traps when it is negative.
Overflows(d, ins) ==
    LET a == d.r[ins.rs]
        b == CpuOperand(d, ins)
    IN /\ ins.op \in {"ADD", "ADDI", "SUB"}
       /\ Neg(a) = Neg(b)
       /\ Neg(Alu(ins, a, b)) # Neg(a)

CpuTraps(d, ins) ==
    \/ Breaks(ins)
    \/ ins.op \in {"MOV", "TRAP", "BEQL"}
    \/ ins.op \in Cop0Ops \cup {"COP"} /\ ~Usable(d)
    \/ Overflows(d, ins)
    \/ ins.op \in LoadOps \cup StoreOps
       /\ Plus(d.r[ins.rs], ins.imm) % Bytes(Size(ins.op)) # 0
    \/ ins.op \in {"JR", "JALR"} /\ d.r[ins.rs] % 4 # 0

CpuTaken(d, ins) ==
    \/ ins.op \in {"J", "JAL", "JR", "JALR"}
    \/ ins.op \in {"BLTZ", "BLTZAL"} /\ Neg(d.r[ins.rs])
    \/ ins.op = "BEQ" /\ d.r[ins.rs] = d.r[ins.rt]

CpuTarget(d, ins) ==
    CASE ins.op \in {"JR", "JALR"} -> d.r[ins.rs]
      [] ins.op \in {"J", "JAL"}   -> Regional(Plus(d.pc, 4), ins.imm)
      [] OTHER -> Plus(Plus(d.pc, 4), 4 * ins.imm)

CpuAddress(d, ins) == Plus(d.r[ins.rs], ins.imm)

CpuLoaded(d, ins) ==
    LET a == CpuAddress(d, ins)
        v == Field(d.mem[Align(a)], a, Size(ins.op))
    IN IF ins.op \in {"LB", "LH"} THEN SignExt(v, Size(ins.op)) ELSE v

\* The writes of the register file, one per instruction with RegWriteId.
CpuWrites(d, ins) ==
    CASE ins.op \in AluOps -> << << ins.rd, Alu(ins, d.r[ins.rs], CpuOperand(d, ins)) >> >>
      [] ins.op \in ImmOps -> << << ins.rt, Alu(ins, d.r[ins.rs], CpuOperand(d, ins)) >> >>
      [] ins.op = "MFLO" -> << << ins.rd, d.lo >> >>
      [] ins.op = "MTLO" -> << << 0, d.r[ins.rs] >> >>
      [] ins.op \in {"JR", "MULT", "MULTU", "SYNC"} -> << << 0, 0 >> >>
      [] ins.op = "JALR" -> << << ins.rd, Plus(d.pc, 8) >> >>
      [] ins.op \in {"JAL", "BLTZAL"} -> << << Link, Plus(d.pc, 8) >> >>
      [] ins.op \in LoadOps -> << << ins.rt, CpuLoaded(d, ins) >> >>
      [] ins.op \in {"MFC0", "LWL", "LWR"} -> << << ins.rt, 0 >> >>
      [] OTHER -> << >>

CpuRegs(d, ins) ==
    LET w == CpuWrites(d, ins) IN
    IF w = << >> THEN d.r ELSE [[d.r EXCEPT ![w[1][1]] = w[1][2]] EXCEPT ![0] = 0]

Multiplies(ins) == ins.op \in {"MULT", "MULTU"}

CpuProduct(d, ins) ==
    LET a == d.r[ins.rs]
        b == d.r[ins.rt]
    IN IF ins.op = "MULT" THEN (Signed(a) * Signed(b)) % (W * W) ELSE a * b

CpuData(d, ins) ==
    CASE ins.op \in LoadOps  -> << Access(TRUE, Size(ins.op), CpuAddress(d, ins), 0) >>
      [] ins.op \in StoreOps -> << Access(FALSE, Size(ins.op), CpuAddress(d, ins), d.r[ins.rt]) >>
      [] OTHER -> << >>

CpuMem(d, ins) ==
    LET a == CpuAddress(d, ins) IN
    IF ins.op \in StoreOps
    THEN [d.mem EXCEPT ![Align(a)] = PutField(@, a, Size(ins.op), d.r[ins.rt])]
    ELSE d.mem

CpuCop0(d, ins) ==
    CASE ins.op = "MTC0" /\ IsStatus(ins) -> Cop0Status(d.r[ins.rt])
      [] ins.op = "RFE" -> Restored(d.cop0)
      [] OTHER -> d.cop0

CpuNext(d, ins) ==
    IF CpuTraps(d, ins)
    THEN [d EXCEPT !.pc = Vector, !.npc = Plus(Vector, 4), !.slot = FALSE, !.cop0 = Entered(@)]
    ELSE [pc  |-> d.npc, slot |-> CpuTaken(d, ins),
          npc |-> IF CpuTaken(d, ins) THEN CpuTarget(d, ins) ELSE Plus(d.npc, 4),
          r   |-> CpuRegs(d, ins),
          lo  |-> CASE Multiplies(ins) -> CpuProduct(d, ins) % W
                    [] ins.op = "MTLO" -> d.r[ins.rs]
                    [] OTHER -> d.lo,
          hi  |-> IF Multiplies(ins) THEN CpuProduct(d, ins) \div W ELSE d.hi,
          mem |-> CpuMem(d, ins), cop0 |-> CpuCop0(d, ins)]

=============================================================================
