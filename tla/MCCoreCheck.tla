---------------------------- MODULE MCCoreCheck ----------------------------
(***************************************************************************)
(* Programs for TLC.  Registers 0, 1 and 2 (the link register).            *)
(***************************************************************************)
EXTENDS CoreCheckProps

I(op, rs, rt, rd, imm) == [op |-> op, rs |-> rs, rt |-> rt, rd |-> rd, imm |-> imm % W]

MCProgram ==
    { I("ALUI", 0, 1, 0, 1), I("ALUI", 0, 0, 0, 4), I("ALUI", 0, 2, 0, -2),
      I("ALU", 1, 2, 1, 0),
      I("ADDI", 1, 1, 0, 4), I("ADD", 1, 1, 2, 0), I("SUB", 0, 1, 2, 0),
      I("JR", 2, 0, 0, 0), I("JALR", 1, 0, 2, 0), I("J", 0, 0, 0, 1), I("JAL", 0, 0, 0, 0),
      I("BEQ", 0, 1, 0, 1), I("BLTZ", 1, 0, 0, 1), I("BLTZAL", 1, 0, 0, -2),
      I("MULT", 1, 2, 0, 0), I("MULTU", 2, 2, 0, 0), I("MTLO", 1, 0, 0, 0), I("MFLO", 0, 0, 1, 0),
      I("LW", 0, 1, 0, 4), I("LB", 0, 2, 0, 5), I("LHU", 0, 1, 0, 2),
      I("SW", 0, 1, 0, 4), I("SB", 0, 1, 0, 5), I("SH", 0, 2, 0, 2),
      I("COP", 0, 0, 0, 0),
      I("SYS", 0, 1, 0, 0), I("BREAK", 0, 0, 0, 0), I("MOV", 1, 0, 2, 0), I("TRAP", 0, 0, 0, 0), I("SYNC", 0, 0, 0, 0),
      I("BEQL", 0, 1, 0, 1), I("BLTZALL", 1, 0, 0, 1),
      I("MFC0", 0, 1, 2, 0), I("MTC0", 0, 1, 2, 0), I("RFE", 0, 0, 0, 0),
      I("LWL", 0, 1, 0, 4), I("SC", 0, 1, 0, 4), I("SWR", 0, 1, 0, 4) }

\* There are data in the word at 0; the word at 4 is zero, as in mlite_dpi.
MCImages == {[a \in Words |-> IF a = 0 THEN 9 ELSE 0]}

=============================================================================
