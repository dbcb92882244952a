----------------------------- MODULE MCCoreMark -----------------------------
(***************************************************************************)
(* An instance of CoreMark: blocks of 202 bytes, which the matrices fill   *)
(* to the last byte, a list of five items, the short form of the known     *)
(* seeds and seeds that differ, with one context and with as many as there *)
(* are or more.  And blocks of 280 bytes with the seeds 25, for which item *)
(* 8 of the list makes a comma of a "5" and leaves it one.                 *)
(***************************************************************************)
EXTENDS CoreMarkProps

\* Arguments: M1, M3; 0, 1, 3, -0x5, 0x66, 7, 25, 606 and 840.
M1   == << 77, 49 >>
M3   == << 77, 51 >>
A0   == << 48 >>
A1   == << 49 >>
A3   == << 51 >>
A5   == << 45, 48, 120, 53 >>
A66  == << 48, 120, 54, 54 >>
A7   == << 55 >>
A25  == << 50, 53 >>
A606 == << 54, 48, 54 >>
A840 == << 56, 52, 48 >>

MCCommands ==
    { << M1, A1 >>, << M3, A1, A0, A0 >>, << A1, A0, A0, A1, A7 >>,
      << M1, A25, A25, A0, A3, A0, A0, A840 >>,
      << M1, A3, A5, A66 >>, << A3, A5, A66, A0, A7, A0, A606 >>, << M1, A3, A5, A66, A1 >>,
      << M3, A3, A5, A66, A1 >> }

MCSizeof ==
    [ee_u8 |-> 1, ee_u16 |-> 2, ee_s16 |-> 2, ee_u32 |-> 4, ee_s32 |-> 4, ee_ptr_int |-> 4] @@ ("int *" :> 4)

MCListCrc == (1 :> 4660) @@ (-1 :> 22136)
MCKnown   == << 13333, 13333, 102, 202 >> :> [crclist |-> 53447, crcmatrix |-> 6379, crcstate |-> 20065]

=============================================================================
