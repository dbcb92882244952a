----------------------------- MODULE MCRamPath -----------------------------
(***************************************************************************)
(* Instances of the path to the RAM for TLC.  A one-lane word stands for   *)
(* one that is always accessed whole; two lanes give partial accesses.     *)
(***************************************************************************)
EXTENDS RamPathProps, TLC

CONSTANTS b0, b1

OneLane   == {b0}
TwoLanes  == {b0, b1}
WholeWord == {Lanes}
AnyLanes  == (SUBSET Lanes) \ {{}}

TwoAddrs   == 0 .. 1
ThreeAddrs == 0 .. 2

\* Nothing in the buffer tells one byte lane from another.
LaneSymmetry == Permutations(Lanes)
=============================================================================
