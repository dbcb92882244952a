--------------------------- MODULE BridgeTransfer ---------------------------
(***************************************************************************)
(* What a bridge between two buses promises of the accesses: each one it   *)
(* takes on one side it makes on the other, once, unchanged and in order,  *)
(* and it has at most one.                                                 *)
(***************************************************************************)
CONSTANTS Accesses, None

VARIABLES
    pending,  \* the access taken and not yet made
    slv       \* the access the slave of the far side works on

transferVars == << pending, slv >>

Init == pending = None /\ slv = None

Take ==
    /\ pending = None
    /\ pending' \in Accesses
    /\ UNCHANGED slv

Make ==
    /\ pending # None
    /\ slv' = pending
    /\ pending' = None

Finish ==
    /\ slv # None
    /\ slv' = None
    /\ UNCHANGED pending

Next == Take \/ Make \/ Finish

Spec == Init /\ [][Next]_transferVars
=============================================================================
