--------------------------- MODULE CoherentMemory ---------------------------
(***************************************************************************)
(* What the data port of the CPU expects of the platform RAM, whatever     *)
(* stands between the two: the accesses take effect in the order in which  *)
(* they are accepted, one at a time, and a read returns the bytes last     *)
(* written to its address.                                                 *)
(***************************************************************************)
EXTENDS Naturals

CONSTANTS Addrs, Lanes, Values

VARIABLES
    memory,    \* the word the CPU believes each address holds
    inflight,  \* the access accepted and not yet answered, or one with op "none"
    rsp        \* the read data the CPU captured last, zero on the lanes not asked for

memoryVars == << memory, inflight, rsp >>

Word     == [Lanes -> Values]
Accesses == [op : {"none", "read", "write"}, adr : Addrs, sel : SUBSET Lanes, dat : Word]

Init ==
    /\ memory \in [Addrs -> Word]
    /\ inflight.op = "none"
    /\ rsp = [l \in Lanes |-> 0]

\* The answer to the access in flight, if there is one to give.
Answer ==
    rsp' = IF inflight.op = "read"
           THEN [l \in Lanes |-> IF l \in inflight.sel THEN memory[inflight.adr][l] ELSE 0]
           ELSE rsp

\* A new access is accepted, and takes effect, no earlier than the answer to
\* the previous one.
Accept ==
    /\ inflight' \in Accesses
    /\ inflight'.op # "none"
    /\ Answer
    /\ memory' = IF inflight'.op = "write"
                 THEN [memory EXCEPT ![inflight'.adr] =
                          [l \in Lanes |-> IF l \in inflight'.sel THEN inflight'.dat[l] ELSE @[l]]]
                 ELSE memory

Complete ==
    /\ inflight.op # "none"
    /\ Answer
    /\ inflight'.op = "none"
    /\ UNCHANGED memory

Next == Complete \/ Accept

Spec == Init /\ [][Next]_memoryVars
=============================================================================
