-------------------------- MODULE SyncBridgeProps --------------------------
(***************************************************************************)
(* What WB_SYNC_BRIDGE must satisfy.                                       *)
(***************************************************************************)
EXTENDS SyncBridge

\* Every register holds a value of its type.
TypeOK ==
    /\ SrcWbCycStbTog \in BOOLEAN /\ SrcWbCycStbReg \in BOOLEAN /\ DstWbCycTogReg \in BOOLEAN
    /\ SrcWb \in Accesses \cup {None}
    /\ SrcWbAck \in BOOLEAN /\ SrcWbDatRd \in Accesses \cup {None}
    /\ DstWbCycStbTogReg \in BOOLEAN /\ DstWbCycTog \in BOOLEAN
    /\ DstWbCycReg \in BOOLEAN /\ DstWbStbReg \in BOOLEAN
    /\ DstWb \in Accesses \cup {None}
    /\ DstWbAck \in BOOLEAN /\ DstWbDatRd \in Accesses \cup {None}
    /\ s \in Accesses \cup {None} /\ wait \in Accesses \cup {None}
    /\ WbSysRegsSelReg \in BOOLEAN
    /\ m \in [ack : BOOLEAN, err : BOOLEAN, stall : BOOLEAN]
    /\ slv \in Accesses \cup {None}

\* The stations of an access on its way through the bridge and back.  An access
\* answered ERR is lost at the last but one: only an ACK moves it on.
Announced == SrcWbCycStbTog # DstWbCycStbTogReg
Strobed   == DstWbStbReg
Served    == slv # None
Lost      == DstWbCycReg /\ ~Strobed /\ ~Served
Returned  == DstWbCycTog # DstWbCycTogReg

\* An access is at one station at a time, at one of them exactly as long as the
\* source is held: the toggles of the two directions never overtake each other.
OneStation ==
    /\ ~(Announced /\ (Strobed \/ Served \/ Lost \/ Returned))
    /\ ~(Strobed /\ (Served \/ Returned))
    /\ ~((Served \/ Lost) /\ Returned)
    /\ SrcWbCycStbReg <=> (Announced \/ Strobed \/ Served \/ Lost \/ Returned)

\* CYC is up on the DST side while the access is strobed or served, and no
\* longer unless an access was refused.
CycSpansAccess ==
    /\ Strobed \/ Served => DstWbCycReg
    /\ Lost => Refused # {}

\* The registers that cross the clock domains hold the access while they are
\* read: nothing is captured while it changes.
HeldAcross ==
    /\ Announced => SrcWb \in Accesses
    /\ Strobed => DstWb = SrcWb
    /\ Served => slv = SrcWb
    /\ Strobed \/ Served => SrcWb \in Accesses
    /\ Returned => DstWbAck /\ DstWbDatRd = SrcWb

\* The bridge as a carrier of accesses.
Pending == IF Announced \/ Strobed THEN SrcWb ELSE None
BT == INSTANCE BridgeTransfer WITH pending <- Pending

\* Each access taken is made once, unchanged, and in order, whatever the ratio
\* of the two clocks.
Carries == BT!Spec

\* An access the slave acknowledges does not hold the bridge for ever: the stall
\* of the source is cleared "when the handshake pulse comes back from the DST
\* domain" (wb_sync_bridge.v:165).  Nothing but an ACK sends that pulse (118): an
\* access answered ERR stays in the bridge, and the source is never freed again.
Released ==
    /\ SrcWbCycStbReg /\ SrcWb \notin Refused ~> ~SrcWbCycStbReg
    /\ [](Lost => []SrcWbCycStbReg)

\* The stall "prevents the master from issuing a new transaction to another
\* slave before the current one has completed" (psx_bus.v:465-466): the system
\* bus answers an access made through the bridge when the bridge is done.
AnsweredWhenDone == WbSysAck => ~SrcWbCycStbReg
=============================================================================
