-------------------------- MODULE SyncBridgeProofs --------------------------
(***************************************************************************)
(* Proofs about WB_SYNC_BRIDGE, for every set of accesses.                 *)
(*                                                                         *)
(* IInv is inductive: the two toggles place the access at one station, the *)
(* source is held as long as it is at one, and so no register that crosses *)
(* the domains changes while the other side reads it.                      *)
(***************************************************************************)
EXTENDS SyncBridgeProps, TLAPS

\* What the slave drives: an answer only for an access, and otherwise a stall.
SlaveOK ==
    /\ m.ack => slv # None
    /\ m.err => slv \in Refused
    /\ slv # None /\ ~m.ack /\ ~m.err => m.stall

IInv == TypeOK /\ OneStation /\ CycSpansAccess /\ HeldAcross /\ SlaveOK

----------------------------------------------------------------------------
\* The initial state satisfies the invariant.
LEMMA InitIInv == Init => IInv
  <1> SUFFICES ASSUME Init PROVE IInv
    OBVIOUS
  <1>1. TypeOK
    <2>1. m \in [ack : BOOLEAN, err : BOOLEAN, stall : BOOLEAN]
      BY DEF Init
    <2> QED BY <2>1, Zenon DEF Init, TypeOK
  <1>2. ~Announced /\ ~Strobed /\ ~Served /\ ~Lost /\ ~Returned
    BY Zenon DEF Init, Announced, Strobed, Served, Lost, Returned
  <1>3. OneStation /\ CycSpansAccess /\ HeldAcross
    BY <1>2 DEF Init, OneStation, CycSpansAccess, HeldAcross
  <1>4. SlaveOK
    BY SMT DEF Init, SlaveOK
  <1> QED BY <1>1, <1>3, <1>4 DEF IInv

\* A toggle flop changes its level exactly when it is told to.
LEMMA SrcToggles ==
    ASSUME IInv, SrcToggle
    PROVE  /\ SrcWbCycStbTog' \in BOOLEAN
           /\ SrcWbCycStb => (SrcWbCycStbTog' <=> ~SrcWbCycStbTog)
           /\ ~SrcWbCycStb => (SrcWbCycStbTog' <=> SrcWbCycStbTog)
  BY Zenon DEF IInv, TypeOK, SrcToggle

\* An edge of CLK_SRC alone moves an access out of the source or, once it is
\* back, out of the bridge.
LEMMA SrcStep ==
    ASSUME IInv, SrcEdge
    PROVE  IInv'
  <1>0. SrcToggle
    BY DEF SrcEdge, SrcClock, SrcRegs
  <1>1. TypeOK'
    BY <1>0, SrcToggles, SMT DEF IInv, TypeOK, SrcEdge, SrcClock, SrcRegs, StallReg, SrcCapture,
         SysBus, Master, dstSide, dstRegs, SrcWbCycStb, SrcCycStb
  <1>2. OneStation'
    BY <1>0, SrcToggles, SMT DEF IInv, TypeOK, OneStation, Announced, Strobed, Served, Lost, Returned,
         SrcEdge, SrcClock, SrcRegs, StallReg, SrcWbCycStb, SrcCycStb, dstSide, dstRegs
  <1>3. CycSpansAccess'
    BY DEF IInv, CycSpansAccess, Strobed, Served, Lost, SrcEdge, dstSide, dstRegs
  <1>4. HeldAcross'
    BY SMT DEF IInv, TypeOK, OneStation, HeldAcross, Announced, Strobed, Served, Lost, Returned,
         SrcEdge, SrcClock, SrcRegs, SrcToggle, SrcCapture, SrcWbCycStb, dstSide, dstRegs
  <1>5. SlaveOK'
    BY DEF IInv, SlaveOK, SrcEdge, dstSide
  <1> QED BY <1>1, <1>2, <1>3, <1>4, <1>5 DEF IInv

\* An edge of CLK_DST alone moves the access from one station to the next.
LEMMA DstStep ==
    ASSUME IInv, DstEdge
    PROVE  IInv'
  <1>1. TypeOK'
    BY SMT DEF IInv, TypeOK, DstEdge, DstClock, DstRegs, Slave, srcSide, srcRegs,
         DstWbCycStbSet, DstWbCycClr, DstWbStbClr, WB_M_ACCEPT
  <1>2. OneStation'
    BY NoneAssumption, RefusedAssumption, SMT DEF IInv, TypeOK, OneStation, CycSpansAccess, HeldAcross, SlaveOK,
         Announced, Strobed, Served, Lost, Returned,
         DstEdge, DstClock, DstRegs, Slave, srcSide, srcRegs,
         DstWbCycStbSet, DstWbCycClr, DstWbStbClr, WB_M_ACCEPT
  <1>3. CycSpansAccess'
    BY NoneAssumption, RefusedAssumption, SMT DEF IInv, TypeOK, OneStation, CycSpansAccess, HeldAcross, SlaveOK,
         Announced, Strobed, Served, Lost, Returned,
         DstEdge, DstClock, DstRegs, Slave, srcSide, srcRegs,
         DstWbCycStbSet, DstWbCycClr, DstWbStbClr, WB_M_ACCEPT
  <1>4. HeldAcross'
    BY NoneAssumption, RefusedAssumption, SMT DEF IInv, TypeOK, OneStation, CycSpansAccess, HeldAcross, SlaveOK,
         Announced, Strobed, Served, Lost, Returned,
         DstEdge, DstClock, DstRegs, Slave, srcSide, srcRegs,
         DstWbCycStbSet, DstWbCycClr, DstWbStbClr, WB_M_ACCEPT
  <1>5. SlaveOK'
    BY DEF SlaveOK, DstEdge, DstClock, Slave
  <1> QED BY <1>1, <1>2, <1>3, <1>4, <1>5 DEF IInv

\* A common edge does both: each side works on what the other held before it.
LEMMA BothStep ==
    ASSUME IInv, BothEdges
    PROVE  IInv'
  <1>0. SrcToggle
    BY DEF BothEdges, SrcClock, SrcRegs
  <1>1. TypeOK'
    BY <1>0, SrcToggles, SMT DEF IInv, TypeOK, BothEdges, SrcClock, SrcRegs, StallReg, SrcCapture,
         SysBus, Master, SrcWbCycStb, SrcCycStb, DstClock, DstRegs, Slave,
         DstWbCycStbSet, DstWbCycClr, DstWbStbClr, WB_M_ACCEPT
  <1>2. OneStation'
    BY <1>0, SrcToggles, NoneAssumption, RefusedAssumption, SMT DEF IInv, TypeOK, OneStation, CycSpansAccess, HeldAcross, SlaveOK,
         Announced, Strobed, Served, Lost, Returned,
         BothEdges, SrcClock, SrcRegs, StallReg, SrcWbCycStb, SrcCycStb,
         DstClock, DstRegs, Slave, DstWbCycStbSet, DstWbCycClr, DstWbStbClr, WB_M_ACCEPT
  <1>3. CycSpansAccess'
    BY NoneAssumption, RefusedAssumption, SMT DEF IInv, TypeOK, OneStation, CycSpansAccess, HeldAcross, SlaveOK,
         Announced, Strobed, Served, Lost, Returned,
         BothEdges, DstClock, DstRegs, Slave, DstWbCycStbSet, DstWbCycClr, DstWbStbClr, WB_M_ACCEPT
  <1>4. HeldAcross'
    BY NoneAssumption, RefusedAssumption, SMT DEF IInv, TypeOK, OneStation, CycSpansAccess, HeldAcross, SlaveOK,
         Announced, Strobed, Served, Lost, Returned,
         BothEdges, SrcClock, SrcRegs, SrcToggle, SrcCapture, SrcWbCycStb,
         DstClock, DstRegs, Slave, DstWbCycStbSet, DstWbCycClr, DstWbStbClr, WB_M_ACCEPT
  <1>5. SlaveOK'
    BY DEF SlaveOK, BothEdges, DstClock, Slave
  <1> QED BY <1>1, <1>2, <1>3, <1>4, <1>5 DEF IInv

\* The invariant holds in every state of every behaviour.
THEOREM Inductive == Spec => []IInv
  <1>1. IInv /\ UNCHANGED vars => IInv'
    BY DEF IInv, TypeOK, OneStation, CycSpansAccess, HeldAcross, SlaveOK,
           Announced, Strobed, Served, Lost, Returned, vars, srcSide, srcRegs, dstSide, dstRegs
  <1>2. IInv /\ [Next]_vars => IInv'
    BY <1>1, SrcStep, DstStep, BothStep DEF Next
  <1> QED BY InitIInv, <1>2, PTL DEF Spec

\* An access is at one station of the bridge at a time, and the source is held
\* exactly as long: the toggle flops of the two directions never overtake each
\* other, for any ratio of the two clocks.
THEOREM OneStationCorrect == Spec => []OneStation
  BY Inductive, PTL DEF IInv

\* The registers that cross from one clock domain into the other hold the access
\* and its answer as long as the other domain may capture them.
THEOREM HeldAcrossCorrect == Spec => []HeldAcross
  BY Inductive, PTL DEF IInv

----------------------------------------------------------------------------
\* What the edges do to the access that is pending and to the one served, in
\* the three cases of the station it is at.

\* Nothing is in the bridge: an edge of the source may take an access.
LEMMA TakeStep ==
    ASSUME IInv, Next, SrcWbCycStb
    PROVE  [BT!Next]_<<Pending, slv>>
  <1>1. ~Announced /\ ~Strobed /\ ~Served /\ ~Returned
    BY DEF IInv, OneStation, SrcWbCycStb
  <1>2. UNCHANGED slv
    BY <1>1, SMT DEF IInv, SlaveOK, Next, SrcEdge, DstEdge, BothEdges, dstSide, DstClock, Slave,
         WB_M_ACCEPT, Strobed, Served
  <1>3. CASE DstEdge
    <2>1. UNCHANGED << SrcWbCycStbTog, SrcWb >>
      BY <1>3 DEF DstEdge, srcSide, srcRegs
    <2>2. ~DstWbStbReg'
      BY <1>1, <1>3 DEF DstEdge, DstClock, DstRegs, DstWbCycStbSet, Announced, Strobed
    <2>3. ~Announced'
      BY <1>3, <2>1 DEF DstEdge, DstClock, DstRegs, Announced
    <2> QED BY <1>1, <1>2, <2>2, <2>3 DEF Pending, Strobed
  <1>4. CASE SrcEdge \/ BothEdges
    <2>1. SrcToggle /\ SrcWb' = s /\ s \in Accesses
      BY <1>4 DEF SrcEdge, BothEdges, SrcClock, SrcRegs, SrcCapture, SrcWbCycStb, IInv, TypeOK
    <2>2. DstWbCycStbTogReg' = SrcWbCycStbTog
      BY <1>1, <1>4 DEF SrcEdge, BothEdges, dstSide, dstRegs, DstClock, DstRegs, Announced
    <2>3. Announced'
      BY <2>1, <2>2, SrcToggles, Zenon DEF Announced
    <2>4. BT!Take
      BY <1>1, <1>2, <2>1, <2>3 DEF BT!Take, Pending
    <2> QED BY <2>4 DEF BT!Next
  <1> QED BY <1>3, <1>4 DEF Next

\* Otherwise an edge of the source leaves both alone.
LEMMA SourceHeld ==
    ASSUME IInv, Next, ~SrcWbCycStb
    PROVE  UNCHANGED SrcWb /\ (SrcWbCycStbTog' <=> SrcWbCycStbTog) /\ SrcWbCycStbTog' \in BOOLEAN
  <1>1. CASE DstEdge
    BY <1>1 DEF DstEdge, srcSide, srcRegs, IInv, TypeOK
  <1>2. CASE SrcEdge \/ BothEdges
    BY <1>2, SrcToggles DEF SrcEdge, BothEdges, SrcClock, SrcRegs, SrcCapture
  <1> QED BY <1>1, <1>2 DEF Next

\* An edge of the destination strobes what is announced, makes the access that
\* is strobed, or finishes the one served.
LEMMA CarryStep ==
    ASSUME IInv, Next, ~SrcWbCycStb
    PROVE  [BT!Next]_<<Pending, slv>>
  <1>0. UNCHANGED SrcWb /\ (SrcWbCycStbTog' <=> SrcWbCycStbTog) /\ SrcWbCycStbTog' \in BOOLEAN
    BY SourceHeld
  <1>1. CASE SrcEdge
    <2>1. UNCHANGED << slv, DstWbStbReg, DstWbCycStbTogReg >>
      BY <1>1 DEF SrcEdge, dstSide, dstRegs
    <2>2. Announced' <=> Announced
      BY <1>0, <2>1 DEF Announced, IInv, TypeOK
    <2> QED BY <1>0, <2>1, <2>2 DEF Pending, Strobed
  <1>2. CASE DstEdge \/ BothEdges
    <2>0. DstRegs /\ Slave
      BY <1>2 DEF DstEdge, BothEdges, DstClock
    <2>1. ~Announced'
      BY <1>0, <2>0 DEF DstRegs, Announced, IInv, TypeOK
    <2>2. CASE Announced
      <3>1. DstWbStbReg'
        BY <2>0, <2>2 DEF DstRegs, DstWbCycStbSet, Announced
      <3>2. UNCHANGED slv
        BY <2>0, <2>2, SMT DEF Slave, IInv, OneStation, SlaveOK, WB_M_ACCEPT, Strobed, Served
      <3> QED BY <1>0, <2>2, <3>1, <3>2 DEF Pending, Strobed
    <2>3. CASE ~Announced /\ Strobed /\ ~m.stall
      <3>1. WB_M_ACCEPT
        BY <2>3 DEF WB_M_ACCEPT, IInv, CycSpansAccess, Strobed
      <3>2. slv' = SrcWb
        BY <2>0, <2>3, <3>1 DEF Slave, IInv, HeldAcross
      <3>3. ~DstWbStbReg'
        BY <2>0, <2>3 DEF DstRegs, DstWbCycStbSet, DstWbStbClr, Announced
      <3>4. SrcWb # None
        BY <2>3, NoneAssumption DEF IInv, HeldAcross
      <3>5. BT!Make
        BY <2>1, <2>3, <3>2, <3>3, <3>4 DEF BT!Make, Pending, Strobed
      <3> QED BY <3>5 DEF BT!Next
    <2>4. CASE ~Announced /\ Strobed /\ m.stall
      <3>1. DstWbStbReg'
        BY <2>0, <2>4 DEF DstRegs, DstWbStbClr, Strobed
      <3>2. UNCHANGED slv
        BY <2>0, <2>4, SMT DEF Slave, IInv, OneStation, SlaveOK, WB_M_ACCEPT, Strobed, Served
      <3> QED BY <1>0, <2>4, <3>1, <3>2 DEF Pending, Strobed
    <2>5. CASE ~Announced /\ ~Strobed
      <3>1. ~DstWbStbReg'
        BY <2>0, <2>5 DEF DstRegs, DstWbCycStbSet, Announced, Strobed
      <3>2. UNCHANGED Pending
        BY <2>1, <2>5, <3>1 DEF Pending, Strobed
      <3>3. slv' = IF m.ack \/ m.err THEN None ELSE slv
        BY <2>0, <2>5 DEF Slave, WB_M_ACCEPT, Strobed
      <3>4. CASE m.ack \/ m.err
        BY <3>2, <3>3, <3>4, NoneAssumption, RefusedAssumption DEF BT!Next, BT!Finish, IInv, SlaveOK
      <3>5. CASE ~m.ack /\ ~m.err
        BY <3>2, <3>3, <3>5
      <3> QED BY <3>4, <3>5
    <2> QED BY <2>2, <2>3, <2>4, <2>5
  <1> QED BY <1>1, <1>2 DEF Next

\* The bridge implements the carrier of accesses: each access it takes is made
\* once, unchanged and in order, for any ratio of the two clocks.
THEOREM CarriesCorrect == Spec => Carries
  <1>1. Init => BT!Init
    BY Zenon DEF Init, BT!Init, Pending, Announced, Strobed
  <1>2. IInv /\ [Next]_vars => [BT!Next]_<<Pending, slv>>
    <2>1. IInv /\ UNCHANGED vars => UNCHANGED << Pending, slv >>
      BY DEF vars, srcSide, srcRegs, dstSide, dstRegs, Pending, Announced, Strobed
    <2> QED BY <2>1, TakeStep, CarryStep
  <1> QED BY <1>1, <1>2, Inductive, PTL DEF Spec, Carries, BT!Spec, BT!transferVars
=============================================================================
