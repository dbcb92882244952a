---------------------------- MODULE SysBusProofs ----------------------------
(***************************************************************************)
(* Proofs about the system bus, for every set of slaves and for each       *)
(* number of masters there is an arbiter for, whatever slave a master      *)
(* strobes while it waits for another.                                     *)
(***************************************************************************)
EXTENDS SysBusProps, TLAPS

\* The master that holds the bus is the only one that waits for an answer; the
\* select of the slave it waits for is set and no other, and that slave works on
\* its access.
Holding ==
    \A i \in Masters : \A j \in Slaves :
        wait[i] = j => WbArbGntReg = i /\ slv[j].who = i /\ SelReg[j]

Selecting ==
    \A j \in Slaves : SelReg[j] => WbArbGntReg \in Masters /\ wait[WbArbGntReg] = j

\* A slave works only for the master that holds the bus, on an access that one
\* waits for or strobes.
Owning ==
    \A i \in Masters : \A j \in Slaves :
        slv[j].who = i => WbArbGntReg = i /\ (wait[i] = j \/ stb[i] = j)

\* A master asks for the bus while it strobes or waits.
Asking == \A i \in Masters : cyc[i] <=> stb[i] # None \/ wait[i] # None

\* A slave answers what it works on, and stalls until then.
Serving ==
    \A j \in Slaves :
        /\ slv[j].ack \/ slv[j].err => slv[j].who # NoGnt
        /\ slv[j].who # NoGnt /\ ~slv[j].ack => slv[j].stall

\* The inductive invariant.
BusInv == TypeOK /\ Holding /\ Selecting /\ Owning /\ Asking /\ Serving

----------------------------------------------------------------------------
LEMMA MasterFacts == NoGnt \notin Masters /\ Masters \subseteq Nat /\ None \notin Slaves
BY NAssumption, NoneAssumption DEF NoGnt, Masters

LEMMA HighestOf ==
    ASSUME NEW S, S \subseteq Masters, S # {}
    PROVE  Highest(S) \in S
<1>1. Masters \subseteq 0 .. 3
  BY NAssumption DEF Masters
<1>2. \E r \in S : \A q \in S : r <= q
  <2>1. CASE 0 \in S
    BY <2>1, <1>1
  <2>2. CASE 0 \notin S /\ 1 \in S
    BY <2>2, <1>1
  <2>3. CASE 0 \notin S /\ 1 \notin S /\ 2 \in S
    BY <2>3, <1>1
  <2>4. CASE 0 \notin S /\ 1 \notin S /\ 2 \notin S
    <3>1. \A q \in S : q = 3
      BY <1>1, <2>4
    <3> QED BY <3>1
  <2> QED BY <2>1, <2>2, <2>3, <2>4
<1> QED BY <1>2 DEF Highest

\* The grant after an edge is to a master or to none.
LEMMA GrantType ==
    ASSUME WbArbGntReg \in Masters \cup {NoGnt}
    PROVE  WbArbGnt \in Masters \cup {NoGnt}
<1>1. CASE Requesters = {}
  BY <1>1 DEF WbArbGnt
<1>2. CASE Requesters # {}
  <2>1. Highest(Requesters) \in Masters
    BY <1>2, HighestOf DEF Requesters
  <2>2. 0 \in Masters
    BY NAssumption DEF Masters
  <2> QED BY <1>2, <2>1, <2>2 DEF WbArbGnt, GntBit
<1> QED BY <1>1, <1>2

LEMMA InitBus == Init => BusInv
<1> SUFFICES ASSUME Init PROVE BusInv
  OBVIOUS
<1>1. TypeOK
  BY DEF Init, ArbInit, TypeOK, SlaveStates
<1>2. Holding /\ Selecting /\ Owning
  BY MasterFacts DEF Init, Holding, Selecting, Owning
<1>3. Asking /\ Serving
  BY DEF Init, Asking, Serving
<1> QED BY <1>1, <1>2, <1>3 DEF BusInv

\* What a master is told of its strobe and what the slave does with it.
LEMMA Agreeing == BusInv => StrobeAgrees
<1> SUFFICES ASSUME BusInv, NEW i \in Masters, NEW j \in Slaves
             PROVE  /\ stb[i] = j /\ Accepted(i) => WbArbGntReg = i /\ SlaveAccepts(j)
                    /\ WbArbGntReg = i /\ SlaveAccepts(j) /\ ~Accepted(i) =>
                          wait[i] \in Slaves \ {j} /\ slv[wait[i]].who = i /\ ~slv[wait[i]].ack
  BY DEF StrobeAgrees
<1> USE MasterFacts
<1>1. ASSUME stb[i] = j, Accepted(i) PROVE WbArbGntReg = i /\ SlaveAccepts(j)
  <2>1. cyc[i]
    BY <1>1 DEF BusInv, Asking
  <2>2. WbArbGntReg = i /\ ~WbSysStall
    BY <1>1, <2>1 DEF Accepted, Stall
  <2>3. Sel(j)
    BY <1>1, <2>1, <2>2 DEF Sel, WbCyc
  <2> QED BY <2>2, <2>3 DEF WbSysStall, SlaveAccepts, SlaveCyc, Sel
<1>2. ASSUME WbArbGntReg = i, SlaveAccepts(j), ~Accepted(i)
      PROVE  wait[i] \in Slaves \ {j} /\ slv[wait[i]].who = i /\ ~slv[wait[i]].ack
  <2>1. stb[i] = j /\ Sel(j) /\ ~slv[j].stall
    BY <1>2 DEF SlaveAccepts, Sel
  <2>2. WbSysStall
    BY <1>2, <2>1 DEF Accepted, Stall
  <2>3. \A k \in Slaves : Sel(k) => k = j
    BY <2>1 DEF Sel
  <2>4. PICK k \in Slaves : SelReg[k] /\ ~slv[k].ack
    BY <2>1, <2>2, <2>3 DEF WbSysStall
  <2>5. wait[i] = k
    BY <1>2, <2>4 DEF BusInv, Selecting
  <2>6. slv[k].who = i
    BY <2>5 DEF BusInv, Holding
  <2>7. k # j
    BY <2>1, <2>4, <2>6 DEF BusInv, Serving
  <2> QED BY <2>4, <2>5, <2>6, <2>7
<1> QED BY <1>1, <1>2

\* An answer is for the access its master waits for.
LEMMA Routing == BusInv => AnswersRouted
BY MasterFacts DEF BusInv, Holding, Selecting, AnswersRouted, Answered, Ack, WbSysAck, WbSysErr

----------------------------------------------------------------------------
\* What an edge does to the bus, in one of two ways.

\* Nobody holds the bus, or its holder asks no more: nothing is in flight, and
\* nothing moves but the grant.
LEMMA Free ==
    ASSUME BusInv, ~WbCyc, Clock
    PROVE  /\ \A i \in Masters : wait[i] = None /\ wait'[i] = None
           /\ \A j \in Slaves : /\ ~SelReg[j] /\ ~SelReg'[j]
                               /\ slv[j].who = NoGnt /\ slv'[j].who = NoGnt
<1> USE MasterFacts
<1>1. \A i \in Masters : wait[i] = None
  BY DEF BusInv, Holding, Asking, TypeOK, WbCyc
<1>2. \A j \in Slaves : ~SelReg[j] /\ slv[j].who = NoGnt
  <2>1. \A j \in Slaves : slv[j].who \in Masters \cup {NoGnt}
    BY DEF BusInv, TypeOK, SlaveStates
  <2>2. \A j \in Slaves : ~SelReg[j]
    BY <1>1 DEF BusInv, Selecting
  <2>3. ASSUME NEW j \in Slaves, NEW i \in Masters, slv[j].who = i PROVE FALSE
    <3>1. WbArbGntReg = i /\ (wait[i] = j \/ stb[i] = j)
      BY <2>3 DEF BusInv, Owning
    <3>2. cyc[i]
      BY <3>1 DEF BusInv, Asking
    <3> QED BY <3>1, <3>2 DEF WbCyc
  <2> QED BY <2>1, <2>2, <2>3
<1>3. \A i \in Masters : ~Accepted(i)
  <2> SUFFICES ASSUME NEW i \in Masters PROVE ~Accepted(i)
    OBVIOUS
  <2>1. cyc[i] <=> stb[i] # None \/ wait[i] # None
    BY DEF BusInv, Asking
  <2> QED BY <2>1 DEF Accepted, Stall, WbCyc
<1>4. \A i \in Masters : wait'[i] = None
  BY <1>1, <1>3 DEF Clock, MasterEdge, StillWaits
<1>5. \A j \in Slaves : ~SelReg'[j]
  BY <1>2 DEF Clock, SelRegs, Sel
<1>6. \A j \in Slaves : slv'[j].who = NoGnt
  BY <1>2 DEF Clock, SlaveEdges, SlaveEdge, SlaveAccepts, SlaveCyc
<1> QED BY <1>1, <1>2, <1>4, <1>5, <1>6

\* The holder keeps the bus, and no other master waits.
LEMMA Held ==
    ASSUME BusInv, WbCyc, Clock
    PROVE  /\ WbArbGntReg \in Masters /\ WbArbGntReg' = WbArbGntReg
           /\ \A i \in Masters : i # WbArbGntReg => wait[i] = None /\ wait'[i] = None
           /\ \A i \in Masters : i = WbArbGntReg => wait'[i] = StillWaits(i)
<1> USE MasterFacts
<1>1. WbArbGntReg \in Masters
  BY DEF BusInv, TypeOK, WbCyc
<1>2. WbArbGntReg' = WbArbGntReg
  BY <1>1 DEF Clock, ArbEdge, WbArbGntRegEn, WbCyc
<1>3. ASSUME NEW i \in Masters, i # WbArbGntReg
      PROVE  wait[i] = None /\ wait'[i] = None
  <2>1. wait[i] = None
    BY <1>3 DEF BusInv, Holding, TypeOK
  <2>2. ~Accepted(i)
    BY <1>3 DEF Accepted, Stall, BusInv, Asking
  <2> QED BY <2>1, <2>2 DEF Clock, MasterEdge, StillWaits
<1>4. \A i \in Masters : wait'[i] = StillWaits(i)
  BY DEF Clock, MasterEdge
<1> QED BY <1>1, <1>2, <1>3, <1>4

LEMMA TypeStep == BusInv /\ Clock => TypeOK'
<1> SUFFICES ASSUME BusInv, Clock PROVE TypeOK'
  OBVIOUS
<1>1. wait' \in [Masters -> Slaves \cup {None}] /\ stb' \in [Masters -> Slaves \cup {None}]
  BY DEF Clock, MasterEdge, StillWaits, BusInv, TypeOK
<1>2. cyc' \in [Masters -> BOOLEAN]
  BY DEF Clock, MasterEdge
<1>3. WbArbGntReg' \in Masters \cup {NoGnt}
  BY GrantType DEF Clock, ArbEdge, BusInv, TypeOK
<1>4. SelReg' \in [Slaves -> BOOLEAN]
  BY DEF Clock, SelRegs
<1>5. slv' \in [Slaves -> SlaveStates]
  BY DEF Clock, SlaveEdges
<1> QED BY <1>1, <1>2, <1>3, <1>4, <1>5 DEF TypeOK

\* The rules of the ports.
LEMMA PortStep ==
    ASSUME BusInv, Clock
    PROVE  Asking' /\ Serving'
<1>1. Asking'
  BY DEF Clock, MasterEdge, Asking
<1>2. Serving'
  BY DEF Clock, SlaveEdges, SlaveEdge, Serving
<1> QED BY <1>1, <1>2

\* What the holder waits for, its slave and the select move together, and an
\* access taken behind its back stays one it strobes.
LEMMA HoldingStep ==
    ASSUME BusInv, Clock
    PROVE  Holding' /\ Selecting' /\ Owning'
<1> USE MasterFacts
<1>1. CASE ~WbCyc
  <2>1. /\ \A i \in Masters : wait'[i] = None
        /\ \A j \in Slaves : ~SelReg'[j] /\ slv'[j].who = NoGnt
    BY <1>1, Free
  <2> QED BY <2>1 DEF Holding, Selecting, Owning
<1>2. CASE WbCyc
  <2> DEFINE g == WbArbGntReg
  <2>1. /\ g \in Masters /\ WbArbGntReg' = g
        /\ \A i \in Masters : i # g => wait[i] = None /\ wait'[i] = None
        /\ wait'[g] = StillWaits(g)
    BY <1>2, Held
  <2> SUFFICES ASSUME NEW j \in Slaves
               PROVE  /\ wait'[g] = j => slv'[j].who = g
                      /\ wait'[g] = j <=> SelReg'[j]
                      /\ slv'[j].who = g => wait'[g] = j \/ stb'[g] = j
                      /\ \A i \in Masters : slv'[j].who = i => i = g
    BY <2>1 DEF Holding, Selecting, Owning
  <2>2. /\ wait[g] = j => slv[j].who = g
        /\ wait[g] = j <=> SelReg[j]
        /\ slv[j].who = g => wait[g] = j \/ stb[g] = j
        /\ \A i \in Masters : slv[j].who = i => i = g
    BY <2>1 DEF BusInv, Holding, Selecting, Owning
  <2>3. SlaveAccepts(j) => stb[g] = j
    BY DEF SlaveAccepts, Sel
  <2>4. Sel(j) /\ ~WbSysStall <=> stb[g] = j /\ Accepted(g)
    BY <1>2, <2>1 DEF Sel, Accepted, Stall
  <2>5. SelReg[j] => (Answered(g) <=> slv[j].ack \/ slv[j].err)
    <3>1. \A k \in Slaves : SelReg[k] => wait[g] = k
      BY <2>1 DEF BusInv, Selecting
    <3> QED BY <2>2, <3>1 DEF Answered, Ack, WbSysAck, WbSysErr
  <2>6. SelReg'[j] <=> \/ Sel(j) /\ ~WbSysStall
                       \/ SelReg[j] /\ ~(WbCyc /\ (slv[j].ack \/ slv[j].err))
    BY DEF Clock, SelRegs
  <2>7. slv'[j].who = IF SlaveAccepts(j) THEN g
                      ELSE IF slv[j].ack \/ slv[j].err THEN NoGnt ELSE slv[j].who
    BY DEF Clock, SlaveEdges, SlaveEdge
  <2>8. CASE Accepted(g)
    <3>1. wait'[g] = stb[g]
      BY <2>1, <2>8 DEF StillWaits
    <3>2. stb[g] = j => SlaveAccepts(j)
      BY <2>1, <2>8, Agreeing DEF StrobeAgrees
    <3>3. SelReg[j] => slv[j].ack
      BY <2>1, <2>8 DEF Accepted, Stall, WbSysStall
    <3>4. SelReg'[j] <=> stb[g] = j
      BY <1>2, <2>4, <2>6, <2>8, <3>3
    <3>5. CASE stb[g] = j
      BY <2>1, <2>7, <3>1, <3>2, <3>4, <3>5
    <3>6. CASE stb[g] # j
      <4>1. slv'[j].who = IF slv[j].ack \/ slv[j].err THEN NoGnt ELSE slv[j].who
        BY <2>3, <2>7, <3>6
      <4>2. slv[j].who = g => slv[j].ack
        BY <2>2, <3>3, <3>6
      <4>3. slv'[j].who \notin Masters
        BY <2>2, <4>1, <4>2
      <4> QED BY <2>1, <3>1, <3>4, <3>6, <4>3
    <3> QED BY <3>5, <3>6
  <2>9. CASE ~Accepted(g)
    <3>1. wait'[g] = IF Answered(g) THEN None ELSE wait[g]
      BY <2>1, <2>9 DEF StillWaits
    <3>2. stb[g] # None => stb'[g] = stb[g]
      BY <2>1, <2>9 DEF Clock, MasterEdge, NextStrobe
    <3>3. SelReg'[j] <=> SelReg[j] /\ ~(slv[j].ack \/ slv[j].err)
      BY <1>2, <2>4, <2>6, <2>9
    <3>4. wait'[g] = j <=> SelReg'[j]
      BY <2>2, <2>5, <3>1, <3>3
    <3>5. wait'[g] = j => slv'[j].who = g
      BY <2>2, <2>7, <3>1, <3>3, <3>4
    <3>6. ASSUME NEW i \in Masters, slv'[j].who = i
          PROVE  i = g /\ (wait'[g] = j \/ stb'[g] = j)
      <4>1. CASE SlaveAccepts(j)
        BY <2>3, <2>7, <3>2, <3>6, <4>1
      <4>2. CASE ~SlaveAccepts(j)
        <5>1. slv[j].who = i /\ ~slv[j].ack /\ ~slv[j].err
          BY <2>7, <3>6, <4>2
        <5>2. i = g /\ (wait[g] = j \/ stb[g] = j)
          BY <2>2, <5>1
        <5>3. CASE stb[g] = j
          BY <3>2, <5>2, <5>3
        <5>4. CASE wait[g] = j
          BY <2>2, <2>5, <3>1, <5>1, <5>2, <5>4
        <5> QED BY <5>2, <5>3, <5>4
      <4> QED BY <4>1, <4>2
    <3> QED BY <2>1, <3>4, <3>5, <3>6
  <2> QED BY <2>8, <2>9
<1> QED BY <1>1, <1>2

LEMMA StepBus == BusInv /\ [Clock]_vars => BusInv'
<1>1. CASE UNCHANGED vars
  BY <1>1 DEF vars, BusInv, TypeOK, Holding, Selecting, Owning, Asking, Serving, SlaveStates
<1>2. ASSUME BusInv, Clock PROVE BusInv'
  BY <1>2, TypeStep, PortStep, HoldingStep DEF BusInv
<1> QED BY <1>1, <1>2

----------------------------------------------------------------------------
LEMMA BusInvCorrect == Spec => []BusInv
<1>1. Init => BusInv
  BY InitBus
<1>2. BusInv /\ [Clock]_vars => BusInv'
  BY StepBus
<1> QED BY <1>1, <1>2, PTL DEF Spec

\* Whatever the number of masters and the slaves, an answer goes to the master
\* whose access it answers, from the one slave it waits for, also while another
\* slave that it strobes answers an access it was not told of.
THEOREM RoutingCorrect == Spec => []AnswersRouted
<1>1. Spec => []BusInv
  BY BusInvCorrect
<1>2. BusInv => AnswersRouted
  BY Routing
<1> QED BY <1>1, <1>2, PTL

\* A slave works only on an access that its master waits for or still strobes.
THEOREM NoOrphansCorrect == Spec => []NoOrphans
<1>1. Spec => []BusInv
  BY BusInvCorrect
<1>2. BusInv => NoOrphans
  <2> SUFFICES ASSUME BusInv, NEW j \in Slaves, slv[j].who # NoGnt
               PROVE  j \in {wait[slv[j].who], stb[slv[j].who]}
    BY DEF NoOrphans
  <2>1. slv[j].who \in Masters
    BY DEF BusInv, TypeOK, SlaveStates
  <2> QED BY <2>1 DEF BusInv, Owning
<1> QED BY <1>1, <1>2, PTL

\* A strobe its master believes accepted is taken by the slave, and one that is
\* taken without the master being told is one to another slave than that it waits for.
THEOREM StrobeCorrect == Spec => []StrobeAgrees
<1>1. Spec => []BusInv
  BY BusInvCorrect
<1>2. BusInv => StrobeAgrees
  BY Agreeing
<1> QED BY <1>1, <1>2, PTL

\* The bus never changes hands while its holder waits or a slave works for it.
THEOREM GrantHeldCorrect == Spec => GrantHeld
<1>1. Spec => []BusInv
  BY BusInvCorrect
<1>2. BusInv /\ [Clock]_vars =>
        [WbArbGntReg' # WbArbGntReg /\ WbArbGntReg # NoGnt =>
           /\ wait[WbArbGntReg] = None
           /\ \A j \in Slaves : slv[j].who # WbArbGntReg]_vars
  <2> SUFFICES ASSUME BusInv, Clock, WbArbGntReg' # WbArbGntReg, WbArbGntReg # NoGnt
               PROVE  /\ wait[WbArbGntReg] = None
                      /\ \A j \in Slaves : slv[j].who # WbArbGntReg
    OBVIOUS
  <2>1. WbArbGntReg \in Masters /\ ~cyc[WbArbGntReg]
    BY DEF Clock, ArbEdge, WbArbGntRegEn, BusInv, TypeOK
  <2>2. stb[WbArbGntReg] = None /\ wait[WbArbGntReg] = None
    BY <2>1 DEF BusInv, Asking
  <2> QED BY <2>1, <2>2, MasterFacts DEF BusInv, Owning
<1> QED BY <1>1, <1>2, PTL DEF Spec, GrantHeld

\* With two masters the bus is handed over at the edge its holder lets go of it,
\* whatever the slaves do.
THEOREM HandedOverCorrect ==
    ASSUME N = 2
    PROVE  Spec => HandedOver
<1>1. Clock => \A i, k \in Masters :
        WbArbGntReg = i /\ ~cyc[i] /\ k # i /\ cyc[k] => WbArbGntReg' # NoGnt /\ WbArbGntReg' # i
  <2> SUFFICES ASSUME Clock, NEW i \in Masters, NEW k \in Masters,
                      WbArbGntReg = i, ~cyc[i], k # i, cyc[k]
               PROVE  WbArbGntReg' # NoGnt /\ WbArbGntReg' # i
    OBVIOUS
  <2>1. Masters = {0, 1} /\ NoGnt = 2
    BY DEF Masters, NoGnt
  <2>2. Requesters = {k}
    BY <2>1 DEF Requesters
  <2>3. Highest(Requesters) = k
    BY <2>2, HighestOf DEF Requesters
  <2>4. WbArbGntReg' = k
    BY <2>1, <2>2, <2>3 DEF Clock, ArbEdge, WbArbGntRegEn, WbArbGnt, GntBit
  <2> QED BY <2>1, <2>4
<1> QED BY <1>1, PTL DEF Spec, HandedOver

=============================================================================
