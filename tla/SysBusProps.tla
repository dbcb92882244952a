---------------------------- MODULE SysBusProps ----------------------------
(***************************************************************************)
(* What the system bus must satisfy.                                       *)
(***************************************************************************)
EXTENDS SysBus

----------------------------------------------------------------------------
\* Every register holds a value of its type.
TypeOK ==
    /\ cyc \in [Masters -> BOOLEAN]
    /\ WbArbGntReg \in Masters \cup {NoGnt}
    /\ stb \in [Masters -> Slaves \cup {None}]
    /\ wait \in [Masters -> Slaves \cup {None}]
    /\ SelReg \in [Slaves -> BOOLEAN]
    /\ slv \in [Slaves -> SlaveStates]

\* An answer reaches the master whose access it is the answer to, and it comes
\* from the slave that master waits for.
AnswersRouted ==
    \A i \in Masters : Answered(i) =>
        /\ wait[i] # None
        /\ slv[wait[i]].who = i
        /\ \A j \in Slaves : SelReg[j] => j = wait[i]

\* An access a slave works on is one its master waits for or still strobes.  The
\* slave may have taken it behind the back of a master that waits for another
\* slave; then the master holds on to its strobe and to the bus until it is done.
NoOrphans == \A j \in Slaves : slv[j].who # NoGnt => j \in {wait[slv[j].who], stb[slv[j].who]}

\* A master is told that its strobe is accepted only if the slave takes it; and
\* a slave takes a strobe its master is not told of, and so will see it again,
\* only while another slave owes that master an answer: the strobe is not gated
\* by it (psx_bus.v:310-314) and the stall is.
StrobeAgrees ==
    \A i \in Masters, j \in Slaves :
        /\ stb[i] = j /\ Accepted(i) => WbArbGntReg = i /\ SlaveAccepts(j)
        /\ WbArbGntReg = i /\ SlaveAccepts(j) /\ ~Accepted(i) =>
              wait[i] \in Slaves \ {j} /\ slv[wait[i]].who = i /\ ~slv[wait[i]].ack

\* The bus changes hands only when its holder waits for no answer and no slave
\* works for it, be it on an access the holder was never told of.
GrantHeld ==
    [][WbArbGntReg' # WbArbGntReg /\ WbArbGntReg # NoGnt =>
         /\ wait[WbArbGntReg] = None
         /\ \A j \in Slaves : slv[j].who # WbArbGntReg]_vars

\* With two masters, one that waits gets the bus as soon as the other lets go.
HandedOver ==
    [][\A i, k \in Masters :
        WbArbGntReg = i /\ ~cyc[i] /\ k # i /\ cyc[k] => WbArbGntReg' # NoGnt /\ WbArbGntReg' # i]_vars

\* A strobe is accepted in the end, provided the other masters let go of the
\* bus again and again, and every access accepted is answered.
Progress ==
    \A k \in Masters :
        /\ (\A i \in Masters \ {k} : []<>~cyc[i]) => (stb[k] # None ~> Accepted(k))
        /\ wait[k] # None ~> Answered(k)
=============================================================================
