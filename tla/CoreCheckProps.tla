--------------------------- MODULE CoreCheckProps ---------------------------
(***************************************************************************)
(* What the C models promise the test benches, and the causes, named in    *)
(* CoreCheck, for which they do not keep it.                               *)
(***************************************************************************)
EXTENDS CoreCheck

Untouched(k) == causes \cap k = {}

\* Causes that leave the registers, or the prediction, of a model wrong.
PsxData   == {"exception", "unsupported", "cop0", "sign", "half"}
MliteData == {"exception", "unsupported", "cop0", "mliteZero", "alias", "image"}
Control   == {"slot", "region"}
MliteControl == Control \cup {"far"}

\* Causes that change how many addresses a model predicts.
Unpredicted == {"exception", "unsupported"}

\* Bound: a path goes on while one of the models is to follow it.
Bounded == Untouched(PsxData \cup Control) \/ Untouched(MliteData \cup Control)

Excuse(k) ==
    CASE k[2] = "empty"                      -> Unpredicted
      [] k[1] = "psx" /\ k[2] = "inst"       -> PsxData \cup Control
      [] k[1] = "psx" /\ k[2] = "data"       -> PsxData \cup {"zero"}
      [] k[1] = "psx" /\ k[2] \notin {"inst", "data", "empty"}   -> PsxData
      [] k[1] = "mlite" /\ k[2] = "inst"     -> MliteData \cup MliteControl
      [] k[1] = "mlite" /\ k[2] = "data"     -> MliteData \cup {"lane"}
      [] OTHER                               -> MliteData

SameRegisters(x) ==
    /\ \A i \in GPR \ {0} : x.r[i] = d.r[i]
    /\ x.lo = d.lo /\ x.hi = d.hi

\* The addresses a model has promised: the next fetch, and after a taken
\* branch the one after it.
Promises(q, x) ==
    q.inst = IF x.dlySlot THEN << d.pc, d.npc >> ELSE << d.pc >>

----------------------------------------------------------------------------

\* The monitor of PSX_TOP reports a fetch, an access or a register write of a
\* correct CPU as wrong only after the program did something the model is
\* known not to follow; each checker has its own list.
PsxNoFalseAlarm == \A k \in alarms : k[1] = "psx" => ~Untouched(Excuse(k))

\* The same for the monitor of MIPS1_CORE, whose model has its own memory.
MliteNoFalseAlarm == \A k \in alarms : k[1] = "mlite" => ~Untouched(Excuse(k))

\* Between two calls the model of PSX_TOP holds the CPU's registers, LO and
\* HI, and its queue holds the next fetch and, in a delay slot, the target:
\* the one push of most instructions, the two of a taken branch and the none
\* of its slot add up.
PsxFollows ==
    /\ Untouched(PsxData) => SameRegisters(s)
    /\ Untouched(PsxData \cup Control) => Promises(refQ, s)

\* The model of MIPS1_CORE follows the CPU as well, and its memory is the
\* CPU's: it predicts the data of loads from the stores it has seen.
MliteFollows ==
    /\ Untouched(MliteData) =>
          /\ SameRegisters(m.cpu)
          /\ \A a \in DOMAIN m.mem : image[a] = 0 => m.mem[a] = d.mem[a]
    /\ Untouched(MliteData \cup MliteControl) => Promises(mliteQ, m.cpu)

\* The simulator's own loop, which finds its way by pc and pc_next, goes where
\* the CPU goes, likely branches and exceptions apart; a link address is not the
\* CPU's, and a jump in a delay slot takes its region from the wrong address.
LoopFollows ==
    Untouched((MliteData \cup {"link", "slot"}) \ {"mliteZero"}) =>
        /\ c.cpu.pc = d.pc /\ c.cpu.pc_next = d.npc
        /\ SameRegisters(c.cpu)

\* Every write of a register is predicted, and for MIPS1_CORE, which compares
\* them late, every access of whole words: what the checkers of a stream have
\* left is the same on both sides, in the same order.
StreamsAgree ==
    /\ \A k \in {"reg", "lo", "hi"} :
          /\ Untouched(PsxData)   => refQ[k] = dutQ[k]
          /\ Untouched(MliteData) => mliteQ[k] = mdutQ[k]
    /\ Untouched(MliteData \cup {"lane"}) => mliteQ.data = mdutQ.data

\* "Now the CPU model has been called, there should be a predicted Inst M2S in
\* the Inst FIFO" (mips1_core_monitor.v:797): the queue of fetches is popped
\* empty only after an exception or an instruction the models do not know.
PredictedInst == \A k \in alarms : k[2] = "empty" => ~Untouched(Excuse(k))

=============================================================================
