------------------------------ MODULE CoreMark ------------------------------
(***************************************************************************)
(* CoreMark's framework: main (core_main.c) sets up a block of memory per  *)
(* context, finds out how many iterations to run, runs iterate in every    *)
(* context at the same time (linux/core_portme.c: threads, processes with  *)
(* shared memory, or processes with sockets), gathers the results and      *)
(* validates them.                                                         *)
(*                                                                         *)
(* The state and the matrix benchmark are those of CoreState and           *)
(* CoreMatrix, byte by byte.  The list benchmark, of which CoreBenchList   *)
(* shows that it returns the list as it was, is a CRC and the items it     *)
(* computes, in the order of their indices where the code takes the order  *)
(* its sort comes to them in: each computes once, and the order is the     *)
(* same in every context.  An iteration is one step: contexts share no     *)
(* memory that they write.                                                 *)
(***************************************************************************)
EXTENDS CoreState, CoreMatrix, FiniteSets

CONSTANTS
    Methods,     \* of "pthread", "fork", "socket": how contexts run
    MULTITHREAD, \* contexts there is memory for
    Commands,    \* argument lists: [M<n>,] the seeds, iterations (0 is automatic),
                 \* algorithms, -, and the size of the memory
    TOTAL_DATA_SIZE, \* that size if it is not given
    sizeof,      \* of the port's data types
    Speeds,      \* iterations per second
    Ten,         \* 10 in the code: the factor of iterations, and the seconds of a run
    U32,         \* 2^32 in the code: an ee_u32 counts modulo this
    ListCrc,     \* what core_bench_list returns for finder_idx 1 and -1
    known_crc    \* main's tables: for the seeds and the size of a block the CRCs
                 \* of a run by itself

ASSUME CoreMarkAssumption ==
    /\ MULTITHREAD \in Nat \ {0} /\ TOTAL_DATA_SIZE \in Nat
    /\ Ten \in Nat \ {0} /\ Speeds \subseteq Nat \ {0}
    /\ Methods \subseteq {"pthread", "fork", "socket"}
    /\ \A run \in DOMAIN known_crc : DOMAIN known_crc[run] = {"crclist", "crcmatrix", "crcstate"}
    /\ IsFiniteSet(DOMAIN sizeof)

\* Main counts the errors of all contexts in an ee_s16.
ASSUME ErrorsAssumption == 3 * MULTITHREAD + Cardinality(DOMAIN sizeof) < 32767

\* The iterations of 22 seconds can be counted: the code asks for no more,
\* and on a machine of 195 million iterations a second they cannot.
ASSUME SpeedAssumption == U32 \in Nat /\ \A v \in Speeds : (2 * Ten + 2) * v < U32

Contexts == 0 .. MULTITHREAD - 1

VARIABLES
    conf,     \* the arguments of the run
    at,       \* where main is
    i,        \* its loop counter
    results,  \* main's results, with the memory they point to
    child,    \* the copies that forked processes work on
    proc,     \* of each context: "none", "iterate" or "ended"
    turn,     \* iterate's loop counter
    shm,      \* by key: the outputs in the shared memory
    bound,    \* ports main has bound a socket to
    inbox,    \* by port: the datagrams that wait
    elapsed,  \* the time the benchmark took, in units of 1 / speed seconds
    verdict,  \* what main reports
    lost      \* history: a datagram came before its socket was bound

workers == << results, child, proc, turn >>
links   == << shm, bound, inbox, lost >>
vars    == << conf, at, i, workers, links, elapsed, verdict >>

----------------------------------------------------------------------------
\* main's set-up.

\* A first argument M<n> is the port's: the contexts to run, at most those
\* there is memory for (which is what a negative, unsigned n asks for).
portable_init(argv) ==
    IF argv # << >> /\ CharAt(argv[1], 1) = 77
    THEN LET n == parseval(Tail(argv[1]))
         IN [argv |-> Tail(argv), contexts |-> IF n \in 0 .. MULTITHREAD THEN n ELSE MULTITHREAD]
    ELSE [argv |-> argv, contexts |-> MULTITHREAD]

\* The short forms of the validation and the performance run.
Defaulted(seeds) ==
    CASE seeds = << 0, 0, 0 >> -> << 0, 0, 102 >>
      [] seeds = << 1, 0, 0 >> -> << 13333, 13333, 102 >>
      [] OTHER -> seeds

\* All algorithms are run.
ALL_ALGORITHMS_MASK == 7
RunsAll(cmd) == get_seed_args(5, portable_init(cmd).argv) \in {0, ALL_ALGORITHMS_MASK}

Configured(cmd, method, speed) ==
    LET port == portable_init(cmd)
        s    == Defaulted([k \in 1 .. 3 |-> get_seed(k, port.argv)])
        malloc_override == get_seed(7, port.argv)
    IN [method |-> method, speed |-> speed, contexts |-> port.contexts,
        seed1 |-> s[1], seed2 |-> s[2], seed3 |-> s[3],
        iterations |-> get_seed_args(4, port.argv) % U32,
        size |-> IF malloc_override # 0 THEN malloc_override ELSE TOTAL_DATA_SIZE]

Configurations ==
    {Configured(cmd, m, v) : cmd \in {x \in Commands : RunsAll(x)}, m \in Methods, v \in Speeds}

\* Arguments are texts that parseval makes a number of, and each algorithm
\* gets some memory.
ASSUME ArgumentAssumption ==
    /\ \A cmd \in Commands :
          cmd \in Seq(Seq(Char)) /\ \A k \in DOMAIN cmd : parseval(cmd[k]) \in Int
    /\ \A c \in Configurations : c.size >= 3

\* Three algorithms share the memory; list, matrix, state have block 0, 1, 2.
BlockSize(total) == total \div 3
BlockAt(total, algorithm) == BlockSize(total) * algorithm

NoOutputs == [crc |-> 0, crclist |-> 0, crcmatrix |-> 0, crcstate |-> 0]
Outputs(res) == [crc |-> res.crc, crclist |-> res.crclist, crcmatrix |-> res.crcmatrix, crcstate |-> res.crcstate]
WithOutputs(res, out) ==
    [res EXCEPT !.crc = out.crc, !.crclist = out.crclist, !.crcmatrix = out.crcmatrix, !.crcstate = out.crcstate]

\* A context after the init calls.  The matrix is made from (ee_s32)seed1 |
\* (seed2 << 16), which is seed1 if that is negative.
Prepared ==
    [c \in Configurations |->
        LET blk == BlockSize(c.size)
            mat == core_init_matrix(blk, IF c.seed1 < 0 THEN c.seed1 ELSE c.seed1 + 65536 * c.seed2)
        IN [iterations |-> c.iterations, N |-> mat.N, A |-> mat.A, B |-> mat.B,
            state |-> core_init_state(blk, c.seed1),
            crc |-> 0, crclist |-> 0, crcmatrix |-> 0, crcstate |-> 0]]

Init ==
    /\ conf \in Configurations
    /\ at = IF conf.iterations = 0 THEN "calibrate" ELSE "start"
    /\ i = 0
    /\ results = [c \in Contexts |-> [Prepared[conf] EXCEPT !.iterations = IF c = 0 /\ @ = 0 THEN 1 ELSE @]]
    /\ child = << >>
    /\ proc = [c \in Contexts |-> "none"]
    /\ turn = [c \in Contexts |-> 0]
    /\ shm = << >> /\ bound = {} /\ inbox = << >> /\ lost = FALSE
    /\ elapsed = 0 /\ verdict = "none"

----------------------------------------------------------------------------
\* iterate.

\* Item n of the list holds its number and four bits of a pattern.
Datpat(seed, n) == xor(U16(seed), n) % 16
Dat(seed, n)    == Datpat(seed, n) * 8 + (n % 8)

\* The constant of the matrix is the pattern twice; so is the period of the
\* corruption, unless that is too short.
Dtype(seed, n) == Datpat(seed, n) * 17
Step(seed, n)  == IF Dtype(seed, n) < 34 THEN 34 ELSE Dtype(seed, n)

First(old, new) == IF old = 0 THEN new ELSE old

\* calc_func of item n, in a run with the arguments c: the memory and the
\* results after the state and the matrix benchmark.
StateDone(res, s) ==
    [res EXCEPT !.state = s.block, !.crc = crcu16(s.crc, @), !.crcstate = First(@, s.crc)]
MatrixDone(res, m) ==
    [res EXCEPT !.A = m.A, !.crc = crcu16(m.crc, @), !.crcmatrix = First(@, m.crc)]

Calculated(c, res, n) ==
    CASE n % 8 = 0 -> StateDone(res, core_bench_state(res.state, c.seed1, c.seed2, Step(c.seed1, n), res.crc))
      [] n % 8 = 1 -> MatrixDone(res, core_bench_matrix(res, Dtype(c.seed1, n), res.crc))
      [] OTHER     -> [res EXCEPT !.crc = crcu16(Dat(c.seed1, n) * 257, @)]

\* The last item that has room in the list's block, behind head and tail.
LastItem(total) == (BlockSize(total) \div 20) - 6

\* Turn k: the sort by data computes every item, the second call none.
ListDone(res, crc, k) == [res EXCEPT !.crc = crc, !.crclist = IF k = 0 THEN crc ELSE @]

\* An iteration: done[n] is what the first n items leave.
Items(total) == IF LastItem(total) < 0 THEN 0 ELSE LastItem(total) + 1

Iterated(c, start, k) ==
    LET done[n \in 0 .. Items(c.size)] == IF n = 0 THEN start ELSE Calculated(c, done[n - 1], n - 1)
        res == done[Items(c.size)]
    IN ListDone(res, crcu16(ListCrc[-1], crcu16(ListCrc[1], res.crc)), k)

\* iterate begins.
Entered_NoReset(res) == res
Entered(res) == WithOutputs(res, NoOutputs)

\* What the system keeps for a process or a key: f with e in the place x.
Put(f, x, e) == [y \in {x} \cup DOMAIN f |-> IF y = x THEN e ELSE f[y]]

\* Who has its own copy of the memory.
Forks == conf.method # "pthread"
Own(c) == Forks /\ c \in DOMAIN child
Memory(c) == IF Own(c) THEN child[c] ELSE results[c]

Running(c) == proc[c] = "iterate" /\ turn[c] < Memory(c).iterations

Turn(c) ==
    /\ Running(c)
    /\ turn' = [turn EXCEPT ![c] = @ + 1]
    /\ IF Own(c) THEN child' = [child EXCEPT ![c] = Iterated(conf, @, turn[c])] /\ UNCHANGED results
                 ELSE results' = [results EXCEPT ![c] = Iterated(conf, @, turn[c])] /\ UNCHANGED child
    /\ UNCHANGED << conf, at, i, proc, links, elapsed, verdict >>

----------------------------------------------------------------------------
\* main: how many iterations?

Longer_Once(n) == Ten
Longer(n) == (Ten * n) % U32

\* Ten times as many, run by main itself in context 0.
Calibrate ==
    /\ at = "calibrate"
    /\ at' = "measure"
    /\ results' = [results EXCEPT ![0] = Entered([results[0] EXCEPT !.iterations = Longer(@)])]
    /\ proc' = [proc EXCEPT ![0] = "iterate"] /\ turn' = [turn EXCEPT ![0] = 0]
    /\ UNCHANGED << conf, i, child, links, elapsed, verdict >>

\* n iterations took n / speed seconds: enough for about ten seconds.
Lengthened_Floor(n, speed) == n * (Ten \div (n \div speed))
Lengthened(n, speed) == (n * (1 + Ten \div (n \div speed))) % U32

Measured ==
    LET n == results[0].iterations
    IN /\ at = "measure" /\ ~Running(0)
       /\ proc' = [proc EXCEPT ![0] = "none"]
       /\ IF n < conf.speed
          THEN at' = "calibrate" /\ UNCHANGED results
          ELSE /\ at' = "start"
               /\ results' = [results EXCEPT ![0].iterations = Lengthened(n, conf.speed)]
       /\ UNCHANGED << conf, i, child, turn, links, elapsed, verdict >>

----------------------------------------------------------------------------
\* The contexts are started, run and stopped.

\* key_id: the keys 4321, ... and the ports 7654, ... count up.
Port(c) == c

core_start_parallel ==
    LET res == Entered([results[i] EXCEPT !.iterations = results[0].iterations])
    IN /\ at = "start" /\ i < conf.contexts
       /\ proc' = [proc EXCEPT ![i] = "iterate"] /\ turn' = [turn EXCEPT ![i] = 0]
       /\ IF Forks THEN /\ child' = Put(child, i, res)
                        /\ results' = [results EXCEPT ![i].iterations = res.iterations]
                   ELSE results' = [results EXCEPT ![i] = res] /\ UNCHANGED child
       /\ IF conf.method = "socket" THEN at' = "bind" /\ UNCHANGED i
                                    ELSE i' = i + 1 /\ UNCHANGED at
       /\ UNCHANGED << conf, links, elapsed, verdict >>

\* Only after the fork has main a socket to receive from.
Bind ==
    /\ at = "bind"
    /\ bound' = bound \cup {Port(i)}
    /\ at' = "start" /\ i' = i + 1
    /\ UNCHANGED << conf, workers, shm, inbox, lost, elapsed, verdict >>

AllStarted ==
    /\ at = "start" /\ i = conf.contexts
    /\ at' = "stop" /\ i' = 0
    /\ UNCHANGED << conf, workers, links, elapsed, verdict >>

\* iterate returns in a thread, or in a process that passes its outputs on
\* and exits.
Exit(c) ==
    LET out == Outputs(Memory(c))
    IN /\ proc[c] = "iterate" /\ ~Running(c) /\ at \notin {"measure"}
       /\ proc' = [proc EXCEPT ![c] = "ended"]
       /\ CASE conf.method = "fork" ->
                 shm' = Put(shm, Port(c), out) /\ UNCHANGED << bound, inbox, lost >>
            [] conf.method = "socket" /\ Port(c) \in bound ->
                 inbox' = Put(inbox, Port(c), Append(IF Port(c) \in DOMAIN inbox THEN inbox[Port(c)] ELSE << >>, out))
                 /\ UNCHANGED << shm, bound, lost >>
            [] conf.method = "socket" /\ Port(c) \notin bound ->
                 lost' = TRUE /\ UNCHANGED << shm, bound, inbox >>
            [] OTHER -> UNCHANGED links
       /\ UNCHANGED << conf, at, i, results, child, turn, elapsed, verdict >>

\* Thread joined; process waited for and its shared memory read; datagram
\* received, whoever sent it, and process waited for.
core_stop_parallel ==
    /\ at = "stop" /\ i < conf.contexts /\ proc[i] = "ended"
    /\ CASE conf.method = "pthread" -> UNCHANGED << results, inbox >>
         [] conf.method = "fork" ->
              results' = [results EXCEPT ![i] = WithOutputs(@, shm[Port(i)])] /\ UNCHANGED inbox
         [] conf.method = "socket" ->
              /\ Port(i) \in DOMAIN inbox /\ inbox[Port(i)] # << >>
              /\ results' = [results EXCEPT ![i] = WithOutputs(@, Head(inbox[Port(i)]))]
              /\ inbox' = [inbox EXCEPT ![Port(i)] = Tail(@)]
    /\ i' = i + 1
    /\ UNCHANGED << conf, at, child, proc, turn, shm, bound, lost, elapsed, verdict >>

----------------------------------------------------------------------------
\* The seeds and the size of a block, which the code tells by their CRC.
RunOf(c) == << c.seed1, c.seed2, c.seed3, BlockSize(c.size) >>
Run     == RunOf(conf)
IsKnown == Run \in DOMAIN known_crc

Wrong(c) == Cardinality({x \in DOMAIN known_crc[Run] : results[c][x] # known_crc[Run][x]})

Wrongs ==
    LET sum[n \in 0 .. conf.contexts] == IF n = 0 THEN 0 ELSE sum[n - 1] + Wrong(n - 1)
    IN sum[conf.contexts]

\* -1 for seeds that are not known, one more for each type of a wrong size
\* and one for a run of less than ten seconds.
total_errors(time) ==
    (IF IsKnown THEN Wrongs ELSE -1)
      + check_data_types(sizeof)
      + (IF time < Ten * conf.speed THEN 1 ELSE 0)

\* The time the run took: the contexts had a processor each, or shared one.
get_time == {results[0].iterations, conf.contexts * results[0].iterations}

Report ==
    /\ at = "stop" /\ i = conf.contexts
    /\ at' = "done"
    /\ elapsed' \in get_time
    /\ LET e == total_errors(elapsed')
       IN verdict' = IF e = 0 THEN "validated" ELSE IF e > 0 THEN "errors" ELSE "unknown"
    /\ UNCHANGED << conf, i, workers, links >>

----------------------------------------------------------------------------
Main == \/ Calibrate \/ Measured \/ core_start_parallel \/ Bind \/ AllStarted
        \/ core_stop_parallel \/ Report
Worker(c) == Turn(c) \/ Exit(c)

Next == Main \/ \E c \in Contexts : Worker(c)

Spec == Init /\ [][Next]_vars

\* The operating system runs every thread and process.  (Turn(c) is the step
\* that counts turn[c] up.)
FairSpec ==
    /\ Spec
    /\ WF_vars(Main)
    /\ \A c \in Contexts : /\ WF_turn(Running(c) /\ turn' = [turn EXCEPT ![c] = @ + 1])
                           /\ WF_vars(Exit(c))

=============================================================================
