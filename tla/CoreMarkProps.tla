--------------------------- MODULE CoreMarkProps ---------------------------
(***************************************************************************)
(* That a run of CoreMark measures and reports what it means to.           *)
(***************************************************************************)
EXTENDS CoreMark

\* The corruption can be undone: the seeds are equal and turn no character
\* of the block into a comma, which the undoing would skip.
Undoable ==
    /\ conf.seed1 = conf.seed2
    /\ \A c \in ToSet(Prepared[conf].state) :
          c # Comma => xor8(c, conf.seed1 % 256) # Comma

\* A block keeps a zero whatever is corrupted, so that the scan ends in it.
EndsInside(block) ==
    \A step \in {Step(conf.seed1, n) : n \in {k \in 0 .. LastItem(conf.size) : k % 8 = 0}} :
        0 \in ToSet(Corrupted(block, conf.seed1, step))

----------------------------------------------------------------------------

\* What the benchmark may leave of a block: a byte that the corruption turns
\* into a comma stays one, as the undoing skips it; any other is as it was.
Returned(block, was, seed) ==
    /\ DOMAIN block = DOMAIN was
    /\ \A n \in DOMAIN was :
          block[n] = was[n] \/ (block[n] = Comma /\ xor8(was[n], seed % 256) = Comma)

\* Every benchmark leaves the memory of its context as it was, so that all
\* iterations do the same work: the matrix "is back to original contents"
\* (core_matrix.c:115) whatever the seeds, and the block of the state machine
\* has its corruption undone "[if] seed1 and seed2 are equal"
\* (core_state.c:88), but for the bytes that become commas, after however
\* many iterations.
MemoryRestored ==
    \A c \in Contexts :
        /\ Memory(c).A = Prepared[conf].A
        /\ conf.seed1 = conf.seed2 => Returned(Memory(c).state, Prepared[conf].state, conf.seed1)

\* No benchmark leaves its part of the memory: the matrices end where the
\* next block begins (the run has blocks of one size; WithinBlocksCorrect
\* tells the sizes for which they do not), and a scan of the state machine's
\* block ends before the block does, corrupted or not.
WithinBlocks ==
    /\ MatrixEnd(BlockSize(conf.size), BlockAt(conf.size, 1)) <= BlockAt(conf.size, 2)
    /\ \A c \in Contexts : EndsInside(Memory(c).state)

SameResults ==
    at = "done" /\ Undoable =>
        \A c \in 0 .. conf.contexts - 1 : Outputs(results[c]) = Outputs(results[0])

\* All contexts report the same results, and those that main knows, although
\* main has run the first one before to find the number of iterations, and
\* whichever way the results come back.
ContextsAgree ==
    /\ SameResults
    /\ at = "done" /\ Undoable /\ IsKnown => \A c \in 0 .. conf.contexts - 1 : Wrong(c) = 0

\* With the number of iterations main finds by itself a run always takes the
\* ten seconds that main asks of a valid one, if there is a context to run:
\* M0 asks for none.
LongEnough ==
    at = "done" /\ conf.iterations = 0 /\ conf.contexts # 0 => elapsed >= Ten * conf.speed

\* Main comes to its report, unless a process sent its results before main
\* had bound the socket to receive them.
Reported == <>(at = "done" \/ lost)

----------------------------------------------------------------------------

\* "Correct operation validated. [...] (*Only when run is successful*)"
\* (readme.txt:201): that message stands for results that were compared, of a
\* run of ten seconds at least.
ValidatedIsValid ==
    verdict = "validated" => IsKnown /\ elapsed >= Ten * conf.speed

=============================================================================
