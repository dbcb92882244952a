----------------------------- MODULE CoreState -----------------------------
(***************************************************************************)
(* The state machine benchmark of CoreMark (core_state.c): a block of      *)
(* tokens that ends with zeros is scanned, corrupted, scanned again and    *)
(* put right.  A block is a sequence of bytes.                             *)
(***************************************************************************)
EXTENDS CoreUtil, CoreBits

Comma == 44
Char  == 0 .. 255

intpat == << << 53, 48, 49, 50 >>,                       \* 5012
             << 49, 50, 51, 52 >>,                       \* 1234
             << 45, 56, 55, 52 >>,                       \* -874
             << 43, 49, 50, 50 >> >>                     \* +122
floatpat == << << 51, 53, 46, 53, 52, 52, 48, 48 >>,     \* 35.54400
               << 46, 49, 50, 51, 52, 53, 48, 48 >>,     \* .1234500
               << 45, 49, 49, 48, 46, 55, 48, 48 >>,     \* -110.700
               << 43, 48, 46, 54, 52, 52, 48, 48 >> >>   \* +0.64400
scipat == << << 53, 46, 53, 48, 48, 101, 43, 51 >>,      \* 5.500e+3
             << 45, 46, 49, 50, 51, 101, 45, 50 >>,      \* -.123e-2
             << 45, 56, 55, 101, 43, 56, 51, 50 >>,      \* -87e+832
             << 43, 48, 46, 54, 101, 45, 49, 50 >> >>    \* +0.6e-12
errpat == << << 84, 48, 46, 51, 101, 45, 49, 70 >>,      \* T0.3e-1F
             << 45, 84, 46, 84, 43, 43, 84, 113 >>,      \* -T.T++Tq
             << 49, 84, 51, 46, 52, 101, 52, 122 >>,     \* 1T3.4e4z
             << 51, 52, 46, 48, 101, 45, 84, 94 >> >>    \* 34.0e-T^

Pattern(seed) ==
    LET pat == CASE seed % 8 \in {0, 1, 2} -> intpat [] seed % 8 \in {3, 4} -> floatpat
                 [] seed % 8 \in {5, 6} -> scipat [] OTHER -> errpat
    IN pat[((seed \div 8) % 4) + 1]

\* The first n tokens, with a comma after each; as many as leave more than a
\* byte.  (A token has at least four characters.)
Tokens(seed, size) ==
    LET text[n \in 0 .. size \div 5] ==
            IF n = 0 THEN << >> ELSE text[n - 1] \o Pattern(seed + n) \o << Comma >>
        fits == {n \in DOMAIN text : n = 0 \/ Len(text[n]) < size}
    IN text[CHOOSE n \in fits : \A m \in fits : m <= n]

\* The rest of the block is zero.
core_init_state(size, seed) ==
    LET text == Tokens(seed, size - 1)
    IN text \o [k \in 1 .. size - Len(text) |-> 0]

----------------------------------------------------------------------------
CoreStates == << "START", "INVALID", "S1", "S2", "INT", "FLOAT", "EXPONENT", "SCIENTIFIC" >>

Class(c) ==
    CASE c \in 48 .. 57 -> "digit" [] c \in {43, 45} -> "sign" [] c = 46 -> "dot"
      [] c \in {69, 101} -> "e" [] OTHER -> "none"

\* The moves that do not end in INVALID.
Moves ==
    [START      |-> [digit |-> "INT", sign |-> "S1", dot |-> "FLOAT"],
     S1         |-> [digit |-> "INT", dot |-> "FLOAT"],
     INT        |-> [digit |-> "INT", dot |-> "FLOAT"],
     FLOAT      |-> [digit |-> "FLOAT", e |-> "S2"],
     S2         |-> [sign |-> "EXPONENT"],
     EXPONENT   |-> [digit |-> "SCIENTIFIC"],
     SCIENTIFIC |-> [digit |-> "SCIENTIFIC"]]

Moved(state, c) ==
    IF Class(c) \in DOMAIN Moves[state] THEN Moves[state][Class(c)] ELSE "INVALID"

\* A state is counted when it is left, SCIENTIFIC never; INVALID when it is
\* entered from the first or the last state.
Counted(track, state, to) ==
    LET left == IF to = state \/ state = "SCIENTIFIC" THEN track
                ELSE [track EXCEPT ![state] = @ + 1]
    IN IF to = "INVALID" /\ state \in {"START", "SCIENTIFIC"}
       THEN [left EXCEPT ![to] = @ + 1] ELSE left

Counts == [ToSet(CoreStates) -> Nat]

\* One token, from place k: where it ends, in which state, and the counts.
core_state_transition(block, k, track) ==
    LET scan[j \in DOMAIN block, state \in ToSet(CoreStates), t \in Counts] ==
            CASE block[j] = 0 \/ state = "INVALID" -> [k |-> j, state |-> state, track |-> t]
              [] block[j] = Comma -> [k |-> j + 1, state |-> state, track |-> t]
              [] OTHER -> LET to == Moved(state, block[j])
                          IN scan[j + 1, to, Counted(t, state, to)]
    IN scan[k, "START", track]

\* The tokens of a block up to its first zero.
Scanned(block, before) ==
    LET scan[k \in DOMAIN block, n \in [track : Counts, final : Counts]] ==
            LET After(t) == scan[t.k, [track |-> t.track, final |-> [n.final EXCEPT ![t.state] = @ + 1]]]
            IN IF block[k] = 0 THEN n ELSE After(core_state_transition(block, k, n.track))
    IN scan[1, before]

Corrupted(block, seed, step) ==
    [k \in DOMAIN block |->
        IF (k - 1) % step = 0 /\ block[k] # Comma THEN xor8(block[k], seed % 256) ELSE block[k]]

\* Both scans: the corrupted block and the CRC of the counts.
CountsCrc(n, crc) ==
    LET sum[k \in 0 .. Len(CoreStates)] ==
            IF k = 0 THEN crc
            ELSE crcu32(n.track[CoreStates[k]], crcu32(n.final[CoreStates[k]], sum[k - 1]))
    IN sum[Len(CoreStates)]

ScannedTwice(block, bad) ==
    LET zero == [s \in ToSet(CoreStates) |-> 0]
    IN Scanned(bad, Scanned(block, [track |-> zero, final |-> zero]))

BothScans(block, seed1, step, crc) ==
    LET bad == Corrupted(block, seed1, step)
    IN [block |-> bad, crc |-> CountsCrc(ScannedTwice(block, bad), crc)]

core_bench_state_NoUndo(block, seed1, seed2, step, crc) == BothScans(block, seed1, step, crc)
core_bench_state(block, seed1, seed2, step, crc) ==
    LET b == BothScans(block, seed1, step, crc)
    IN [b EXCEPT !.block = Corrupted(@, seed2, step)]

=============================================================================
