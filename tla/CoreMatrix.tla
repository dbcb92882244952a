----------------------------- MODULE CoreMatrix -----------------------------
(***************************************************************************)
(* The matrix benchmark of CoreMark (core_matrix.c).  A matrix is the      *)
(* sequence of its rows one after the other; elements of A and B are 16    *)
(* bits wide, those of C 32.                                               *)
(***************************************************************************)
EXTENDS CoreUtil, FiniteSetsExt

\* The largest N with 8 * N * N < blksize: i is one too many when the loop ends.
Dimension_Ends(blksize) == CHOOSE i \in 1 .. blksize : 8 * i * i >= blksize /\ 8 * (i - 1) * (i - 1) < blksize
Dimension(blksize) == Dimension_Ends(blksize) - 1

align_mem(addr) == 4 + ((addr - 1) \div 4) * 4

\* Element n, counted from 0, has order n + 1 and the seed of that turn.
core_init_matrix(blksize, seed) ==
    LET N == Dimension(blksize)
        s[n \in 0 .. N * N] == IF n = 0 THEN IF seed = 0 THEN 1 ELSE seed
                               ELSE (n * s[n - 1]) % 65536
        b == [n \in 1 .. N * N |-> U16(s[n] + n)]
    IN [N |-> N,
        B |-> [n \in 1 .. N * N |-> S16(b[n])],
        A |-> [n \in 1 .. N * N |-> (b[n] + n) % 256]]

\* Where memory for A, B and C ends.
MatrixEnd(blksize, addr) ==
    LET N == Dimension(blksize)
    IN align_mem(align_mem(addr) + 2 * N * N * 2) + 4 * N * N

----------------------------------------------------------------------------
Cell(N, M, i, j) == M[i * N + j + 1]
Row(N, n) == (n - 1) \div N
Col(N, n) == (n - 1) % N

matrix_add_const(A, val) == [n \in DOMAIN A |-> S16(A[n] + val)]
matrix_mul_const(A, val) == [n \in DOMAIN A |-> A[n] * val]

\* Only the first N elements of C are written.
matrix_mul_vect(N, C, A, B) ==
    [n \in DOMAIN C |->
        IF n > N THEN C[n] ELSE MapThenSumSet(LAMBDA j : Cell(N, A, n - 1, j) * B[j + 1], 0 .. N - 1)]

matrix_mul_matrix(N, A, B) ==
    [n \in DOMAIN A |->
        MapThenSumSet(LAMBDA k : Cell(N, A, Row(N, n), k) * Cell(N, B, k, Col(N, n)), 0 .. N - 1)]

bit_extract(x, from, to) == (x \div 2^from) % 2^to

matrix_mul_matrix_bitextract(N, A, B) ==
    LET Extract(x) == bit_extract(x, 2, 4) * bit_extract(x, 5, 7)
    IN [n \in DOMAIN A |->
          MapThenSumSet(LAMBDA k : Extract(Cell(N, A, Row(N, n), k) * Cell(N, B, k, Col(N, n))), 0 .. N - 1)]

\* 10 for each time the running sum passes clipval and starts again, else 1
\* for each element larger than the one before.
matrix_sum(C, clipval) ==
    LET Add(t, cur) ==
            LET over == t.tmp + cur > clipval
            IN [tmp |-> IF over THEN 0 ELSE t.tmp + cur, prev |-> cur,
                ret |-> t.ret + IF over THEN 10 ELSE IF cur > t.prev THEN 1 ELSE 0]
    IN S16(FoldLeft(Add, [tmp |-> 0, prev |-> 0, ret |-> 0], C).ret)

\* The CRC of the four results, and A as it is left.
matrix_test(N, A, B, val) ==
    LET a  == matrix_add_const(A, val)
        c1 == matrix_mul_const(a, val)
        c2 == matrix_mul_vect(N, c1, a, B)
        c3 == matrix_mul_matrix(N, a, B)
        c4 == matrix_mul_matrix_bitextract(N, a, B)
        clipval == val - 4096            \* 0xf000 | val, for a val of 8 bits
        Sum(C, crc) == crc16(matrix_sum(C, clipval), crc)
    IN [A |-> matrix_add_const(a, -val),
        crc |-> Sum(c4, Sum(c3, Sum(c2, Sum(c1, 0))))]

core_bench_matrix(p, seed, crc) ==
    LET t == matrix_test(p.N, p.A, p.B, seed)
    IN [A |-> t.A, crc |-> crc16(t.crc, crc)]

=============================================================================
