--------------------------- MODULE CoreMarkProofs ---------------------------
(***************************************************************************)
(* Proofs about the runs of CoreMark, for every number of contexts, all    *)
(* arguments, and every way the contexts interleave.                       *)
(***************************************************************************)
EXTENDS CoreMarkProps, FiniteSetTheorems, SequenceTheorems, WellFoundedInduction, TLAPS

\* A set of naturals has a least element: what stands for induction here.
LEMMA NatMin ==
    ASSUME NEW T, T \subseteq Nat, T # {}
    PROVE  \E n \in T : \A k \in T : n <= k
<1>1. PICK n \in T : \A k \in T : ~(<< k, n >> \in OpToRel(<, Nat))
  BY NatLessThanWellFounded, WFMin
<1>2. \A k \in T : ~(k < n)
  BY <1>1 DEF OpToRel
<1> QED BY <1>2

----------------------------------------------------------------------------
\* Words.  To corrupt a byte twice gives it back.

\* A number is made of its upper and its lower bits.
LEMMA Parts ==
    ASSUME NEW x \in Nat, NEW n \in {2, 4, 16, 256}
    PROVE  x \div n \in Nat /\ x % n \in Nat /\ x % n < n /\ x = n * (x \div n) + (x % n)
OBVIOUS

\* Both halves of a number have half its bits.
LEMMA Small ==
    ASSUME NEW n \in {2, 4, 16}, NEW x \in Nat, x < n * n
    PROVE  x \div n \in Nat /\ x % n \in Nat /\ x \div n < n /\ x % n < n
           /\ x = n * (x \div n) + (x % n)
OBVIOUS

\* The halves of a number that is put together are those it was made of.
LEMMA Joined ==
    ASSUME NEW n \in {2, 4, 16}, NEW p \in Nat, NEW q \in Nat, q < n
    PROVE  (n * p + q) \div n = p /\ (n * p + q) % n = q
OBVIOUS


\* Exclusive-or with the same bits undoes itself, on one bit and on twice as
\* many at a time.
LEMMA Xor1Back ==
    ASSUME NEW a \in Nat, NEW b \in Nat, a < 2, b < 2
    PROVE  xor1(a, b) \in Nat /\ xor1(a, b) < 2 /\ xor1(xor1(a, b), b) = a
BY DEF xor1

LEMMA Xor2Back ==
    ASSUME NEW a \in Nat, NEW b \in Nat, a < 4, b < 4
    PROVE  xor2(a, b) \in Nat /\ xor2(a, b) < 4 /\ xor2(xor2(a, b), b) = a
<1> DEFINE p == xor1(a \div 2, b \div 2)
           q == xor1(a % 2, b % 2)
<1>1. /\ a \div 2 \in Nat /\ a % 2 \in Nat /\ a \div 2 < 2 /\ a % 2 < 2 /\ a = 2 * (a \div 2) + (a % 2)
      /\ b \div 2 \in Nat /\ b % 2 \in Nat /\ b \div 2 < 2 /\ b % 2 < 2
  BY Small
<1>2. p \in Nat /\ p < 2 /\ xor1(p, b \div 2) = a \div 2
  BY <1>1, Xor1Back
<1>3. q \in Nat /\ q < 2 /\ xor1(q, b % 2) = a % 2
  BY <1>1, Xor1Back
<1>4. xor2(a, b) = 2 * p + q
  BY DEF xor2
<1> HIDE DEF p, q
<1>5. (2 * p + q) \div 2 = p /\ (2 * p + q) % 2 = q
  BY <1>2, <1>3, Joined
<1>6. xor2(2 * p + q, b) = 2 * (a \div 2) + (a % 2)
  BY <1>2, <1>3, <1>5 DEF xor2
<1> QED BY <1>1, <1>2, <1>3, <1>4, <1>6

LEMMA Xor4Back ==
    ASSUME NEW a \in Nat, NEW b \in Nat, a < 16, b < 16
    PROVE  xor4(a, b) \in Nat /\ xor4(a, b) < 16 /\ xor4(xor4(a, b), b) = a
<1> DEFINE p == xor2(a \div 4, b \div 4)
           q == xor2(a % 4, b % 4)
<1>1. /\ a \div 4 \in Nat /\ a % 4 \in Nat /\ a \div 4 < 4 /\ a % 4 < 4 /\ a = 4 * (a \div 4) + (a % 4)
      /\ b \div 4 \in Nat /\ b % 4 \in Nat /\ b \div 4 < 4 /\ b % 4 < 4
  BY Small
<1>2. p \in Nat /\ p < 4 /\ xor2(p, b \div 4) = a \div 4
  BY <1>1, Xor2Back
<1>3. q \in Nat /\ q < 4 /\ xor2(q, b % 4) = a % 4
  BY <1>1, Xor2Back
<1>4. xor4(a, b) = 4 * p + q
  BY DEF xor4
<1> HIDE DEF p, q
<1>5. (4 * p + q) \div 4 = p /\ (4 * p + q) % 4 = q
  BY <1>2, <1>3, Joined
<1>6. xor4(4 * p + q, b) = 4 * (a \div 4) + (a % 4)
  BY <1>2, <1>3, <1>5 DEF xor4
<1> QED BY <1>1, <1>2, <1>3, <1>4, <1>6

\* The value of a byte.
Byte(x) == x \in Nat /\ x < 256

\* A byte that is corrupted twice by the same byte is as it was.
LEMMA Xor8Back ==
    ASSUME NEW a, NEW b, Byte(a), Byte(b)
    PROVE  xor8(a, b) \in Nat /\ xor8(xor8(a, b), b) = a
<1> DEFINE p == xor4(a \div 16, b \div 16)
           q == xor4(a % 16, b % 16)
<1>1. /\ a \div 16 \in Nat /\ a % 16 \in Nat /\ a \div 16 < 16 /\ a % 16 < 16 /\ a = 16 * (a \div 16) + (a % 16)
      /\ b \div 16 \in Nat /\ b % 16 \in Nat /\ b \div 16 < 16 /\ b % 16 < 16
  BY Small DEF Byte
<1>2. p \in Nat /\ p < 16 /\ xor4(p, b \div 16) = a \div 16
  BY <1>1, Xor4Back
<1>3. q \in Nat /\ q < 16 /\ xor4(q, b % 16) = a % 16
  BY <1>1, Xor4Back
<1>4. xor8(a, b) = 16 * p + q
  BY DEF xor8
<1> HIDE DEF p, q
<1>5. (16 * p + q) \div 16 = p /\ (16 * p + q) % 16 = q
  BY <1>2, <1>3, Joined
<1>6. xor8(16 * p + q, b) = 16 * (a \div 16) + (a % 16)
  BY <1>2, <1>3, <1>5 DEF xor8
<1> QED BY <1>1, <1>2, <1>3, <1>4, <1>6

\* xor gives a natural number.
LEMMA XorType ==
    ASSUME NEW a \in Nat, NEW b \in Nat
    PROVE  xor(a, b) \in Nat
<1>1. \A x, y \in Nat : xor1(x, y) \in Nat
  BY DEF xor1
<1>2. ASSUME NEW x \in Nat, NEW y \in Nat PROVE xor2(x, y) \in Nat
  <2>1. /\ x \div 2 \in Nat /\ x % 2 \in Nat /\ x = 2 * (x \div 2) + (x % 2)
        /\ y \div 2 \in Nat /\ y % 2 \in Nat /\ y = 2 * (y \div 2) + (y % 2)
    BY Parts
  <2>2. /\ xor1(x \div 2, y \div 2) \in Nat
        /\ xor1(x % 2, y % 2) \in Nat
    BY <1>1, <2>1
  <2> QED BY <2>1, <2>2 DEF xor2
<1>3. ASSUME NEW x \in Nat, NEW y \in Nat PROVE xor4(x, y) \in Nat
  <2>1. /\ x \div 4 \in Nat /\ x % 4 \in Nat /\ x = 4 * (x \div 4) + (x % 4)
        /\ y \div 4 \in Nat /\ y % 4 \in Nat /\ y = 4 * (y \div 4) + (y % 4)
    BY Parts
  <2>2. /\ xor2(x \div 4, y \div 4) \in Nat
        /\ xor2(x % 4, y % 4) \in Nat
    BY <1>2, <2>1
  <2> QED BY <2>1, <2>2 DEF xor4
<1>4. ASSUME NEW x \in Nat, NEW y \in Nat PROVE xor8(x, y) \in Nat
  <2>1. /\ x \div 16 \in Nat /\ x % 16 \in Nat /\ x = 16 * (x \div 16) + (x % 16)
        /\ y \div 16 \in Nat /\ y % 16 \in Nat /\ y = 16 * (y \div 16) + (y % 16)
    BY Parts
  <2>2. /\ xor4(x \div 16, y \div 16) \in Nat
        /\ xor4(x % 16, y % 16) \in Nat
    BY <1>3, <2>1
  <2> QED BY <2>1, <2>2 DEF xor8
<1>5. ASSUME NEW x \in Nat, NEW y \in Nat PROVE xor(x, y) \in Nat
  <2>1. /\ x \div 256 \in Nat /\ x % 256 \in Nat /\ x = 256 * (x \div 256) + (x % 256)
        /\ y \div 256 \in Nat /\ y % 256 \in Nat /\ y = 256 * (y \div 256) + (y % 256)
    BY Parts
  <2>2. /\ xor8(x \div 256, y \div 256) \in Nat
        /\ xor8(x % 256, y % 256) \in Nat
    BY <1>4, <2>1
  <2> QED BY <2>1, <2>2 DEF xor
<1> QED BY <1>5

----------------------------------------------------------------------------
\* The benchmarks leave the memory as it was.

\* Memory of bytes.
Bytes(f) == f = [n \in DOMAIN f |-> f[n]] /\ \A n \in DOMAIN f : Byte(f[n])

\* A byte is the same again when a value is added and taken away, although
\* the sum wraps at 16 bits.
LEMMA S16Back ==
    ASSUME NEW x, Byte(x), NEW v \in Int
    PROVE  S16(S16(x + v) + (-v)) = x
<1> DEFINE q == (x + v + 32768) \div 65536
           r == (x + v + 32768) % 65536
<1>1. x \in Int /\ x >= 0 /\ x < 256
  BY DEF Byte
<1>2. q \in Int /\ r \in Int /\ x + v + 32768 = 65536 * q + r
  BY <1>1
<1>3. S16(x + v) = r - 32768
  BY DEF S16
<1> HIDE DEF q, r
<1>4. S16(x + v) + (-v) = x - 65536 * q
  BY <1>1, <1>2, <1>3
<1>5. S16(x - 65536 * q) = x
  <2>1. (x - 65536 * q + 32768) % 65536 = x + 32768
    BY <1>1, <1>2
  <2> QED BY <1>1, <2>1 DEF S16
<1> QED BY <1>4, <1>5

\* matrix_test leaves the matrix as it was, whatever it multiplies with.
LEMMA MatrixBack ==
    ASSUME NEW N, NEW A, NEW B, NEW v \in Int, Bytes(A)
    PROVE  matrix_test(N, A, B, v).A = A
<1> DEFINE a == matrix_add_const(A, v)
<1>1. matrix_test(N, A, B, v).A = matrix_add_const(a, -v)
  BY DEF matrix_test
<1>2. DOMAIN a = DOMAIN A /\ \A n \in DOMAIN A : a[n] = S16(A[n] + v)
  BY DEF matrix_add_const
<1> HIDE DEF a
<1>3. matrix_add_const(a, -v) = [n \in DOMAIN A |-> S16(a[n] + (-v))]
  BY <1>2 DEF matrix_add_const
<1>4. \A n \in DOMAIN A : S16(a[n] + (-v)) = A[n]
  BY <1>2, S16Back DEF Bytes
<1>5. matrix_add_const(a, -v) = [n \in DOMAIN A |-> A[n]]
  BY <1>3, <1>4
<1> QED BY <1>1, <1>5 DEF Bytes

\* A second pass of the corruption undoes the first, unless that has made a
\* comma.
LEMMA CorruptedBack ==
    ASSUME NEW f, Bytes(f), NEW s \in Int, NEW step,
           \A c \in ToSet(f) : c # Comma => xor8(c, s % 256) # Comma
    PROVE  Corrupted(Corrupted(f, s, step), s, step) = f
<1> DEFINE b == s % 256
           g == Corrupted(f, s, step)
           Hit(n) == (n - 1) % step = 0
<1>1. Byte(b)
  BY DEF Byte
<1>2. g = [n \in DOMAIN f |-> IF Hit(n) /\ f[n] # Comma THEN xor8(f[n], b) ELSE f[n]]
  BY DEF Corrupted
<1>3. DOMAIN g = DOMAIN f
  BY <1>2
<1>4. Corrupted(g, s, step) = [n \in DOMAIN f |-> IF Hit(n) /\ g[n] # Comma THEN xor8(g[n], b) ELSE g[n]]
  BY <1>3 DEF Corrupted
<1>5. ASSUME NEW n \in DOMAIN f
      PROVE  (IF Hit(n) /\ g[n] # Comma THEN xor8(g[n], b) ELSE g[n]) = f[n]
  <2>1. f[n] \in ToSet(f) /\ Byte(f[n])
    BY DEF ToSet, Bytes
  <2>2. g[n] = IF Hit(n) /\ f[n] # Comma THEN xor8(f[n], b) ELSE f[n]
    BY <1>2
  <2>3. f[n] # Comma => xor8(f[n], b) # Comma
    BY <2>1
  <2>4. xor8(xor8(f[n], b), b) = f[n]
    BY <1>1, <2>1, Xor8Back
  <2> HIDE DEF Hit, g, b
  <2> QED BY <2>2, <2>3, <2>4
<1> HIDE DEF Hit, g
<1>6. Corrupted(g, s, step) = [n \in DOMAIN f |-> f[n]]
  BY <1>4, <1>5
<1> QED BY <1>6 DEF g, Bytes

\* core_bench_state leaves the block as it was when both seeds are equal.
LEMMA StateBack ==
    ASSUME NEW f, Bytes(f), NEW s \in Int, NEW step, NEW crc,
           \A c \in ToSet(f) : c # Comma => xor8(c, s % 256) # Comma
    PROVE  core_bench_state(f, s, s, step, crc).block = f
<1>1. core_bench_state(f, s, s, step, crc).block = Corrupted(Corrupted(f, s, step), s, step)
  BY DEF core_bench_state, BothScans
<1> QED BY <1>1, CorruptedBack

\* Both passes of the corruption keep what has returned and make no change but
\* a comma: a byte that the first pass makes one is skipped by the second.
LEMMA StateReturns ==
    ASSUME NEW p, Bytes(p), NEW s \in Int, NEW f, Returned(f, p, s), NEW step, NEW crc
    PROVE  Returned(core_bench_state(f, s, s, step, crc).block, p, s)
<1> DEFINE b == s % 256
           g == Corrupted(f, s, step)
           h == Corrupted(g, s, step)
           Hit(n) == (n - 1) % step = 0
<1>1. core_bench_state(f, s, s, step, crc).block = h
  BY DEF core_bench_state, BothScans
<1>2. /\ Byte(b) /\ DOMAIN f = DOMAIN p
      /\ \A n \in DOMAIN p : f[n] = p[n] \/ (f[n] = Comma /\ xor8(p[n], b) = Comma)
  BY DEF Byte, Returned
<1>3. g = [n \in DOMAIN f |-> IF Hit(n) /\ f[n] # Comma THEN xor8(f[n], b) ELSE f[n]]
  BY DEF Corrupted
<1>4. h = [n \in DOMAIN g |-> IF Hit(n) /\ g[n] # Comma THEN xor8(g[n], b) ELSE g[n]]
  BY DEF Corrupted
<1> HIDE DEF b, g, h, Hit
<1>5. DOMAIN h = DOMAIN p
  BY <1>2, <1>3, <1>4
<1>6. ASSUME NEW n \in DOMAIN p
      PROVE  h[n] = p[n] \/ (h[n] = Comma /\ xor8(p[n], b) = Comma)
  <2>1. g[n] = IF Hit(n) /\ f[n] # Comma THEN xor8(f[n], b) ELSE f[n]
    BY <1>2, <1>3
  <2>2. h[n] = IF Hit(n) /\ g[n] # Comma THEN xor8(g[n], b) ELSE g[n]
    BY <1>2, <1>3, <1>4
  <2>3. xor8(xor8(p[n], b), b) = p[n]
    BY <1>2, Xor8Back DEF Bytes
  <2>4. f[n] = p[n] \/ (f[n] = Comma /\ xor8(p[n], b) = Comma)
    BY <1>2
  <2> QED BY <2>1, <2>2, <2>3, <2>4
<1> QED BY <1>1, <1>5, <1>6 DEF Returned, b

----------------------------------------------------------------------------
\* The memory that main prepares is bytes.

\* The dimension of the matrices is a natural number, and the four of them,
\* of two and of four bytes an element, take less than the block.
LEMMA DimensionFacts ==
    ASSUME NEW b \in Nat, b >= 1
    PROVE  Dimension(b) \in Nat /\ 8 * (Dimension(b) * Dimension(b)) < b
<1> DEFINE T == {i_ \in 1 .. b : 8 * i_ * i_ >= b}
<1>1. b \in T
  <2>1. b * b >= b
    OBVIOUS
  <2>2. 8 * b * b = 8 * (b * b)
    OBVIOUS
  <2> QED BY <2>1, <2>2
<1>2. PICK m \in T : \A k \in T : m <= k
  <2>1. T \subseteq Nat
    OBVIOUS
  <2> HIDE DEF T
  <2> QED BY <1>1, <2>1, NatMin
<1>3. 8 * (m - 1) * (m - 1) < b
  <2>1. CASE m = 1
    BY <2>1
  <2>2. CASE m # 1
    <3>1. m - 1 \in 1 .. b /\ m - 1 \notin T
      BY <1>2, <2>2
    <3> QED BY <1>2, <3>1
  <2> QED BY <2>1, <2>2
<1> DEFINE e == Dimension_Ends(b)
<1>4. e \in 1 .. b /\ 8 * (e - 1) * (e - 1) < b
  <2>1. \E k \in 1 .. b : 8 * k * k >= b /\ 8 * (k - 1) * (k - 1) < b
    BY <1>2, <1>3
  <2> QED BY <2>1 DEF Dimension_Ends
<1> DEFINE n == e - 1
<1>5. n \in Nat /\ 8 * n * n < b /\ Dimension(b) = n
  BY <1>4 DEF Dimension
<1> HIDE DEF e, n
<1>6. 8 * n * n = 8 * (n * n)
  BY <1>5
<1> QED BY <1>5, <1>6

\* The seeds of core_init_matrix.
SeedWalk(f, K, seed) ==
    f = [n \in 0 .. K |-> IF n = 0 THEN IF seed = 0 THEN 1 ELSE seed ELSE (n * f[n - 1]) % 65536]

SeedSteps(f, K, seed) ==
    /\ f \in [0 .. K -> Int]
    /\ \A n \in 0 .. K :
         f[n] = IF n = 0 THEN IF seed = 0 THEN 1 ELSE seed ELSE (n * f[n - 1]) % 65536

\* The seeds of the matrix elements can be computed up to any element.
LEMMA SeedStepsExist ==
    ASSUME NEW K \in Nat, NEW seed \in Int
    PROVE  \E f : SeedSteps(f, K, seed)
<1> DEFINE T == {k \in Nat : ~ \E f : SeedSteps(f, k, seed)}
<1> SUFFICES ASSUME T # {} PROVE FALSE
  OBVIOUS
<1>1. PICK k \in T : \A j \in T : k <= j
  BY NatMin
<1>2. CASE k = 0
  <2>1. SeedSteps([n \in 0 .. 0 |-> IF seed = 0 THEN 1 ELSE seed], 0, seed)
    BY DEF SeedSteps
  <2> QED BY <1>1, <1>2, <2>1
<1>3. CASE k # 0
  <2>1. k \in Nat /\ k - 1 \in Nat /\ k - 1 \notin T
    BY <1>1, <1>3
  <2>2. PICK f : SeedSteps(f, k - 1, seed)
    BY <2>1
  <2> DEFINE e == (k * f[k - 1]) % 65536
             u == [n \in 0 .. k |-> IF n < k THEN f[n] ELSE e]
  <2>3. e \in Int
    <3>1. f[k - 1] \in Int
      BY <2>1, <2>2 DEF SeedSteps
    <3>2. k * f[k - 1] \in Int
      BY <2>1, <3>1
    <3> QED BY <3>2
  <2>4. SeedSteps(u, k, seed)
    <3> HIDE DEF e
    <3>1. u \in [0 .. k -> Int]
      BY <2>1, <2>2, <2>3 DEF SeedSteps
    <3>2. ASSUME NEW n \in 0 .. k
          PROVE  u[n] = IF n = 0 THEN IF seed = 0 THEN 1 ELSE seed ELSE (n * u[n - 1]) % 65536
      <4>1. CASE n < k
        <5>1. u[n] = f[n] /\ n \in 0 .. k - 1
          BY <2>1, <4>1
        <5>2. n # 0 => u[n - 1] = f[n - 1]
          BY <2>1, <4>1
        <5> QED BY <2>2, <5>1, <5>2 DEF SeedSteps
      <4>2. CASE n = k
        <5>1. u[n] = e /\ n # 0 /\ u[n - 1] = f[k - 1]
          BY <2>1, <4>2
        <5> QED BY <4>2, <5>1 DEF e
      <4> QED BY <2>1, <4>1, <4>2
    <3> QED BY <3>1, <3>2 DEF SeedSteps
  <2> QED BY <1>1, <2>4
<1> QED BY <1>2, <1>3

\* All of them are integers.
LEMMA SeedWalkType ==
    ASSUME NEW K \in Nat, NEW seed \in Int, NEW f, SeedWalk(f, K, seed)
    PROVE  \A n \in 1 .. K : f[n] \in Int
<1>1. \A n \in 0 .. K :
        f[n] = IF n = 0 THEN IF seed = 0 THEN 1 ELSE seed ELSE (n * f[n - 1]) % 65536
  BY DEF SeedWalk
<1> DEFINE T == {k \in Nat : k <= K /\ f[k] \notin Int}
<1> SUFFICES ASSUME T # {} PROVE FALSE
  OBVIOUS
<1>2. PICK k \in T : \A j \in T : k <= j
  BY NatMin
<1>3. f[0] \in Int
  BY <1>1
<1>4. k \in Nat /\ k # 0 /\ k - 1 \in Nat /\ k - 1 \notin T /\ k \in 0 .. K
  BY <1>2, <1>3
<1>5. f[k - 1] \in Int
  BY <1>2, <1>4
<1>6. k * f[k - 1] \in Int
  BY <1>4, <1>5
<1>7. f[k] = (k * f[k - 1]) % 65536
  BY <1>1, <1>4
<1>8. f[k] \in Int
  BY <1>6, <1>7
<1> QED BY <1>2, <1>8

\* The first matrix holds bytes, clipped as core_init_matrix does.
LEMMA MatrixBytes ==
    ASSUME NEW b \in Nat, b >= 1, NEW seed \in Int
    PROVE  Bytes(core_init_matrix(b, seed).A)
<1> DEFINE N == Dimension(b)
           K == N * N
           s == CHOOSE f : SeedWalk(f, K, seed)
           v == [n \in 1 .. K |-> U16(s[n] + n)]
           A == [n \in 1 .. K |-> (v[n] + n) % 256]
<1>1. core_init_matrix(b, seed).A = A
  BY DEF core_init_matrix, SeedWalk
<1>2. K \in Nat
  <2>1. N \in Nat
    BY DimensionFacts
  <2> HIDE DEF N
  <2> QED BY <2>1
<1> HIDE DEF N, K
<1>3. SeedWalk(s, K, seed)
  <2>1. PICK f : SeedSteps(f, K, seed)
    BY <1>2, SeedStepsExist
  <2>2. SeedWalk(f, K, seed)
    BY <2>1 DEF SeedSteps, SeedWalk
  <2> QED BY <2>2
<1> HIDE DEF s
<1>4. \A n \in 1 .. K : s[n] \in Int
  BY <1>2, <1>3, SeedWalkType
<1>5. ASSUME NEW n \in 1 .. K PROVE Byte((v[n] + n) % 256)
  <2>1. v[n] \in Int
    BY <1>2, <1>4 DEF U16
  <2> HIDE DEF v
  <2> QED BY <1>2, <2>1 DEF Byte
<1> HIDE DEF v
<1> QED BY <1>1, <1>5 DEF Bytes

\* The tokens of core_init_state.
ByteSet == {x \in Nat : x < 256}

TextWalk(f, K, seed) ==
    f = [n \in 0 .. K |-> IF n = 0 THEN << >> ELSE f[n - 1] \o Pattern(seed + n) \o << Comma >>]

TextSteps(f, K, seed) ==
    /\ f \in [0 .. K -> Seq(ByteSet)]
    /\ \A n \in 0 .. K :
         f[n] = IF n = 0 THEN << >> ELSE f[n - 1] \o Pattern(seed + n) \o << Comma >>

\* The patterns of core_state.c are sequences of bytes.
LEMMA FourBytes ==
    ASSUME NEW a \in ByteSet, NEW b \in ByteSet, NEW c \in ByteSet, NEW d \in ByteSet
    PROVE  << a, b, c, d >> \in Seq(ByteSet)
OBVIOUS

LEMMA EightBytes ==
    ASSUME NEW a \in ByteSet, NEW b \in ByteSet, NEW c \in ByteSet, NEW d \in ByteSet,
           NEW e \in ByteSet, NEW f \in ByteSet, NEW g \in ByteSet, NEW u \in ByteSet
    PROVE  << a, b, c, d, e, f, g, u >> \in Seq(ByteSet)
OBVIOUS

\* So is the pattern chosen for a token.
LEMMA PatternType ==
    ASSUME NEW seed \in Int
    PROVE  Pattern(seed) \in Seq(ByteSet)
<1> DEFINE k == (seed \div 8) % 4
<1>1. k \in {0, 1, 2, 3}
  OBVIOUS
<1>2. Pattern(seed) \in {intpat[k + 1], floatpat[k + 1], scipat[k + 1], errpat[k + 1]}
  BY DEF Pattern
<1> HIDE DEF k
<1>3. \A x \in Nat : x < 256 => x \in ByteSet
  BY DEF ByteSet
<1>4. intpat[k + 1] \in Seq(ByteSet)
  <2>1. CASE k = 0
    BY <1>3, <2>1, FourBytes DEF intpat
  <2>2. CASE k = 1
    BY <1>3, <2>2, FourBytes DEF intpat
  <2>3. CASE k = 2
    BY <1>3, <2>3, FourBytes DEF intpat
  <2>4. CASE k = 3
    BY <1>3, <2>4, FourBytes DEF intpat
  <2> QED BY <1>1, <2>1, <2>2, <2>3, <2>4
<1>5. floatpat[k + 1] \in Seq(ByteSet)
  <2>1. CASE k = 0
    BY <1>3, <2>1, EightBytes DEF floatpat
  <2>2. CASE k = 1
    BY <1>3, <2>2, EightBytes DEF floatpat
  <2>3. CASE k = 2
    BY <1>3, <2>3, EightBytes DEF floatpat
  <2>4. CASE k = 3
    BY <1>3, <2>4, EightBytes DEF floatpat
  <2> QED BY <1>1, <2>1, <2>2, <2>3, <2>4
<1>6. scipat[k + 1] \in Seq(ByteSet)
  <2>1. CASE k = 0
    BY <1>3, <2>1, EightBytes DEF scipat
  <2>2. CASE k = 1
    BY <1>3, <2>2, EightBytes DEF scipat
  <2>3. CASE k = 2
    BY <1>3, <2>3, EightBytes DEF scipat
  <2>4. CASE k = 3
    BY <1>3, <2>4, EightBytes DEF scipat
  <2> QED BY <1>1, <2>1, <2>2, <2>3, <2>4
<1>7. errpat[k + 1] \in Seq(ByteSet)
  <2>1. CASE k = 0
    BY <1>3, <2>1, EightBytes DEF errpat
  <2>2. CASE k = 1
    BY <1>3, <2>2, EightBytes DEF errpat
  <2>3. CASE k = 2
    BY <1>3, <2>3, EightBytes DEF errpat
  <2>4. CASE k = 3
    BY <1>3, <2>4, EightBytes DEF errpat
  <2> QED BY <1>1, <2>1, <2>2, <2>3, <2>4
<1> QED BY <1>2, <1>4, <1>5, <1>6, <1>7

\* One more token keeps the text a sequence of bytes.
LEMMA TextStepType ==
    ASSUME NEW t \in Seq(ByteSet), NEW seed \in Int
    PROVE  t \o Pattern(seed) \o << Comma >> \in Seq(ByteSet)
<1>1. << Comma >> \in Seq(ByteSet)
  BY DEF Comma, ByteSet
<1>2. Pattern(seed) \in Seq(ByteSet)
  BY PatternType
<1> QED BY <1>1, <1>2, ConcatProperties

\* The texts of the first tokens can be computed up to any number of them.
LEMMA TextStepsExist ==
    ASSUME NEW K \in Nat, NEW seed \in Int
    PROVE  \E f : TextSteps(f, K, seed)
<1> DEFINE T == {k \in Nat : ~ \E f : TextSteps(f, k, seed)}
<1> SUFFICES ASSUME T # {} PROVE FALSE
  OBVIOUS
<1>1. PICK k \in T : \A j \in T : k <= j
  BY NatMin
<1>2. CASE k = 0
  <2>1. TextSteps([n \in 0 .. 0 |-> << >>], 0, seed)
    BY DEF TextSteps
  <2> QED BY <1>1, <1>2, <2>1
<1>3. CASE k # 0
  <2>1. k \in Nat /\ k - 1 \in Nat /\ k - 1 \notin T
    BY <1>1, <1>3
  <2>2. PICK f : TextSteps(f, k - 1, seed)
    BY <2>1
  <2> DEFINE e == f[k - 1] \o Pattern(seed + k) \o << Comma >>
             u == [n \in 0 .. k |-> IF n < k THEN f[n] ELSE e]
  <2>3. e \in Seq(ByteSet)
    <3>1. f[k - 1] \in Seq(ByteSet)
      BY <2>1, <2>2 DEF TextSteps
    <3>2. seed + k \in Int
      BY <2>1
    <3> QED BY <3>1, <3>2, TextStepType
  <2>4. TextSteps(u, k, seed)
    <3> HIDE DEF e
    <3>1. u \in [0 .. k -> Seq(ByteSet)]
      BY <2>1, <2>2, <2>3 DEF TextSteps
    <3>2. ASSUME NEW n \in 0 .. k
          PROVE  u[n] = IF n = 0 THEN << >> ELSE u[n - 1] \o Pattern(seed + n) \o << Comma >>
      <4>1. CASE n < k
        <5>1. u[n] = f[n] /\ n \in 0 .. k - 1
          BY <2>1, <4>1
        <5>2. n # 0 => u[n - 1] = f[n - 1]
          BY <2>1, <4>1
        <5> QED BY <2>2, <5>1, <5>2 DEF TextSteps
      <4>2. CASE n = k
        <5>1. u[n] = e /\ n # 0 /\ u[n - 1] = f[k - 1]
          BY <2>1, <4>2
        <5> QED BY <4>2, <5>1 DEF e
      <4> QED BY <2>1, <4>1, <4>2
    <3> QED BY <3>1, <3>2 DEF TextSteps
  <2> QED BY <1>1, <2>4
<1> QED BY <1>2, <1>3

\* All of them are sequences of bytes.
LEMMA TextWalkType ==
    ASSUME NEW K \in Nat, NEW seed \in Int, NEW f, TextWalk(f, K, seed)
    PROVE  DOMAIN f = 0 .. K /\ \A n \in 0 .. K : f[n] \in Seq(ByteSet)
<1>1. /\ DOMAIN f = 0 .. K
      /\ \A n \in 0 .. K :
           f[n] = IF n = 0 THEN << >> ELSE f[n - 1] \o Pattern(seed + n) \o << Comma >>
  BY DEF TextWalk
<1> DEFINE T == {k \in Nat : k <= K /\ f[k] \notin Seq(ByteSet)}
<1>2. T = {}
  <2> SUFFICES ASSUME T # {} PROVE FALSE
    OBVIOUS
  <2>2. PICK k \in T : \A j \in T : k <= j
    BY NatMin
  <2>3. f[0] \in Seq(ByteSet)
    <3>1. 0 \in 0 .. K /\ << >> \in Seq(ByteSet)
      OBVIOUS
    <3> QED BY <1>1, <3>1
  <2>4. k \in Nat /\ k # 0 /\ k - 1 \in Nat /\ k - 1 \notin T /\ k \in 0 .. K
    BY <2>2, <2>3
  <2>5. f[k - 1] \in Seq(ByteSet)
    BY <2>2, <2>4
  <2>6. seed + k \in Int
    BY <2>4
  <2>7. f[k - 1] \o Pattern(seed + k) \o << Comma >> \in Seq(ByteSet)
    BY <2>5, <2>6, TextStepType
  <2>8. f[k] = f[k - 1] \o Pattern(seed + k) \o << Comma >>
    BY <1>1, <2>4
  <2> QED BY <2>2, <2>7, <2>8
<1> QED BY <1>1, <1>2

\* A set of naturals with a bound has a largest element.
LEMMA NatMax ==
    ASSUME NEW K \in Nat, NEW T, T \subseteq 0 .. K, T # {}
    PROVE  \E n \in T : \A k \in T : k <= n
<1> DEFINE U == {j \in Nat : K - j \in T}
<1>1. PICK t \in T : t \in 0 .. K
  OBVIOUS
<1>2. K - t \in Nat /\ K - (K - t) = t
  BY <1>1
<1>3. K - t \in U
  BY <1>1, <1>2
<1>4. PICK j \in U : \A k \in U : j <= k
  BY <1>3, NatMin
<1>5. ASSUME NEW k \in T PROVE k <= K - j
  <2>1. k \in 0 .. K /\ K - (K - k) = k /\ K - k \in Nat
    OBVIOUS
  <2>2. K - k \in U
    BY <2>1
  <2>3. j <= K - k
    BY <1>4, <2>2
  <2> QED BY <1>4, <2>1, <2>3
<1> QED BY <1>4, <1>5

\* The tokens that fit are a sequence of bytes, and do fit.
LEMMA TokensFacts ==
    ASSUME NEW seed \in Int, NEW size \in Nat
    PROVE  /\ Tokens(seed, size) \in Seq(ByteSet)
           /\ Len(Tokens(seed, size)) = 0 \/ Len(Tokens(seed, size)) < size
<1> DEFINE K == size \div 5
           text == CHOOSE f : TextWalk(f, K, seed)
           fits == {n \in DOMAIN text : n = 0 \/ Len(text[n]) < size}
           best == CHOOSE n \in fits : \A m \in fits : m <= n
<1>1. Tokens(seed, size) = text[best]
  BY DEF Tokens, TextWalk
<1>2. K \in Nat
  OBVIOUS
<1> HIDE DEF K
<1>3. TextWalk(text, K, seed)
  <2>1. PICK f : TextSteps(f, K, seed)
    BY <1>2, TextStepsExist
  <2>2. TextWalk(f, K, seed)
    BY <2>1 DEF TextSteps, TextWalk
  <2> QED BY <2>2
<1> HIDE DEF text
<1>4. DOMAIN text = 0 .. K /\ \A n \in 0 .. K : text[n] \in Seq(ByteSet)
  BY <1>2, <1>3, TextWalkType
<1>5. /\ fits \subseteq 0 .. K /\ 0 \in fits
      /\ \A n \in fits : n = 0 \/ Len(text[n]) < size
  BY <1>2, <1>4
<1> HIDE DEF fits
<1>6. best \in fits
  <2>1. \E n \in fits : \A m \in fits : m <= n
    BY <1>2, <1>5, NatMax
  <2> QED BY <2>1
<1> HIDE DEF best
<1>7. text[0] = << >>
  BY <1>2, <1>3 DEF TextWalk
<1> QED BY <1>1, <1>4, <1>5, <1>6, <1>7

\* The block of the state machine holds bytes.
LEMMA StateBytes ==
    ASSUME NEW seed \in Int, NEW size \in Nat, size >= 1
    PROVE  Bytes(core_init_state(size, seed))
<1> DEFINE t == Tokens(seed, size - 1)
           z == [k \in 1 .. size - Len(t) |-> 0]
<1>1. core_init_state(size, seed) = t \o z
  BY DEF core_init_state
<1>2. t \in Seq(ByteSet)
  BY TokensFacts
<1> HIDE DEF t
<1>3. z \in Seq(ByteSet)
  <2>1. Len(t) \in Nat
    BY <1>2
  <2>2. CASE size - Len(t) \in Nat
    BY <2>2 DEF ByteSet
  <2>3. CASE size - Len(t) \notin Nat
    <3>1. 1 .. size - Len(t) = 1 .. 0
      BY <2>1, <2>3
    <3>2. z = [k \in 1 .. 0 |-> 0]
      BY <3>1
    <3> QED BY <3>2 DEF ByteSet
  <2> QED BY <2>2, <2>3
<1> HIDE DEF z
<1>4. t \o z \in Seq(ByteSet)
  BY <1>2, <1>3, ConcatProperties
<1> DEFINE f == t \o z
<1>5. f \in Seq(ByteSet)
  BY <1>4
<1> HIDE DEF f
<1>6. f = [n \in DOMAIN f |-> f[n]] /\ \A n \in DOMAIN f : f[n] \in ByteSet
  BY <1>5
<1>7. Bytes(f)
  BY <1>6 DEF Bytes, Byte, ByteSet
<1> QED BY <1>1, <1>7 DEF f

----------------------------------------------------------------------------
\* Arguments.

\* Arguments that parseval makes numbers of.
Numbers(argv) == \A k \in DOMAIN argv : parseval(argv[k]) \in Int

\* A seed from the arguments is an integer, given or not.
LEMMA SeedType ==
    ASSUME NEW argv, Numbers(argv), NEW k
    PROVE  get_seed_args(k, argv) \in Int /\ get_seed(k, argv) \in Int
<1>1. get_seed_args(k, argv) \in Int
  BY DEF get_seed_args, Numbers
<1> QED BY <1>1 DEF get_seed, S16

\* portable_init leaves arguments that are numbers, and at most as many
\* contexts as there is memory for.
LEMMA PortableType ==
    ASSUME NEW cmd \in Commands
    PROVE  /\ Numbers(portable_init(cmd).argv)
           /\ portable_init(cmd).contexts \in 0 .. MULTITHREAD
<1>1. cmd \in Seq(Seq(Char)) /\ Numbers(cmd)
  BY ArgumentAssumption DEF Numbers
<1>2. MULTITHREAD \in Nat
  BY CoreMarkAssumption
<1>3. CASE cmd # << >> /\ CharAt(cmd[1], 1) = 77
  <2> DEFINE n == parseval(Tail(cmd[1]))
             m == IF n \in 0 .. MULTITHREAD THEN n ELSE MULTITHREAD
  <2>1. portable_init(cmd) = [argv |-> Tail(cmd), contexts |-> m]
    BY <1>3 DEF portable_init
  <2>2. m \in 0 .. MULTITHREAD
    BY <1>2
  <2> HIDE DEF m
  <2>3. Numbers(Tail(cmd))
    <3> SUFFICES ASSUME NEW k \in DOMAIN Tail(cmd) PROVE parseval(Tail(cmd)[k]) \in Int
      BY DEF Numbers
    <3>1. k + 1 \in DOMAIN cmd /\ Tail(cmd)[k] = cmd[k + 1]
      BY <1>1, <1>3
    <3> QED BY <1>1, <3>1 DEF Numbers
  <2> QED BY <2>1, <2>2, <2>3
<1>4. CASE ~(cmd # << >> /\ CharAt(cmd[1], 1) = 77)
  <2>1. portable_init(cmd) = [argv |-> cmd, contexts |-> MULTITHREAD]
    BY <1>4 DEF portable_init
  <2> QED BY <1>1, <1>2, <2>1
<1> QED BY <1>3, <1>4

\* What is known of a configuration.
ConfigType(c) ==
    /\ c.method \in {"pthread", "fork", "socket"} /\ c.speed \in Nat \ {0}
    /\ c.contexts \in 0 .. MULTITHREAD
    /\ c.seed1 \in Int /\ c.seed2 \in Int /\ c.iterations \in Nat
    /\ U32 \in Nat /\ c.iterations < U32 /\ (2 * Ten + 2) * c.speed < U32
    /\ BlockSize(c.size) \in Nat /\ BlockSize(c.size) >= 1

\* Every configuration is of the type that the proofs need.
LEMMA ConfigurationType ==
    ASSUME NEW c \in Configurations
    PROVE  ConfigType(c)
<1>1. PICK cmd \in Commands, m \in Methods, v \in Speeds : c = Configured(cmd, m, v)
  BY DEF Configurations
<1> DEFINE argv == portable_init(cmd).argv
           s == Defaulted([k \in 1 .. 3 |-> get_seed(k, argv)])
           o == get_seed(7, argv)
<1>2. /\ c.method = m /\ c.speed = v /\ c.contexts = portable_init(cmd).contexts
      /\ c.seed1 = s[1] /\ c.seed2 = s[2] /\ c.iterations = get_seed_args(4, argv) % U32
      /\ c.size = IF o # 0 THEN o ELSE TOTAL_DATA_SIZE
  BY <1>1 DEF Configured
<1>3. Numbers(argv) /\ c.contexts \in 0 .. MULTITHREAD
  BY <1>2, PortableType
<1> HIDE DEF argv
<1>4. s[1] \in Int /\ s[2] \in Int
  <2> DEFINE t == [k \in 1 .. 3 |-> get_seed(k, argv)]
  <2>1. t[1] \in Int /\ t[2] \in Int
    BY <1>3, SeedType
  <2> HIDE DEF t
  <2>2. Defaulted(t) \in {<< 0, 0, 102 >>, << 13333, 13333, 102 >>, t}
    BY DEF Defaulted
  <2>3. /\ << 0, 0, 102 >>[1] = 0 /\ << 0, 0, 102 >>[2] = 0
        /\ << 13333, 13333, 102 >>[1] = 13333 /\ << 13333, 13333, 102 >>[2] = 13333
    OBVIOUS
  <2>4. Defaulted(t)[1] \in Int /\ Defaulted(t)[2] \in Int
    BY <2>1, <2>2, <2>3
  <2> QED BY <2>4 DEF t
<1> HIDE DEF s
<1>5. o \in Int /\ get_seed_args(4, argv) \in Int
  BY <1>3, SeedType
<1> HIDE DEF o
<1>6. c.size \in Int /\ c.size >= 3
  BY <1>2, <1>5, CoreMarkAssumption, ArgumentAssumption
<1>7. BlockSize(c.size) \in Nat /\ BlockSize(c.size) >= 1
  BY <1>6 DEF BlockSize
<1>8. c.method \in {"pthread", "fork", "socket"} /\ c.speed \in Nat \ {0}
  BY <1>2, CoreMarkAssumption
<1>9. U32 \in Nat /\ (2 * Ten + 2) * c.speed < U32 /\ U32 > 0
  <2>1. U32 \in Nat /\ (2 * Ten + 2) * c.speed < U32
    BY <1>2, SpeedAssumption
  <2>2. (2 * Ten + 2) * c.speed \in Nat
    BY <1>8, CoreMarkAssumption
  <2> QED BY <2>1, <2>2
<1>10. c.iterations \in Nat /\ c.iterations < U32
  BY <1>2, <1>5, <1>9
<1> QED BY <1>2, <1>3, <1>4, <1>5, <1>7, <1>8, <1>9, <1>10 DEF ConfigType

----------------------------------------------------------------------------
\* Results, and the memory they point to.

Whole(it, n, a, b, st, c1, c2, c3, c4) ==
    [iterations |-> it, N |-> n, A |-> a, B |-> b, state |-> st,
     crc |-> c1, crclist |-> c2, crcmatrix |-> c3, crcstate |-> c4]

Shaped(r) ==
    r = Whole(r.iterations, r.N, r.A, r.B, r.state, r.crc, r.crclist, r.crcmatrix, r.crcstate)

\* What main prepares for a context.
LEMMA PreparedFacts ==
    ASSUME NEW c \in Configurations
    PROVE  /\ Shaped(Prepared[c]) /\ Bytes(Prepared[c].A) /\ Bytes(Prepared[c].state)
           /\ Prepared[c].iterations = c.iterations
           /\ Outputs(Prepared[c]) = NoOutputs
<1> DEFINE blk == BlockSize(c.size)
           seed == IF c.seed1 < 0 THEN c.seed1 ELSE c.seed1 + 65536 * c.seed2
           mat == core_init_matrix(blk, seed)
           st == core_init_state(blk, c.seed1)
<1>1. Prepared[c] = Whole(c.iterations, mat.N, mat.A, mat.B, st, 0, 0, 0, 0)
  BY DEF Prepared, Whole
<1>2. ConfigType(c)
  BY ConfigurationType
<1>3. blk \in Nat /\ blk >= 1 /\ seed \in Int /\ c.seed1 \in Int
  BY <1>2 DEF ConfigType
<1>4. Bytes(mat.A)
  <2> HIDE DEF blk, seed
  <2> QED BY <1>3, MatrixBytes
<1>5. Bytes(st)
  <2> HIDE DEF blk, seed
  <2> QED BY <1>3, StateBytes
<1> HIDE DEF mat, st
<1> QED BY <1>1, <1>4, <1>5 DEF Whole, Shaped, Outputs, NoOutputs

\* The memory is that of p; its block of states, too, if k.
Kept(r, p, k) ==
    /\ Shaped(r) /\ r.N = p.N /\ r.A = p.A /\ r.B = p.B
    /\ k => r.state = p.state

\* A result given by its fields has these fields.
LEMMA WholeFacts ==
    ASSUME NEW it, NEW n, NEW a, NEW b, NEW st, NEW c1, NEW c2, NEW c3, NEW c4
    PROVE  LET w == Whole(it, n, a, b, st, c1, c2, c3, c4) IN
           /\ Shaped(w)
           /\ w.iterations = it /\ w.N = n /\ w.A = a /\ w.B = b /\ w.state = st
           /\ w.crc = c1 /\ w.crclist = c2 /\ w.crcmatrix = c3 /\ w.crcstate = c4
BY DEF Whole, Shaped

\* New outputs leave the memory as it was.
LEMMA OutputsChange ==
    ASSUME NEW it, NEW n, NEW a, NEW b, NEW st, NEW c1, NEW c2, NEW c3, NEW c4, NEW x,
           NEW w, w = Whole(it, n, a, b, st, c1, c2, c3, c4)
    PROVE  WithOutputs(w, x) = Whole(it, n, a, b, st, x.crc, x.crclist, x.crcmatrix, x.crcstate)
<1>1. [w EXCEPT !.crc = x.crc] = Whole(it, n, a, b, st, x.crc, c2, c3, c4)
  BY DEF Whole
<1>2. [Whole(it, n, a, b, st, x.crc, c2, c3, c4) EXCEPT !.crclist = x.crclist] =
        Whole(it, n, a, b, st, x.crc, x.crclist, c3, c4)
  BY DEF Whole
<1>3. [Whole(it, n, a, b, st, x.crc, x.crclist, c3, c4) EXCEPT !.crcmatrix = x.crcmatrix] =
        Whole(it, n, a, b, st, x.crc, x.crclist, x.crcmatrix, c4)
  BY DEF Whole
<1>4. [Whole(it, n, a, b, st, x.crc, x.crclist, x.crcmatrix, c4) EXCEPT !.crcstate = x.crcstate] =
        Whole(it, n, a, b, st, x.crc, x.crclist, x.crcmatrix, x.crcstate)
  BY DEF Whole
<1>5. WithOutputs(w, x) =
        [[[[w EXCEPT !.crc = x.crc] EXCEPT !.crclist = x.crclist]
              EXCEPT !.crcmatrix = x.crcmatrix] EXCEPT !.crcstate = x.crcstate]
  BY DEF WithOutputs
<1> QED BY <1>1, <1>2, <1>3, <1>4, <1>5

\* So does the end of the list benchmark.
LEMMA ListChange ==
    ASSUME NEW it, NEW n, NEW a, NEW b, NEW st, NEW c1, NEW c2, NEW c3, NEW c4, NEW x, NEW y,
           NEW w, w = Whole(it, n, a, b, st, c1, c2, c3, c4)
    PROVE  ListDone(w, x, y) = Whole(it, n, a, b, st, x, IF y = 0 THEN x ELSE c2, c3, c4)
<1>1. [w EXCEPT !.crc = x] = Whole(it, n, a, b, st, x, c2, c3, c4)
  BY DEF Whole
<1>2. [Whole(it, n, a, b, st, x, c2, c3, c4) EXCEPT !.crclist = IF y = 0 THEN x ELSE @] =
        Whole(it, n, a, b, st, x, IF y = 0 THEN x ELSE c2, c3, c4)
  BY DEF Whole
<1>3. ListDone(w, x, y) = [[w EXCEPT !.crc = x] EXCEPT !.crclist = IF y = 0 THEN x ELSE @]
  BY DEF ListDone
<1> QED BY <1>1, <1>2, <1>3

\* What changes the results and leaves the memory.
LEMMA ResultChanges ==
    ASSUME NEW r, Shaped(r), NEW p, NEW k, Kept(r, p, k), NEW x, NEW y
    PROVE  /\ Kept([r EXCEPT !.iterations = x], p, k)
           /\ [r EXCEPT !.iterations = x].iterations = x
           /\ Outputs([r EXCEPT !.iterations = x]) = Outputs(r)
           /\ Kept(WithOutputs(r, x), p, k) /\ WithOutputs(r, x).iterations = r.iterations
           /\ Outputs(WithOutputs(r, Outputs(x))) = Outputs(x)
           /\ Kept([r EXCEPT !.crc = x], p, k) /\ [r EXCEPT !.crc = x].iterations = r.iterations
<1>1. [r EXCEPT !.iterations = x] =
        Whole(x, r.N, r.A, r.B, r.state, r.crc, r.crclist, r.crcmatrix, r.crcstate)
  BY DEF Shaped, Whole
<1>2. \A z : WithOutputs(r, z) =
        Whole(r.iterations, r.N, r.A, r.B, r.state, z.crc, z.crclist, z.crcmatrix, z.crcstate)
  BY OutputsChange DEF Shaped
<1>3. [r EXCEPT !.crc = x] =
        Whole(r.iterations, r.N, r.A, r.B, r.state, x, r.crclist, r.crcmatrix, r.crcstate)
  BY DEF Shaped, Whole
<1>5. Kept([r EXCEPT !.iterations = x], p, k) /\ [r EXCEPT !.iterations = x].iterations = x
  BY <1>1, WholeFacts DEF Kept
<1>6. Outputs([r EXCEPT !.iterations = x]) = Outputs(r)
  BY <1>1, WholeFacts DEF Outputs
<1>7. Kept(WithOutputs(r, x), p, k) /\ WithOutputs(r, x).iterations = r.iterations
  BY <1>2, WholeFacts DEF Kept
<1>8. Outputs(WithOutputs(r, Outputs(x))) = Outputs(x)
  BY <1>2, WholeFacts DEF Outputs
<1>9. Kept([r EXCEPT !.crc = x], p, k) /\ [r EXCEPT !.crc = x].iterations = r.iterations
  BY <1>3, WholeFacts DEF Kept
<1> QED BY <1>5, <1>6, <1>7, <1>8, <1>9

\* The end of an iteration changes CRCs only.
LEMMA ListDoneKeeps ==
    ASSUME NEW r, Shaped(r), NEW p, NEW k, Kept(r, p, k), NEW x, NEW y
    PROVE  Kept(ListDone(r, x, y), p, k) /\ ListDone(r, x, y).iterations = r.iterations
<1>1. ListDone(r, x, y) =
        Whole(r.iterations, r.N, r.A, r.B, r.state, x, IF y = 0 THEN x ELSE r.crclist, r.crcmatrix, r.crcstate)
  BY ListChange DEF Shaped
<1> QED BY <1>1, WholeFacts DEF Kept

----------------------------------------------------------------------------
\* An iteration leaves the memory as it was.

\* The state benchmark changes its block and CRCs only, the matrix benchmark
\* its matrix and CRCs only.
LEMMA BenchmarkChanges ==
    ASSUME NEW it, NEW n, NEW a, NEW b, NEW st, NEW c1, NEW c2, NEW c3, NEW c4, NEW x,
           NEW w, w = Whole(it, n, a, b, st, c1, c2, c3, c4)
    PROVE  /\ StateDone(w, x) =
                Whole(it, n, a, b, x.block, crcu16(x.crc, c1), c2, c3, First(c4, x.crc))
           /\ MatrixDone(w, x) =
                Whole(it, n, x.A, b, st, crcu16(x.crc, c1), c2, First(c3, x.crc), c4)
<1>1. StateDone(w, x) =
        Whole(it, n, a, b, x.block, crcu16(x.crc, c1), c2, c3, First(c4, x.crc))
  <2>1. [w EXCEPT !.state = x.block] = Whole(it, n, a, b, x.block, c1, c2, c3, c4)
    BY DEF Whole
  <2>2. [Whole(it, n, a, b, x.block, c1, c2, c3, c4) EXCEPT !.crc = crcu16(x.crc, @)] =
          Whole(it, n, a, b, x.block, crcu16(x.crc, c1), c2, c3, c4)
    BY DEF Whole
  <2>3. [Whole(it, n, a, b, x.block, crcu16(x.crc, c1), c2, c3, c4)
            EXCEPT !.crcstate = First(@, x.crc)] =
          Whole(it, n, a, b, x.block, crcu16(x.crc, c1), c2, c3, First(c4, x.crc))
    BY DEF Whole
  <2>4. StateDone(w, x) =
          [[[w EXCEPT !.state = x.block] EXCEPT !.crc = crcu16(x.crc, @)]
               EXCEPT !.crcstate = First(@, x.crc)]
    BY DEF StateDone
  <2> QED BY <2>1, <2>2, <2>3, <2>4
<1>2. MatrixDone(w, x) =
        Whole(it, n, x.A, b, st, crcu16(x.crc, c1), c2, First(c3, x.crc), c4)
  <2>1. [w EXCEPT !.A = x.A] = Whole(it, n, x.A, b, st, c1, c2, c3, c4)
    BY DEF Whole
  <2>2. [Whole(it, n, x.A, b, st, c1, c2, c3, c4) EXCEPT !.crc = crcu16(x.crc, @)] =
          Whole(it, n, x.A, b, st, crcu16(x.crc, c1), c2, c3, c4)
    BY DEF Whole
  <2>3. [Whole(it, n, x.A, b, st, crcu16(x.crc, c1), c2, c3, c4)
            EXCEPT !.crcmatrix = First(@, x.crc)] =
          Whole(it, n, x.A, b, st, crcu16(x.crc, c1), c2, First(c3, x.crc), c4)
    BY DEF Whole
  <2>4. MatrixDone(w, x) =
          [[[w EXCEPT !.A = x.A] EXCEPT !.crc = crcu16(x.crc, @)]
               EXCEPT !.crcmatrix = First(@, x.crc)]
    BY DEF MatrixDone
  <2> QED BY <2>1, <2>2, <2>3, <2>4
<1> QED BY <1>1, <1>2

\* The corruption of a run with the arguments c can be undone.
Undoes(c) ==
    /\ c.seed1 = c.seed2
    /\ \A x \in ToSet(Prepared[c].state) : x # Comma => xor8(x, c.seed1 % 256) # Comma

\* What every step of a run with the arguments c keeps of a result.
Keeps(s, r, c) == Kept(s, Prepared[c], Undoes(c)) /\ s.iterations = r.iterations

\* What one item computes leaves the memory and the number of iterations as
\* they were.
LEMMA CalculatedKeeps ==
    ASSUME NEW c \in Configurations, NEW r, Kept(r, Prepared[c], Undoes(c)), NEW n \in Nat
    PROVE  Keeps(Calculated(c, r, n), r, c)
<1> DEFINE p == Prepared[c]
<1>1. /\ r = Whole(r.iterations, r.N, r.A, r.B, r.state, r.crc, r.crclist, r.crcmatrix, r.crcstate)
      /\ r.N = p.N /\ r.A = p.A /\ r.B = p.B
      /\ Undoes(c) => r.state = p.state
  BY DEF Kept, Shaped
<1>2. Bytes(p.A) /\ Bytes(p.state)
  BY PreparedFacts
<1>3. c.seed1 \in Int
  BY ConfigurationType DEF ConfigType
<1>7. r.A = p.A
  BY <1>1
<1>8. ASSUME Undoes(c) PROVE r.state = p.state
  BY <1>1, <1>8
<1>4. CASE n % 8 = 0
  <2> DEFINE s == core_bench_state(r.state, c.seed1, c.seed2, Step(c.seed1, n), r.crc)
  <2>1. Calculated(c, r, n) = StateDone(r, s)
    BY <1>4 DEF Calculated
  <2>2. Undoes(c) => s.block = p.state
    <3> SUFFICES ASSUME Undoes(c) PROVE s.block = p.state
      OBVIOUS
    <3>1. \A x \in ToSet(p.state) : x # Comma => xor8(x, c.seed1 % 256) # Comma
      BY DEF Undoes
    <3>2. s = core_bench_state(p.state, c.seed1, c.seed1, Step(c.seed1, n), r.crc)
      BY <1>8 DEF Undoes
    <3> HIDE DEF p, s
    <3> QED BY <1>2, <1>3, <3>1, <3>2, StateBack
  <2> HIDE DEF s
  <2>3. StateDone(r, s) =
          Whole(r.iterations, r.N, r.A, r.B, s.block, crcu16(s.crc, r.crc), r.crclist,
                r.crcmatrix, First(r.crcstate, s.crc))
    BY <1>1, BenchmarkChanges
  <2> QED BY <1>1, <2>1, <2>2, <2>3, WholeFacts DEF Keeps, Kept
<1>5. CASE n % 8 = 1
  <2> DEFINE v == Dtype(c.seed1, n)
             m == core_bench_matrix(r, v, r.crc)
  <2>1. Calculated(c, r, n) = MatrixDone(r, m)
    BY <1>5 DEF Calculated
  <2>2. m.A = r.A
    <3>1. v \in Int
      <4>1. U16(c.seed1) \in Nat
        BY <1>3 DEF U16
      <4>2. xor(U16(c.seed1), n) \in Nat
        BY <4>1, XorType
      <4> QED BY <4>2 DEF Dtype, Datpat
    <3> HIDE DEF v, p
    <3>2. Bytes(r.A)
      BY <1>2, <1>7
    <3>3. m.A = matrix_test(r.N, r.A, r.B, v).A
      BY DEF core_bench_matrix
    <3> HIDE DEF m
    <3> QED BY <3>1, <3>2, <3>3, MatrixBack
  <2> HIDE DEF m
  <2>3. MatrixDone(r, m) =
          Whole(r.iterations, r.N, m.A, r.B, r.state, crcu16(m.crc, r.crc), r.crclist,
                First(r.crcmatrix, m.crc), r.crcstate)
    BY <1>1, BenchmarkChanges
  <2> QED BY <1>1, <2>1, <2>2, <2>3, WholeFacts DEF Keeps, Kept
<1>6. CASE n % 8 # 0 /\ n % 8 # 1
  <2> DEFINE x == crcu16(Dat(c.seed1, n) * 257, r.crc)
  <2>1. Calculated(c, r, n) = [r EXCEPT !.crc = x]
    BY <1>6 DEF Calculated
  <2> HIDE DEF x
  <2>2. Shaped(r)
    BY DEF Kept
  <2>3. Kept([r EXCEPT !.crc = x], p, Undoes(c)) /\ [r EXCEPT !.crc = x].iterations = r.iterations
    BY <2>2, ResultChanges
  <2> QED BY <2>1, <2>3 DEF Keeps
<1> QED BY <1>4, <1>5, <1>6

\* The items of an iteration.
DoneWalk(f, K, c, start) ==
    f = [n \in 0 .. K |-> IF n = 0 THEN start ELSE Calculated(c, f[n - 1], n - 1)]

\* The results after the first items can be computed up to any item.
LEMMA DoneWalkExists ==
    ASSUME NEW K \in Nat, NEW c, NEW start
    PROVE  \E f : DoneWalk(f, K, c, start)
<1> DEFINE T == {k \in Nat : ~ \E f : DoneWalk(f, k, c, start)}
<1> SUFFICES ASSUME T # {} PROVE FALSE
  OBVIOUS
<1>1. PICK k \in T : \A j \in T : k <= j
  BY NatMin
<1>2. CASE k = 0
  <2> DEFINE u == [n \in 0 .. 0 |-> start]
  <2>1. u = [n \in 0 .. 0 |-> IF n = 0 THEN start ELSE Calculated(c, u[n - 1], n - 1)]
    OBVIOUS
  <2>2. DoneWalk(u, 0, c, start)
    BY <2>1 DEF DoneWalk
  <2> QED BY <1>1, <1>2, <2>2
<1>3. CASE k # 0
  <2>1. k \in Nat /\ k - 1 \in Nat /\ k - 1 \notin T
    BY <1>1, <1>3
  <2>2. PICK f : DoneWalk(f, k - 1, c, start)
    BY <2>1
  <2> DEFINE e == Calculated(c, f[k - 1], k - 1)
             u == [n \in 0 .. k |-> IF n < k THEN f[n] ELSE e]
  <2>3. \A n \in 0 .. k - 1 : f[n] = IF n = 0 THEN start ELSE Calculated(c, f[n - 1], n - 1)
    BY <2>2 DEF DoneWalk
  <2> HIDE DEF e
  <2>4. ASSUME NEW n \in 0 .. k
        PROVE  (IF n < k THEN f[n] ELSE e) = IF n = 0 THEN start ELSE Calculated(c, u[n - 1], n - 1)
    <3>1. CASE n < k
      <4>1. n \in 0 .. k - 1
        BY <2>1, <3>1
      <4>2. n # 0 => u[n - 1] = f[n - 1]
        BY <2>1, <3>1
      <4> QED BY <2>3, <3>1, <4>1, <4>2
    <3>2. CASE n = k
      <4>1. n # 0 /\ u[n - 1] = f[k - 1] /\ ~(n < k)
        BY <2>1, <1>3, <3>2
      <4> QED BY <3>2, <4>1 DEF e
    <3> QED BY <2>1, <3>1, <3>2
  <2>5. u = [n \in 0 .. k |-> IF n = 0 THEN start ELSE Calculated(c, u[n - 1], n - 1)]
    BY <2>4
  <2> HIDE DEF u
  <2>6. DoneWalk(u, k, c, start)
    BY <2>5 DEF DoneWalk
  <2> QED BY <1>1, <2>6
<1> QED BY <1>2, <1>3

\* Each of them keeps the memory and the number of iterations.
LEMMA DoneWalkKeeps ==
    ASSUME NEW c \in Configurations, NEW r, Kept(r, Prepared[c], Undoes(c)), NEW K \in Nat,
           NEW f, DoneWalk(f, K, c, r)
    PROVE  \A n \in 0 .. K : Keeps(f[n], r, c)
<1>1. \A n \in 0 .. K : f[n] = IF n = 0 THEN r ELSE Calculated(c, f[n - 1], n - 1)
  BY DEF DoneWalk
<1> DEFINE T == {k \in Nat : k <= K /\ ~Keeps(f[k], r, c)}
<1> SUFFICES ASSUME T # {} PROVE FALSE
  OBVIOUS
<1>2. PICK k \in T : \A j \in T : k <= j
  BY NatMin
<1>3. Keeps(f[0], r, c)
  <2>1. f[0] = r
    BY <1>1
  <2> QED BY <2>1 DEF Keeps
<1>4. k \in Nat /\ k # 0 /\ k - 1 \in Nat /\ k - 1 \notin T /\ k \in 0 .. K
  BY <1>2, <1>3
<1>5. Keeps(f[k - 1], r, c)
  BY <1>2, <1>4
<1> DEFINE g == f[k - 1]
<1>6. Kept(g, Prepared[c], Undoes(c)) /\ g.iterations = r.iterations
  BY <1>5 DEF Keeps
<1>7. f[k] = Calculated(c, g, k - 1)
  BY <1>1, <1>4
<1> HIDE DEF g
<1>8. Keeps(Calculated(c, g, k - 1), g, c)
  BY <1>4, <1>6, CalculatedKeeps
<1>9. Keeps(f[k], r, c)
  BY <1>6, <1>7, <1>8 DEF Keeps
<1> QED BY <1>2, <1>9

\* So does an iteration.
LEMMA IteratedKeeps ==
    ASSUME NEW c \in Configurations, NEW r, Kept(r, Prepared[c], Undoes(c)), NEW k
    PROVE  Keeps(Iterated(c, r, k), r, c)
<1> DEFINE K == Items(c.size)
           done == CHOOSE f : DoneWalk(f, K, c, r)
           res == done[K]
           x == crcu16(ListCrc[-1], crcu16(ListCrc[1], res.crc))
<1>1. Iterated(c, r, k) = ListDone(res, x, k)
  BY DEF Iterated, DoneWalk
<1>2. K \in Nat
  <2>1. LastItem(c.size) \in Int
    BY ConfigurationType DEF ConfigType, LastItem
  <2> QED BY <2>1 DEF Items
<1> HIDE DEF K
<1>3. DoneWalk(done, K, c, r)
  BY <1>2, DoneWalkExists
<1> HIDE DEF done
<1>4. Keeps(res, r, c)
  BY <1>2, <1>3, DoneWalkKeeps
<1> HIDE DEF res, x
<1>5. Kept(res, Prepared[c], Undoes(c)) /\ Shaped(res) /\ res.iterations = r.iterations
  BY <1>4 DEF Keeps, Kept
<1>6. Kept(ListDone(res, x, k), Prepared[c], Undoes(c)) /\ ListDone(res, x, k).iterations = res.iterations
  <2> DEFINE p == Prepared[c]
             q == Undoes(c)
  <2>1. Kept(res, p, q) /\ Shaped(res)
    BY <1>5
  <2> HIDE DEF p, q
  <2>2. Kept(ListDone(res, x, k), p, q) /\ ListDone(res, x, k).iterations = res.iterations
    BY <2>1, ListDoneKeeps
  <2> QED BY <2>2 DEF p, q
<1> QED BY <1>1, <1>5, <1>6 DEF Keeps

----------------------------------------------------------------------------
\* What a context has done is told by the number of its turns.

\* A context of a run with the arguments c, before its first turn.
Base(c, it) == Entered([Prepared[c] EXCEPT !.iterations = it])

Works(f, c, it, n) ==
    f[0] = Base(c, it) /\ \A k \in 1 .. n : f[k] = Iterated(c, f[k - 1], k - 1)

\* After n turns of it iterations the result is r.
Worked(c, it, n, r) == \E f : Works(f, c, it, n) /\ f[n] = r

\* No turn leaves the base.
LEMMA WorkedStart ==
    ASSUME NEW c, NEW it
    PROVE  Worked(c, it, 0, Base(c, it))
<1> DEFINE f == [k \in {0} |-> Base(c, it)]
<1>1. Works(f, c, it, 0) /\ f[0] = Base(c, it)
  BY DEF Works
<1> QED BY <1>1 DEF Worked

\* One turn more is one iteration more.
LEMMA WorkedStep ==
    ASSUME NEW c, NEW it, NEW n \in Nat, NEW r, Worked(c, it, n, r)
    PROVE  Worked(c, it, n + 1, Iterated(c, r, n))
<1>1. PICK f : Works(f, c, it, n) /\ f[n] = r
  BY DEF Worked
<1> DEFINE e == Iterated(c, r, n)
           g == [k \in 0 .. n + 1 |-> IF k <= n THEN f[k] ELSE e]
<1>2. f[0] = Base(c, it) /\ \A k \in 1 .. n : f[k] = Iterated(c, f[k - 1], k - 1)
  BY <1>1 DEF Works
<1> HIDE DEF e
<1>3. g[0] = Base(c, it) /\ g[n + 1] = e
  BY <1>2
<1>4. ASSUME NEW k \in 1 .. n + 1 PROVE g[k] = Iterated(c, g[k - 1], k - 1)
  <2>1. CASE k <= n
    <3>1. g[k] = f[k] /\ g[k - 1] = f[k - 1] /\ k \in 1 .. n
      BY <2>1
    <3> QED BY <1>2, <3>1
  <2>2. CASE k = n + 1
    <3>1. g[k] = e /\ g[k - 1] = f[n] /\ k - 1 = n
      BY <2>2
    <3> QED BY <1>1, <3>1 DEF e
  <2> QED BY <2>1, <2>2
<1> HIDE DEF g
<1>5. Works(g, c, it, n + 1)
  BY <1>3, <1>4 DEF Works
<1> QED BY <1>3, <1>5 DEF Worked, e

\* A number of turns leaves one result.
LEMMA WorkedUnique ==
    ASSUME NEW c, NEW it, NEW n \in Nat, NEW r, NEW s, Worked(c, it, n, r), Worked(c, it, n, s)
    PROVE  r = s
<1>1. PICK f : Works(f, c, it, n) /\ f[n] = r
  BY DEF Worked
<1>2. PICK g : Works(g, c, it, n) /\ g[n] = s
  BY DEF Worked
<1> DEFINE T == {k \in Nat : k <= n /\ f[k] # g[k]}
<1>3. T = {}
  <2> SUFFICES ASSUME T # {} PROVE FALSE
    OBVIOUS
  <2>1. PICK k \in T : \A j \in T : k <= j
    BY NatMin
  <2>2. k # 0
    BY <1>1, <1>2, <2>1 DEF Works
  <2>3. k - 1 \in Nat /\ k - 1 \notin T /\ k \in 1 .. n
    BY <2>1, <2>2
  <2>4. f[k - 1] = g[k - 1]
    BY <2>1, <2>3
  <2>5. f[k] = Iterated(c, f[k - 1], k - 1) /\ g[k] = Iterated(c, g[k - 1], k - 1)
    BY <1>1, <1>2, <2>3 DEF Works
  <2> QED BY <2>1, <2>4, <2>5
<1> QED BY <1>1, <1>2, <1>3

\* Whoever has the memory that main prepared enters as the others do.
LEMMA EntersAtBase ==
    ASSUME NEW c \in Configurations, NEW r, Kept(r, Prepared[c], TRUE), NEW it
    PROVE  Entered([r EXCEPT !.iterations = it]) = Base(c, it)
<1> DEFINE p == Prepared[c]
<1>1. Shaped(r) /\ r.N = p.N /\ r.A = p.A /\ r.B = p.B /\ r.state = p.state
  BY DEF Kept
<1>2. Shaped(p)
  BY PreparedFacts
<1> HIDE DEF p
<1>3. \A q : Shaped(q) => Entered([q EXCEPT !.iterations = it]) = Whole(it, q.N, q.A, q.B, q.state, 0, 0, 0, 0)
  <2> SUFFICES ASSUME NEW q, Shaped(q)
               PROVE  Entered([q EXCEPT !.iterations = it]) = Whole(it, q.N, q.A, q.B, q.state, 0, 0, 0, 0)
    OBVIOUS
  <2> DEFINE w == [q EXCEPT !.iterations = it]
  <2>1. w = Whole(it, q.N, q.A, q.B, q.state, q.crc, q.crclist, q.crcmatrix, q.crcstate)
    BY DEF Shaped, Whole
  <2> HIDE DEF w
  <2>2. WithOutputs(w, NoOutputs) =
          Whole(it, q.N, q.A, q.B, q.state, NoOutputs.crc, NoOutputs.crclist, NoOutputs.crcmatrix, NoOutputs.crcstate)
    BY <2>1, OutputsChange
  <2> QED BY <2>2 DEF NoOutputs, Entered, w
<1> QED BY <1>1, <1>2, <1>3 DEF Base, p

----------------------------------------------------------------------------
\* How long a run takes.

\* A product of naturals is no smaller for larger factors.
LEMMA TimesGrows ==
    ASSUME NEW a \in Nat, NEW b \in Nat, NEW c \in Nat, a <= b
    PROVE  a * c <= b * c /\ a * c \in Nat /\ b * c \in Nat /\ c * a = a * c
<1>1. b - a \in Nat /\ b * c = a * c + (b - a) * c
  OBVIOUS
<1>2. (b - a) * c \in Nat /\ a * c \in Nat
  BY <1>1
<1> QED BY <1>1, <1>2

\* From speed iterations on, the number main chooses takes ten seconds, and
\* no more than 22 if it has run for ten at most.
LEMMA LengthenedFacts ==
    ASSUME NEW n \in Nat, NEW s \in Nat \ {0}, n >= s, n <= Ten * s,
           U32 \in Nat, (2 * Ten + 2) * s < U32
    PROVE  /\ Lengthened(n, s) \in Nat /\ Lengthened(n, s) < U32
           /\ Lengthened(n, s) >= Ten * s
<1> DEFINE q == n \div s
           d == Ten \div q
           u == n * (1 + d)
<1>0. Ten \in Nat \ {0}
  BY CoreMarkAssumption
<1>1. q \in Nat /\ q * s <= n /\ n < (q + 1) * s
  OBVIOUS
<1>l. Lengthened(n, s) = u % U32
  BY DEF Lengthened
<1> HIDE DEF q
<1>2. q >= 1
  BY <1>1
<1>3. q <= Ten
  <2> SUFFICES ASSUME q >= Ten + 1 PROVE FALSE
    BY <1>0, <1>1
  <2>1. (Ten + 1) * s <= q * s
    BY <1>0, <1>1, TimesGrows
  <2>2. (Ten + 1) * s = Ten * s + s /\ Ten * s \in Nat /\ q * s \in Nat
    BY <1>0, <1>1
  <2> QED BY <1>1, <2>1, <2>2
<1>4. d \in Nat /\ d * q <= Ten /\ Ten < (d + 1) * q
  BY <1>0, <1>1, <1>2
<1> HIDE DEF d
<1>5. d >= 1
  BY <1>0, <1>1, <1>3, <1>4
<1>6. u \in Nat
  BY <1>4
<1>7. u >= Ten * s
  <2>1. u >= (q * s) * (1 + d)
    <3>1. q * s \in Nat /\ 1 + d \in Nat
      BY <1>1, <1>4
    <3> QED BY <1>1, <3>1, TimesGrows
  <2>2. (q * s) * (1 + d) = ((d + 1) * q) * s /\ (d + 1) * q \in Nat
    BY <1>1, <1>4
  <2>3. Ten * s <= ((d + 1) * q) * s
    BY <1>0, <1>4, <2>2, TimesGrows
  <2>4. Ten * s \in Nat /\ ((d + 1) * q) * s \in Nat
    BY <1>0, <2>2, TimesGrows
  <2> HIDE DEF u
  <2> QED BY <1>6, <2>1, <2>2, <2>3, <2>4
<1>8. u <= (2 * Ten + 2) * s
  <2>1. u <= ((q + 1) * s) * (1 + d)
    <3>1. (q + 1) * s \in Nat /\ 1 + d \in Nat
      BY <1>1, <1>4
    <3> QED BY <1>1, <3>1, TimesGrows
  <2>2. ((q + 1) * s) * (1 + d) = ((q + 1) * (1 + d)) * s
    BY <1>1, <1>4
  <2>3. (q + 1) * (1 + d) \in Nat /\ (q + 1) * (1 + d) <= 2 * Ten + 2
    <3>1. (q + 1) * (1 + d) = d * q + q + d + 1 /\ d * q \in Nat
      BY <1>1, <1>4
    <3>2. (q - 1) * (d - 1) \in Nat /\ (q - 1) * (d - 1) = d * q - q - d + 1
      <4>1. q - 1 \in Nat /\ d - 1 \in Nat
        BY <1>1, <1>2, <1>4, <1>5
      <4> QED BY <1>1, <1>4, <4>1
    <3> QED BY <1>0, <1>1, <1>4, <3>1, <3>2
  <2>4. ((q + 1) * (1 + d)) * s <= (2 * Ten + 2) * s
    BY <1>0, <2>3, TimesGrows
  <2>5. ((q + 1) * (1 + d)) * s \in Nat /\ (2 * Ten + 2) * s \in Nat
    BY <1>0, <2>3, TimesGrows
  <2> HIDE DEF u
  <2> QED BY <1>6, <2>1, <2>2, <2>4, <2>5
<1>9. (2 * Ten + 2) * s \in Nat
  BY <1>0
<1> DEFINE v == (2 * Ten + 2) * s
<1> HIDE DEF u, v
<1>10. u % U32 = u /\ u < U32
  BY <1>6, <1>8, <1>9 DEF v
<1> QED BY <1>6, <1>7, <1>10, <1>l

\* Ten times as many as speed can be counted.
LEMMA LongerFacts ==
    ASSUME NEW n \in Nat, NEW s \in Nat \ {0}, n >= 1, n <= s,
           U32 \in Nat, (2 * Ten + 2) * s < U32
    PROVE  /\ Longer(n) \in Nat /\ Longer(n) < U32 /\ Longer(n) >= 1
           /\ Longer(n) <= Ten * s
<1>0. Ten \in Nat \ {0}
  BY CoreMarkAssumption
<1>1. n * Ten <= s * Ten /\ n * Ten \in Nat /\ s * Ten \in Nat /\ Ten * n = n * Ten
  BY <1>0, TimesGrows
<1>2. Ten * s = s * Ten /\ (2 * Ten + 2) * s = 2 * (s * Ten) + 2 * s
  BY <1>0
<1>3. 1 * Ten <= n * Ten
  BY <1>0, TimesGrows
<1> DEFINE u == n * Ten
           v == s * Ten
           w == (2 * Ten + 2) * s
<1>4. u <= v /\ u \in Nat /\ v \in Nat /\ w = 2 * v + 2 * s /\ w < U32 /\ u >= 1
  BY <1>0, <1>1, <1>2, <1>3
<1>5. Longer(n) = u % U32
  BY <1>1 DEF Longer
<1> HIDE DEF u, v, w
<1>6. u < U32 /\ u % U32 = u
  BY <1>4
<1> QED BY <1>1, <1>2, <1>4, <1>5, <1>6 DEF v

----------------------------------------------------------------------------
\* The inductive invariant.

\* Contexts that main has started, and whose results it has gathered.
Started(c) ==
    \/ at = "start" /\ c < i
    \/ at = "bind" /\ c <= i
    \/ at \in {"stop", "done"} /\ c < conf.contexts
Gathered(c) ==
    \/ at = "stop" /\ c < i
    \/ at = "done" /\ c < conf.contexts

Calibrating == at \in {"calibrate", "measure"}

\* The iterations of the run.
Iterations == results[0].iterations

ShapeInv ==
    /\ conf \in Configurations
    /\ at \in {"calibrate", "measure", "start", "bind", "stop", "done"}
    /\ i \in Nat /\ i <= conf.contexts
    /\ at = "bind" => i < conf.contexts
    /\ Calibrating => i = 0
    /\ DOMAIN results = Contexts
    /\ turn \in [Contexts -> Nat]

\* Every context's memory is as main prepared it, between the iterations.
MemoryInv ==
    \A c \in Contexts :
        /\ Kept(results[c], Prepared[conf], Undoes(conf))
        /\ c \in DOMAIN child => Kept(child[c], Prepared[conf], Undoes(conf))

\* Main finds out how many iterations to run, then lets the number be.
LengthInv ==
    /\ Iterations \in Nat /\ Iterations >= 1 /\ Iterations < U32
    /\ at = "calibrate" => Iterations <= conf.speed
    /\ at = "measure" => Iterations <= Ten * conf.speed
    /\ ~Calibrating /\ conf.iterations = 0 => Iterations >= Ten * conf.speed
    /\ at = "done" => elapsed \in get_time

\* Who runs, and who has memory of its own.
ProcInv ==
    /\ proc \in [Contexts -> {"none", "iterate", "ended"}]
    /\ \A c \in Contexts :
          /\ proc[c] # "none" <=> Started(c) \/ (at = "measure" /\ c = 0)
          /\ Gathered(c) => proc[c] = "ended"
          /\ Calibrating => proc[c] # "ended"
    /\ DOMAIN child = {c \in Contexts : Forks /\ Started(c)}

\* What a started context has done is told by its turns; when it has ended
\* there was none left.
WorkInv ==
    \A c \in Contexts : Started(c) =>
        /\ Memory(c).iterations = Iterations
        /\ turn[c] = 0 \/ turn[c] <= Iterations
        /\ proc[c] = "ended" => turn[c] >= Iterations
        /\ Undoes(conf) => Worked(conf, Iterations, turn[c], Memory(c))

\* What waits in the shared memory and at the sockets are the outputs of
\* contexts that have ended.
LinkInv ==
    /\ \A c \in Contexts :
          proc[c] = "ended" /\ conf.method = "fork" =>
              c \in DOMAIN shm /\ shm[c] = Outputs(Memory(c))
    /\ \A c \in DOMAIN inbox :
          /\ c \in Contexts /\ proc[c] = "ended" /\ conf.method = "socket"
          /\ inbox[c] \in Seq({Outputs(Memory(c))})

\* What main has gathered is what the context put out.
GatherInv ==
    \A c \in Contexts : Gathered(c) => Outputs(results[c]) = Outputs(Memory(c))

RunInv ==
    /\ ShapeInv /\ MemoryInv /\ LengthInv /\ ProcInv /\ WorkInv /\ LinkInv /\ GatherInv

\* What the invariant says of the arguments and the contexts.
LEMMA ConfFacts ==
    ASSUME RunInv
    PROVE  /\ ConfigType(conf) /\ MULTITHREAD \in Nat \ {0} /\ 0 \in Contexts
           /\ Contexts \subseteq Nat /\ Ten \in Nat \ {0}
           /\ \A c \in Contexts : c < MULTITHREAD
           /\ \A c \in Nat : c < MULTITHREAD => c \in Contexts
<1>1. MULTITHREAD \in Nat \ {0} /\ Ten \in Nat \ {0}
  BY CoreMarkAssumption
<1>2. conf \in Configurations
  BY DEF RunInv, ShapeInv
<1> QED BY <1>1, <1>2, ConfigurationType DEF Contexts

\* The invariant holds when main has set up.
LEMMA InitInv ==
    ASSUME Init PROVE RunInv
<1> DEFINE p == Prepared[conf]
           u == Undoes(conf)
<1>1. /\ conf \in Configurations /\ at = IF conf.iterations = 0 THEN "calibrate" ELSE "start"
      /\ i = 0 /\ proc = [c \in Contexts |-> "none"] /\ turn = [c \in Contexts |-> 0]
      /\ results = [c \in Contexts |-> [p EXCEPT !.iterations = IF c = 0 /\ @ = 0 THEN 1 ELSE @]]
      /\ DOMAIN child = {} /\ DOMAIN inbox = {}
  BY DEF Init
<1>2. ConfigType(conf) /\ MULTITHREAD \in Nat \ {0} /\ 0 \in Contexts /\ Contexts \subseteq Nat
  BY <1>1, ConfigurationType, CoreMarkAssumption DEF Contexts
<1>3. Shaped(p) /\ p.iterations = conf.iterations
  BY <1>1, PreparedFacts
<1>4. Kept(p, p, u)
  BY <1>3 DEF Kept
<1> DEFINE x(c) == IF c = 0 /\ p.iterations = 0 THEN 1 ELSE p.iterations
<1>5. \A c \in Contexts : results[c] = [p EXCEPT !.iterations = x(c)]
  BY <1>1
<1> HIDE DEF p, x
<1>6. ASSUME NEW c \in Contexts PROVE Kept(results[c], p, u) /\ results[c].iterations = x(c)
  <2> DEFINE y == x(c)
  <2>1. results[c] = [p EXCEPT !.iterations = y]
    BY <1>5
  <2> HIDE DEF y, u
  <2>2. Kept([p EXCEPT !.iterations = y], p, u) /\ [p EXCEPT !.iterations = y].iterations = y
    BY <1>3, <1>4, ResultChanges
  <2> QED BY <2>1, <2>2 DEF y
<1>7. \A c \in Contexts : ~Started(c) /\ ~Gathered(c)
  BY <1>1, <1>2 DEF Started, Gathered
<1>8. ShapeInv
  BY <1>1, <1>2 DEF ShapeInv, ConfigType, Calibrating
<1>9. MemoryInv
  BY <1>1, <1>6 DEF MemoryInv, p
<1>10. LengthInv
  <2>1. Iterations = IF conf.iterations = 0 THEN 1 ELSE conf.iterations
    BY <1>2, <1>3, <1>6 DEF Iterations, x
  <2>2. 1 < U32 /\ U32 \in Nat
    <3>1. (2 * Ten + 2) * conf.speed \in Nat /\ conf.speed <= (2 * Ten + 2) * conf.speed
      <4>1. Ten \in Nat /\ conf.speed \in Nat /\ 1 <= 2 * Ten + 2
        BY <1>2, CoreMarkAssumption DEF ConfigType
      <4>2. 1 * conf.speed <= (2 * Ten + 2) * conf.speed /\ (2 * Ten + 2) * conf.speed \in Nat
        BY <4>1, TimesGrows
      <4> QED BY <4>1, <4>2
    <3> QED BY <1>2, <3>1 DEF ConfigType
  <2> QED BY <1>1, <1>2, <2>1, <2>2 DEF LengthInv, Calibrating, ConfigType
<1>11. ProcInv
  BY <1>1, <1>7 DEF ProcInv
<1>12. WorkInv /\ GatherInv
  BY <1>7 DEF WorkInv, GatherInv
<1>13. LinkInv
  BY <1>1 DEF LinkInv
<1> QED BY <1>8, <1>9, <1>10, <1>11, <1>12, <1>13 DEF RunInv

\* While main finds out how long to run nothing has been started.
LEMMA CalibratingFacts ==
    ASSUME RunInv, Calibrating
    PROVE  /\ i = 0 /\ DOMAIN child = {} /\ DOMAIN inbox = {}
           /\ \A c \in Contexts : ~Started(c) /\ ~Gathered(c) /\ proc[c] # "ended"
           /\ \A c \in Contexts : ~Own(c) /\ Memory(c) = results[c]
<1>1. i = 0 /\ \A c \in Contexts : ~Started(c) /\ ~Gathered(c)
  BY ConfFacts DEF RunInv, ShapeInv, Started, Gathered, Calibrating
<1>2. DOMAIN child = {} /\ \A c \in Contexts : proc[c] # "ended"
  BY <1>1 DEF RunInv, ProcInv
<1>3. DOMAIN inbox = {}
  BY <1>2 DEF RunInv, LinkInv
<1>4. \A c \in Contexts : ~Own(c) /\ Memory(c) = results[c]
  BY <1>2 DEF Own, Memory
<1> QED BY <1>1, <1>2, <1>3, <1>4

\* Main runs more iterations to measure.
LEMMA CalibrateKeeps ==
    ASSUME RunInv, Calibrate PROVE RunInv'
<1> DEFINE r == results[0]
           n == Longer(r.iterations)
           s == Entered([r EXCEPT !.iterations = n])
           p == Prepared[conf]
           u == Undoes(conf)
<1>0. results' = [results EXCEPT ![0] = s]
  BY DEF Calibrate
<1>1. /\ at = "calibrate" /\ at' = "measure"
      /\ proc' = [proc EXCEPT ![0] = "iterate"] /\ turn' = [turn EXCEPT ![0] = 0]
      /\ conf' = conf /\ i' = i /\ child' = child /\ shm' = shm /\ inbox' = inbox
      /\ elapsed' = elapsed
  BY DEF Calibrate, links
<1>2. Calibrating /\ Calibrating'
  BY <1>1 DEF Calibrating
<1>3. ShapeInv /\ MemoryInv /\ LengthInv /\ ProcInv
  BY DEF RunInv
<1>4. 0 \in Contexts /\ Contexts \subseteq Nat /\ Ten \in Nat \ {0}
  BY ConfFacts
<1>5. /\ i = 0 /\ DOMAIN child = {} /\ DOMAIN inbox = {}
      /\ \A c \in Contexts : ~Started(c) /\ ~Gathered(c) /\ proc[c] # "ended"
  BY <1>2, CalibratingFacts
<1>6. Kept(r, p, u) /\ Shaped(r)
  BY <1>3, <1>4 DEF MemoryInv, Kept
<1>7. r.iterations \in Nat /\ r.iterations >= 1 /\ r.iterations <= conf.speed
  BY <1>1, <1>2, <1>3 DEF LengthInv, Iterations
<1>8. Kept(s, p, u) /\ s.iterations = n
  <2> DEFINE w == [r EXCEPT !.iterations = n]
  <2> HIDE DEF r, n, p, u
  <2>1. Kept(w, p, u) /\ w.iterations = n
    BY <1>6, ResultChanges
  <2> HIDE DEF w
  <2>2. Shaped(w)
    BY <2>1 DEF Kept
  <2>3. Kept(WithOutputs(w, NoOutputs), p, u) /\ WithOutputs(w, NoOutputs).iterations = n
    BY <2>1, <2>2, ResultChanges
  <2> QED BY <2>3 DEF Entered, w
<1>9. n \in Nat /\ n >= 1 /\ n < U32 /\ n <= Ten * conf.speed
  <2>1. ConfigType(conf)
    BY ConfFacts
  <2> QED BY <1>7, <2>1, LongerFacts DEF ConfigType
<1> HIDE DEF r, s, n
<1>10. /\ DOMAIN results' = Contexts /\ results'[0] = s
       /\ \A c \in Contexts : c # 0 => results'[c] = results[c]
  BY <1>0, <1>3, <1>4 DEF ShapeInv
<1>11. \A c \in Contexts : ~Started(c)' /\ ~Gathered(c)'
  BY <1>1 DEF Started, Gathered
<1>12. ShapeInv'
  BY <1>1, <1>3, <1>5, <1>10 DEF ShapeInv, Calibrating
<1>13. MemoryInv'
  BY <1>1, <1>3, <1>5, <1>8, <1>10 DEF MemoryInv
<1>14. LengthInv'
  BY <1>1, <1>2, <1>8, <1>9, <1>10 DEF LengthInv, Iterations
<1>15. ProcInv'
  BY <1>1, <1>3, <1>4, <1>5, <1>11 DEF ProcInv
<1>16. WorkInv' /\ GatherInv'
  BY <1>1, <1>11 DEF WorkInv, GatherInv
<1>17. LinkInv'
  <2>1. \A c \in Contexts : proc'[c] # "ended"
    BY <1>1, <1>3, <1>5 DEF ProcInv
  <2> QED BY <1>1, <1>5, <2>1 DEF LinkInv
<1> QED BY <1>12, <1>13, <1>14, <1>15, <1>16, <1>17 DEF RunInv

\* Main has measured: once more, or the number of iterations is found.
LEMMA MeasuredKeeps ==
    ASSUME RunInv, Measured PROVE RunInv'
<1> DEFINE r == results[0]
           n == r.iterations
           s == [r EXCEPT !.iterations = Lengthened(n, conf.speed)]
           p == Prepared[conf]
           u == Undoes(conf)
<1>1. /\ at = "measure" /\ proc' = [proc EXCEPT ![0] = "none"]
      /\ conf' = conf /\ i' = i /\ child' = child /\ turn' = turn
      /\ shm' = shm /\ inbox' = inbox /\ elapsed' = elapsed
  BY DEF Measured, links
<1>2. \/ n < conf.speed /\ at' = "calibrate" /\ results' = results
      \/ ~(n < conf.speed) /\ at' = "start" /\ results' = [results EXCEPT ![0] = s]
  BY DEF Measured
<1>3. ShapeInv /\ MemoryInv /\ LengthInv /\ ProcInv /\ Calibrating
  BY <1>1 DEF RunInv, Calibrating
<1>4. 0 \in Contexts /\ Contexts \subseteq Nat /\ ConfigType(conf)
  BY ConfFacts
<1>5. /\ i = 0 /\ DOMAIN child = {} /\ DOMAIN inbox = {}
      /\ \A c \in Contexts : ~Started(c) /\ ~Gathered(c) /\ proc[c] # "ended"
  BY <1>3, CalibratingFacts
<1>6. Kept(r, p, u) /\ Shaped(r)
  BY <1>3, <1>4 DEF MemoryInv, Kept
<1>7. n \in Nat /\ n >= 1 /\ n < U32 /\ n <= Ten * conf.speed /\ conf.speed \in Nat \ {0}
  BY <1>1, <1>3, <1>4 DEF LengthInv, Iterations, ConfigType
<1> HIDE DEF r, n, p, u
<1>8. Kept(s, p, u) /\ s.iterations = Lengthened(n, conf.speed)
  BY <1>6, ResultChanges
<1>9. ~(n < conf.speed) =>
        /\ Lengthened(n, conf.speed) \in Nat /\ Lengthened(n, conf.speed) < U32
        /\ Lengthened(n, conf.speed) >= Ten * conf.speed /\ Lengthened(n, conf.speed) >= 1
  <2> SUFFICES ASSUME ~(n < conf.speed)
               PROVE  /\ Lengthened(n, conf.speed) \in Nat /\ Lengthened(n, conf.speed) < U32
                      /\ Lengthened(n, conf.speed) >= Ten * conf.speed
                      /\ Lengthened(n, conf.speed) >= 1
    OBVIOUS
  <2>1. /\ Lengthened(n, conf.speed) \in Nat /\ Lengthened(n, conf.speed) < U32
        /\ Lengthened(n, conf.speed) >= Ten * conf.speed
    BY <1>4, <1>7, LengthenedFacts DEF ConfigType
  <2>2. 1 * conf.speed <= Ten * conf.speed /\ Ten * conf.speed \in Nat
    BY <1>7, CoreMarkAssumption, TimesGrows
  <2> QED BY <1>7, <2>1, <2>2
<1> HIDE DEF s
<1>10. /\ DOMAIN results' = Contexts
       /\ results'[0] = IF n < conf.speed THEN r ELSE s
       /\ \A c \in Contexts : c # 0 => results'[c] = results[c]
  BY <1>2, <1>3, <1>4 DEF ShapeInv, r
<1>11. \A c \in Contexts : ~Started(c)' /\ ~Gathered(c)'
  BY <1>1, <1>2, <1>4, <1>5 DEF Started, Gathered
<1>12. ShapeInv'
  BY <1>1, <1>2, <1>3, <1>5, <1>10 DEF ShapeInv, Calibrating
<1>13. MemoryInv'
  BY <1>1, <1>3, <1>5, <1>6, <1>8, <1>10 DEF MemoryInv, p, u
<1>14. LengthInv'
  <2>1. CASE n < conf.speed
    <3>1. Iterations' = n
      BY <1>10, <2>1 DEF Iterations, n
    <3> QED BY <1>1, <1>2, <1>7, <2>1, <3>1 DEF LengthInv, Calibrating
  <2>2. CASE ~(n < conf.speed)
    <3>1. Iterations' = Lengthened(n, conf.speed)
      BY <1>8, <1>10, <2>2 DEF Iterations
    <3> QED BY <1>1, <1>2, <1>9, <2>2, <3>1 DEF LengthInv, Calibrating
  <2> QED BY <2>1, <2>2
<1>15. ProcInv'
  BY <1>1, <1>2, <1>3, <1>4, <1>5, <1>11 DEF ProcInv
<1>16. WorkInv' /\ GatherInv'
  BY <1>1, <1>11 DEF WorkInv, GatherInv
<1>17. LinkInv'
  <2>1. \A c \in Contexts : proc'[c] # "ended"
    BY <1>1, <1>3, <1>5 DEF ProcInv
  <2> QED BY <1>1, <1>5, <2>1 DEF LinkInv
<1> QED BY <1>12, <1>13, <1>14, <1>15, <1>16, <1>17 DEF RunInv

\* With the memory and the results of the other contexts untouched, what is
\* said of them stays true.
LEMMA StartKeeps ==
    ASSUME RunInv, core_start_parallel PROVE RunInv'
<1> DEFINE it == Iterations
           r == results[i]
           w == [r EXCEPT !.iterations = it]
           res == Entered(w)
           p == Prepared[conf]
           u == Undoes(conf)
<1>1. /\ at = "start" /\ i < conf.contexts
      /\ proc' = [proc EXCEPT ![i] = "iterate"] /\ turn' = [turn EXCEPT ![i] = 0]
      /\ conf' = conf /\ shm' = shm /\ inbox' = inbox /\ elapsed' = elapsed
  BY DEF core_start_parallel, links
<1>2. IF Forks THEN child' = Put(child, i, res) /\ results' = [results EXCEPT ![i].iterations = res.iterations]
               ELSE results' = [results EXCEPT ![i] = res] /\ child' = child
  BY DEF core_start_parallel, Iterations
<1>3. \/ at' = "bind" /\ i' = i
      \/ at' = "start" /\ i' = i + 1
  BY <1>1 DEF core_start_parallel
<1>4. ShapeInv /\ MemoryInv /\ LengthInv /\ ProcInv /\ WorkInv /\ LinkInv
  BY DEF RunInv
<1>5. /\ 0 \in Contexts /\ Contexts \subseteq Nat /\ ConfigType(conf)
      /\ i \in Nat /\ conf.contexts \in Nat /\ i \in Contexts
  BY <1>1, <1>4, ConfFacts DEF ShapeInv, ConfigType
<1>6. Kept(r, p, u) /\ Shaped(r)
  BY <1>4, <1>5 DEF MemoryInv, Kept
<1>7. u => res = Base(conf, it)
  <2> SUFFICES ASSUME u PROVE res = Base(conf, it)
    OBVIOUS
  <2>1. Kept(r, Prepared[conf], TRUE)
    BY <1>6 DEF Kept
  <2>2. conf \in Configurations
    BY <1>4 DEF ShapeInv
  <2> HIDE DEF r, it
  <2> QED BY <2>1, <2>2, EntersAtBase
<1>8. Kept(w, p, u) /\ w.iterations = it /\ Kept(res, p, u) /\ res.iterations = it
  <2> HIDE DEF r, it, p, u
  <2>1. Kept(w, p, u) /\ w.iterations = it
    BY <1>6, ResultChanges
  <2> HIDE DEF w
  <2>2. Shaped(w)
    BY <2>1 DEF Kept
  <2>3. Kept(WithOutputs(w, NoOutputs), p, u) /\ WithOutputs(w, NoOutputs).iterations = it
    BY <2>1, <2>2, ResultChanges
  <2> QED BY <2>1, <2>3 DEF Entered
<1> HIDE DEF res
<1>9. /\ DOMAIN results' = Contexts
      /\ \A c \in Contexts : c # i => results'[c] = results[c]
      /\ results'[i] = IF Forks THEN w ELSE res
      /\ DOMAIN child' = DOMAIN child \cup (IF Forks THEN {i} ELSE {})
      /\ \A c \in DOMAIN child : c # i => child'[c] = child[c]
      /\ Forks => child'[i] = res
  <2>1. CASE Forks
    <3>1. results' = [results EXCEPT ![i] = w]
      BY <1>2, <1>8, <2>1
    <3>2. child' = [x \in {i} \cup DOMAIN child |-> IF x = i THEN res ELSE child[x]]
      BY <1>2, <2>1 DEF Put
    <3> HIDE DEF w
    <3> QED BY <1>4, <1>5, <2>1, <3>1, <3>2 DEF ShapeInv
  <2>2. CASE ~Forks
    <3> HIDE DEF w
    <3> QED BY <1>2, <1>4, <1>5, <2>2 DEF ShapeInv
  <2> QED BY <2>1, <2>2
<1> HIDE DEF w, r
<1>10. \A c \in Contexts :
         /\ Started(c)' <=> Started(c) \/ c = i
         /\ ~Gathered(c)' /\ ~Gathered(c)
         /\ Started(c) => c # i
  BY <1>1, <1>3, <1>5 DEF Started, Gathered
<1>11. Forks' = Forks /\ ~Calibrating /\ ~Calibrating' /\ at # "measure" /\ at' # "measure"
  BY <1>1, <1>3 DEF Forks, Calibrating
<1>12. Iterations' = it
  BY <1>5, <1>8, <1>9 DEF Iterations
<1>13. /\ \A c \in Contexts : c = i => Memory(c)' = res
       /\ \A c \in Contexts : c # i => Memory(c)' = Memory(c)
  <2>1. DOMAIN child' = {c \in Contexts : Forks /\ Started(c)} \cup (IF Forks THEN {i} ELSE {})
    BY <1>4, <1>9 DEF ProcInv
  <2>2. ASSUME NEW c \in Contexts, c = i PROVE Memory(c)' = res
    BY <1>5, <1>9, <1>11, <2>2 DEF Memory, Own
  <2>3. ASSUME NEW c \in Contexts, c # i PROVE Memory(c)' = Memory(c)
    <3>1. c \in DOMAIN child' <=> c \in DOMAIN child
      BY <1>9, <2>3
    <3>2. c \in DOMAIN child => child'[c] = child[c]
      BY <1>9, <2>3
    <3>3. results'[c] = results[c]
      BY <1>9, <2>3
    <3> QED BY <1>11, <3>1, <3>2, <3>3 DEF Memory, Own
  <2> QED BY <2>2, <2>3
<1>14. ShapeInv'
  BY <1>1, <1>3, <1>4, <1>5, <1>9, <1>11 DEF ShapeInv
<1>15. MemoryInv'
  <2> HIDE DEF p, u
  <2>1. ASSUME NEW c \in Contexts
        PROVE  Kept(results'[c], p, u) /\ (c \in DOMAIN child' => Kept(child'[c], p, u))
    <3>1. Kept(results[c], p, u) /\ (c \in DOMAIN child => Kept(child[c], p, u))
      BY <1>4 DEF MemoryInv, p, u
    <3>2. CASE c = i
      <4>1. CASE Forks
        BY <1>8, <1>9, <3>2, <4>1
      <4>2. CASE ~Forks
        BY <1>2, <1>8, <1>9, <3>1, <3>2, <4>2
      <4> QED BY <4>1, <4>2
    <3>3. CASE c # i
      BY <1>9, <3>1, <3>3
    <3> QED BY <3>2, <3>3
  <2> QED BY <1>1, <2>1 DEF MemoryInv, p, u
<1>16. LengthInv'
  BY <1>1, <1>3, <1>4, <1>11, <1>12 DEF LengthInv, it
<1>17. ProcInv'
  <2>1. proc' \in [Contexts -> {"none", "iterate", "ended"}]
    BY <1>1, <1>4 DEF ProcInv
  <2>2. \A c \in Contexts : proc'[c] = IF c = i THEN "iterate" ELSE proc[c]
    BY <1>1, <1>4 DEF ProcInv
  <2>3. \A c \in Contexts : proc'[c] # "none" <=> Started(c)'
    BY <1>4, <1>10, <1>11, <2>2 DEF ProcInv
  <2>4. DOMAIN child' = {c \in Contexts : Forks /\ Started(c)'}
    BY <1>4, <1>5, <1>9, <1>10 DEF ProcInv
  <2> QED BY <1>10, <1>11, <2>1, <2>3, <2>4 DEF ProcInv
<1>18. WorkInv'
  <2> SUFFICES ASSUME NEW c \in Contexts, Started(c)'
               PROVE  /\ Memory(c)'.iterations = Iterations'
                      /\ turn'[c] = 0 \/ turn'[c] <= Iterations'
                      /\ proc'[c] = "ended" => turn'[c] >= Iterations'
                      /\ Undoes(conf') => Worked(conf', Iterations', turn'[c], Memory(c)')
    BY DEF WorkInv
  <2>1. CASE c = i
    <3>1. turn'[c] = 0 /\ proc'[c] = "iterate"
      BY <1>1, <1>4, <2>1 DEF ShapeInv, ProcInv
    <3>2. Undoes(conf) => Worked(conf, it, 0, res)
      BY <1>7, WorkedStart DEF u
    <3>3. Memory(c)' = res /\ res.iterations = it
      BY <1>8, <1>13, <2>1
    <3> QED BY <1>1, <1>12, <3>1, <3>2, <3>3
  <2>2. CASE c # i
    <3>1. turn'[c] = turn[c] /\ proc'[c] = proc[c]
      BY <1>1, <1>4, <2>2 DEF ShapeInv, ProcInv
    <3>2. Started(c)
      BY <1>10, <2>2
    <3> QED BY <1>1, <1>4, <1>12, <1>13, <2>2, <3>1, <3>2 DEF WorkInv, it
  <2> QED BY <2>1, <2>2
<1>19. LinkInv'
  <2>1. \A c \in Contexts : proc[c] = "ended" => c # i
    BY <1>4, <1>10, <1>11 DEF ProcInv
  <2>2. \A c \in Contexts : proc'[c] = IF c = i THEN "iterate" ELSE proc[c]
    BY <1>1, <1>4 DEF ProcInv
  <2>3. \A c \in Contexts : proc'[c] = "ended" => proc[c] = "ended" /\ Memory(c)' = Memory(c)
    BY <1>13, <2>2
  <2>4. \A c \in Contexts : proc[c] = "ended" => proc'[c] = "ended" /\ Memory(c)' = Memory(c)
    BY <1>13, <2>1, <2>2
  <2> QED BY <1>1, <1>4, <2>3, <2>4 DEF LinkInv
<1>20. GatherInv'
  BY <1>1, <1>10 DEF GatherInv
<1> QED BY <1>14, <1>15, <1>16, <1>17, <1>18, <1>19, <1>20 DEF RunInv

\* Main turns to its next loop.
LEMMA MovesOnKeeps ==
    ASSUME RunInv, Bind \/ AllStarted \/ Report PROVE RunInv'
<1>1. /\ conf' = conf /\ results' = results /\ child' = child /\ proc' = proc /\ turn' = turn
      /\ shm' = shm /\ inbox' = inbox
  BY DEF Bind, AllStarted, Report, workers, links
<1>2. \/ at = "bind" /\ at' = "start" /\ i' = i + 1 /\ elapsed' = elapsed
      \/ at = "start" /\ i = conf.contexts /\ at' = "stop" /\ i' = 0 /\ elapsed' = elapsed
      \/ at = "stop" /\ i = conf.contexts /\ at' = "done" /\ i' = i /\ elapsed' \in get_time
  BY DEF Bind, AllStarted, Report
<1>3. ShapeInv /\ MemoryInv /\ LengthInv /\ ProcInv /\ WorkInv /\ LinkInv /\ GatherInv
  BY DEF RunInv
<1>4. Contexts \subseteq Nat /\ i \in Nat /\ conf.contexts \in Nat /\ i <= conf.contexts
  BY <1>3, ConfFacts DEF ShapeInv, ConfigType
<1>5. \A c \in Contexts : (Started(c)' <=> Started(c)) /\ (Gathered(c)' => Gathered(c))
  BY <1>1, <1>2, <1>4 DEF Started, Gathered
<1>6. Forks' = Forks /\ ~Calibrating /\ ~Calibrating' /\ at # "measure" /\ at' # "measure"
  BY <1>1, <1>2 DEF Forks, Calibrating
<1>7. Iterations' = Iterations /\ get_time' = get_time
  BY <1>1 DEF Iterations, get_time
<1>8. \A c \in Contexts : Memory(c)' = Memory(c)
  BY <1>1, <1>6 DEF Memory, Own
<1>9. ShapeInv'
  BY <1>1, <1>2, <1>3, <1>4, <1>6 DEF ShapeInv
<1>10. MemoryInv'
  BY <1>1, <1>3 DEF MemoryInv
<1>11. LengthInv'
  BY <1>1, <1>2, <1>3, <1>6, <1>7 DEF LengthInv
<1>12. ProcInv'
  BY <1>1, <1>3, <1>5, <1>6 DEF ProcInv
<1>13. WorkInv'
  BY <1>1, <1>3, <1>5, <1>7, <1>8 DEF WorkInv
<1>14. LinkInv'
  BY <1>1, <1>3, <1>8 DEF LinkInv
<1>15. GatherInv'
  BY <1>1, <1>3, <1>5, <1>8 DEF GatherInv
<1> QED BY <1>9, <1>10, <1>11, <1>12, <1>13, <1>14, <1>15 DEF RunInv

\* Main gathers the results of the next context.
LEMMA StopKeeps ==
    ASSUME RunInv, core_stop_parallel PROVE RunInv'
<1> DEFINE r == results[i]
           p == Prepared[conf]
           u == Undoes(conf)
<1>1. /\ at = "stop" /\ i < conf.contexts /\ proc[i] = "ended" /\ at' = at /\ i' = i + 1
      /\ conf' = conf /\ child' = child /\ proc' = proc /\ turn' = turn /\ shm' = shm
      /\ elapsed' = elapsed
  BY DEF core_stop_parallel
<1>2. ShapeInv /\ MemoryInv /\ LengthInv /\ ProcInv /\ WorkInv /\ LinkInv /\ GatherInv
  BY DEF RunInv
<1>3. /\ 0 \in Contexts /\ Contexts \subseteq Nat /\ ConfigType(conf)
      /\ i \in Nat /\ conf.contexts \in Nat /\ i \in Contexts
  BY <1>1, <1>2, ConfFacts DEF ShapeInv, ConfigType
<1>4. Kept(r, p, u) /\ Shaped(r)
  BY <1>2, <1>3 DEF MemoryInv, Kept
<1>5. Started(i)
  BY <1>1 DEF Started
\* What main gathers is what the context put out.
<1>6. \/ conf.method = "pthread" /\ results' = results /\ inbox' = inbox
      \/ /\ conf.method # "pthread" /\ results' = [results EXCEPT ![i] = WithOutputs(r, Outputs(Memory(i)))]
         /\ \/ inbox' = inbox
            \/ /\ conf.method = "socket" /\ i \in DOMAIN inbox /\ inbox[i] # << >>
               /\ inbox' = [inbox EXCEPT ![i] = Tail(inbox[i])]
  <2>1. conf.method \in {"pthread", "fork", "socket"}
    BY <1>3 DEF ConfigType
  <2>2. CASE conf.method = "pthread"
    BY <2>2 DEF core_stop_parallel
  <2>3. CASE conf.method = "fork"
    <3>1. results' = [results EXCEPT ![i] = WithOutputs(r, shm[i])] /\ inbox' = inbox
      BY <2>3 DEF core_stop_parallel, Port
    <3>2. shm[i] = Outputs(Memory(i))
      BY <1>1, <1>2, <1>3, <2>3 DEF LinkInv
    <3> QED BY <2>3, <3>1, <3>2
  <2>4. CASE conf.method = "socket"
    <3>1. /\ results' = [results EXCEPT ![i] = WithOutputs(r, Head(inbox[i]))]
          /\ i \in DOMAIN inbox /\ inbox[i] # << >> /\ inbox' = [inbox EXCEPT ![i] = Tail(inbox[i])]
      BY <2>4 DEF core_stop_parallel, Port
    <3>2. inbox[i] \in Seq({Outputs(Memory(i))})
      BY <1>2, <3>1 DEF LinkInv
    <3>3. Head(inbox[i]) = Outputs(Memory(i))
      BY <3>1, <3>2
    <3> QED BY <2>4, <3>1, <3>3
  <2> QED BY <2>1, <2>2, <2>3, <2>4
<1>7. \A c \in Contexts :
        /\ Started(c)' <=> Started(c)
        /\ Gathered(c)' => Gathered(c) \/ c = i
  BY <1>1, <1>3 DEF Started, Gathered
<1>8. Forks' = Forks /\ ~Calibrating /\ ~Calibrating' /\ at # "measure" /\ at' # "measure" /\ at' # "bind"
  BY <1>1 DEF Forks, Calibrating
<1> DEFINE s == WithOutputs(r, Outputs(Memory(i)))
<1>9. Kept(s, p, u) /\ s.iterations = r.iterations /\ Outputs(s) = Outputs(Memory(i))
  <2> HIDE DEF r, p, u
  <2>1. Kept(s, p, u) /\ s.iterations = r.iterations
    BY <1>4, ResultChanges
  <2>2. Outputs(s) = Outputs(Memory(i))
    BY <1>4, ResultChanges
  <2> QED BY <2>1, <2>2
<1> HIDE DEF s
<1>10. /\ DOMAIN results' = Contexts
       /\ \A c \in Contexts : c # i => results'[c] = results[c]
       /\ \/ conf.method = "pthread" /\ results' = results
          \/ conf.method # "pthread" /\ results'[i] = s
  BY <1>2, <1>3, <1>6 DEF ShapeInv, s
<1>11. Iterations' = Iterations
  BY <1>3, <1>9, <1>10 DEF Iterations
<1>12. \A c \in Contexts : Started(c) => Memory(c)' = Memory(c)
  <2>1. CASE conf.method = "pthread"
    BY <1>1, <1>8, <1>10, <2>1 DEF Memory, Own
  <2>2. CASE conf.method # "pthread"
    BY <1>1, <1>2, <1>8, <2>2 DEF Memory, Own, ProcInv, Forks
  <2> QED BY <2>1, <2>2
<1>13. \A c \in Contexts : proc[c] = "ended" => Started(c)
  BY <1>2, <1>8 DEF ProcInv
<1>14. ShapeInv'
  BY <1>1, <1>2, <1>3, <1>8, <1>10 DEF ShapeInv
<1>15. MemoryInv'
  <2> HIDE DEF p, u
  <2>1. ASSUME NEW c \in Contexts
        PROVE  Kept(results'[c], p, u) /\ (c \in DOMAIN child' => Kept(child'[c], p, u))
    <3>1. Kept(results[c], p, u) /\ (c \in DOMAIN child => Kept(child[c], p, u))
      BY <1>2 DEF MemoryInv, p, u
    <3> QED BY <1>1, <1>9, <1>10, <3>1
  <2> QED BY <1>1, <2>1 DEF MemoryInv, p, u
<1>16. LengthInv'
  BY <1>1, <1>2, <1>8, <1>11 DEF LengthInv
<1>17. ProcInv'
  BY <1>1, <1>2, <1>3, <1>7, <1>8 DEF ProcInv
<1>18. WorkInv'
  BY <1>1, <1>2, <1>7, <1>11, <1>12 DEF WorkInv
<1>19. LinkInv'
  <2>1. \A c \in Contexts :
          proc'[c] = "ended" /\ conf'.method = "fork" => c \in DOMAIN shm' /\ shm'[c] = Outputs(Memory(c)')
    BY <1>1, <1>2, <1>12, <1>13 DEF LinkInv
  <2>2. ASSUME NEW c \in DOMAIN inbox'
        PROVE  /\ c \in Contexts /\ proc'[c] = "ended" /\ conf'.method = "socket"
               /\ inbox'[c] \in Seq({Outputs(Memory(c)')})
    <3>1. c \in DOMAIN inbox
      BY <1>6
    <3>2. /\ c \in Contexts /\ proc[c] = "ended" /\ conf.method = "socket"
          /\ inbox[c] \in Seq({Outputs(Memory(c))})
      BY <1>2, <3>1 DEF LinkInv
    <3>3. Memory(c)' = Memory(c)
      BY <1>12, <1>13, <3>2
    <3>4. inbox'[c] = inbox[c] \/ (inbox[c] # << >> /\ inbox'[c] = Tail(inbox[c]))
      BY <1>6, <3>1
    <3> DEFINE o == Outputs(Memory(c))
    <3>5. inbox[c] \in Seq({o})
      BY <3>2
    <3> HIDE DEF o
    <3>6. inbox'[c] \in Seq({o})
      BY <3>4, <3>5
    <3> QED BY <1>1, <3>2, <3>3, <3>6 DEF o
  <2> QED BY <2>1, <2>2 DEF LinkInv
<1>20. GatherInv'
  <2> SUFFICES ASSUME NEW c \in Contexts, Gathered(c)'
               PROVE  Outputs(results'[c]) = Outputs(Memory(c)')
    BY DEF GatherInv
  <2>1. CASE c = i
    <3>1. Memory(c)' = Memory(i)
      BY <1>3, <1>5, <1>12, <2>1
    <3>2. CASE conf.method = "pthread"
      <4>1. Memory(i) = results[i]
        BY <3>2 DEF Memory, Own, Forks
      <4> QED BY <1>10, <2>1, <3>1, <3>2, <4>1
    <3>3. CASE conf.method # "pthread"
      BY <1>9, <1>10, <2>1, <3>1, <3>3
    <3> QED BY <3>2, <3>3
  <2>2. CASE c # i
    <3>1. Gathered(c)
      BY <1>7, <2>2
    <3>2. Started(c)
      BY <1>2, <1>13, <3>1 DEF ProcInv
    <3>3. Memory(c)' = Memory(c) /\ results'[c] = results[c]
      BY <1>10, <1>12, <2>2, <3>2
    <3> QED BY <1>2, <3>1, <3>3 DEF GatherInv
  <2> QED BY <2>1, <2>2
<1> QED BY <1>14, <1>15, <1>16, <1>17, <1>18, <1>19, <1>20 DEF RunInv

\* A context does one iteration.
LEMMA TurnKeeps ==
    ASSUME RunInv, NEW c \in Contexts, Turn(c) PROVE RunInv'
<1> DEFINE m == Memory(c)
           s == Iterated(conf, m, turn[c])
           p == Prepared[conf]
           u == Undoes(conf)
<1>1. /\ proc[c] = "iterate" /\ turn[c] < m.iterations /\ turn' = [turn EXCEPT ![c] = turn[c] + 1]
      /\ conf' = conf /\ at' = at /\ i' = i /\ proc' = proc /\ shm' = shm /\ inbox' = inbox
      /\ elapsed' = elapsed
  BY DEF Turn, Running, links
<1>2. \/ Own(c) /\ child' = [child EXCEPT ![c] = s] /\ results' = results
      \/ ~Own(c) /\ results' = [results EXCEPT ![c] = s] /\ child' = child
  BY DEF Turn, Memory
<1>3. ShapeInv /\ MemoryInv /\ LengthInv /\ ProcInv /\ WorkInv /\ LinkInv /\ GatherInv
  BY DEF RunInv
<1>4. 0 \in Contexts /\ Contexts \subseteq Nat
  BY ConfFacts
<1>5. Kept(m, p, u)
  BY <1>3 DEF MemoryInv, Memory, Own
<1>6. Kept(s, p, u) /\ s.iterations = m.iterations
  <2>1. Keeps(s, m, conf)
    <3>1. conf \in Configurations
      BY <1>3 DEF ShapeInv
    <3> DEFINE n == turn[c]
    <3> HIDE DEF m, n
    <3>2. Keeps(Iterated(conf, m, n), m, conf)
      BY <1>5, <3>1, IteratedKeeps
    <3> QED BY <3>2 DEF n
  <2> QED BY <2>1 DEF Keeps
<1> HIDE DEF s, p, u
<1>7. /\ DOMAIN results' = Contexts /\ DOMAIN child' = DOMAIN child
      /\ \A d \in Contexts : d # c => results'[d] = results[d]
      /\ \A d \in DOMAIN child : d # c => child'[d] = child[d]
  BY <1>2, <1>3 DEF ShapeInv
<1>8. Forks' = Forks /\ (Calibrating' <=> Calibrating)
      /\ \A d \in Contexts : (Started(d)' <=> Started(d)) /\ (Gathered(d)' <=> Gathered(d))
  BY <1>1 DEF Forks, Calibrating, Started, Gathered
<1>9. \A d \in Contexts : Own(d)' <=> Own(d)
  BY <1>7, <1>8 DEF Own
<1>10. Memory(c)' = s
  <2>1. CASE Own(c)
    <3>1. child'[c] = s
      BY <1>2, <2>1 DEF Own
    <3> QED BY <1>9, <2>1, <3>1 DEF Memory
  <2>2. CASE ~Own(c)
    <3>1. results'[c] = s
      BY <1>2, <1>3, <2>2 DEF ShapeInv
    <3> QED BY <1>9, <2>2, <3>1 DEF Memory
  <2> QED BY <2>1, <2>2
<1>11. ASSUME NEW d \in Contexts, d # c PROVE Memory(d)' = Memory(d)
  <2>1. Own(d) => child'[d] = child[d]
    BY <1>7, <1>11 DEF Own
  <2>2. results'[d] = results[d]
    BY <1>7, <1>11
  <2> QED BY <1>9, <2>1, <2>2 DEF Memory
<1>12. Iterations' = Iterations
  <2>1. CASE Own(c)
    BY <1>2, <2>1 DEF Iterations
  <2>2. CASE ~Own(c)
    <3>1. m = results[c] /\ results'[c] = s
      BY <1>2, <1>3, <2>2 DEF Memory, ShapeInv
    <3>2. results'[c].iterations = results[c].iterations
      BY <1>6, <3>1
    <3> HIDE DEF m
    <3>3. CASE c = 0
      BY <3>2, <3>3 DEF Iterations
    <3>4. CASE c # 0
      BY <1>4, <1>7, <3>4 DEF Iterations
    <3> QED BY <3>3, <3>4
  <2> QED BY <2>1, <2>2
<1>13. \A d \in Contexts : proc[d] = "ended" => d # c
  BY <1>1
<1>14. ShapeInv'
  <2>1. turn' \in [Contexts -> Nat]
    <3>1. turn[c] + 1 \in Nat
      BY <1>3 DEF ShapeInv
    <3> QED BY <1>1, <1>3, <3>1 DEF ShapeInv
  <2> QED BY <1>1, <1>3, <1>7, <1>8, <2>1 DEF ShapeInv
<1>15. MemoryInv'
  <2>1. ASSUME NEW d \in Contexts
        PROVE  Kept(results'[d], p, u) /\ (d \in DOMAIN child' => Kept(child'[d], p, u))
    <3>1. Kept(results[d], p, u) /\ (d \in DOMAIN child => Kept(child[d], p, u))
      BY <1>3 DEF MemoryInv, p, u
    <3>2. results'[d] \in {results[d], s}
      BY <1>2, <1>3 DEF ShapeInv
    <3>3. d \in DOMAIN child => child'[d] \in {child[d], s}
      BY <1>2
    <3> QED BY <1>6, <1>7, <3>1, <3>2, <3>3
  <2> QED BY <1>1, <2>1 DEF MemoryInv, p, u
<1>16. LengthInv'
  <2>1. get_time' = get_time
    BY <1>1, <1>12 DEF get_time, Iterations
  <2> QED BY <1>1, <1>3, <1>8, <1>12, <2>1 DEF LengthInv
<1>17. ProcInv'
  BY <1>1, <1>3, <1>7, <1>8 DEF ProcInv
<1>18. WorkInv'
  <2> SUFFICES ASSUME NEW d \in Contexts, Started(d)'
               PROVE  /\ Memory(d)'.iterations = Iterations'
                      /\ turn'[d] = 0 \/ turn'[d] <= Iterations'
                      /\ proc'[d] = "ended" => turn'[d] >= Iterations'
                      /\ Undoes(conf') => Worked(conf', Iterations', turn'[d], Memory(d)')
    BY DEF WorkInv
  <2>1. /\ Memory(d).iterations = Iterations /\ (turn[d] = 0 \/ turn[d] <= Iterations)
        /\ proc[d] = "ended" => turn[d] >= Iterations
        /\ Undoes(conf) => Worked(conf, Iterations, turn[d], Memory(d))
    BY <1>3, <1>8 DEF WorkInv
  <2>2. CASE d = c
    <3>1. turn'[d] = turn[c] + 1 /\ turn[c] \in Nat
      BY <1>1, <1>3, <2>2 DEF ShapeInv
    <3>2. Memory(d)' = s
      BY <1>10, <2>2
    <3>3. s.iterations = Iterations /\ turn[c] < Iterations /\ Iterations \in Int
      BY <1>1, <1>3, <1>6, <2>1, <2>2 DEF LengthInv
    <3>4. Undoes(conf) => Worked(conf, Iterations, turn[c] + 1, s)
      <4> SUFFICES ASSUME Undoes(conf) PROVE Worked(conf, Iterations, turn[c] + 1, s)
        OBVIOUS
      <4> DEFINE it == Iterations
                 n == turn[c]
      <4>1. Worked(conf, it, n, m) /\ n \in Nat
        BY <2>1, <2>2, <3>1
      <4> HIDE DEF it, n, m
      <4>2. Worked(conf, it, n + 1, Iterated(conf, m, n))
        BY <4>1, WorkedStep
      <4> QED BY <4>2 DEF it, n, s
    <3> HIDE DEF m
    <3> QED BY <1>1, <1>12, <2>2, <3>1, <3>2, <3>3, <3>4
  <2>3. CASE d # c
    <3>1. turn'[d] = turn[d] /\ Memory(d)' = Memory(d)
      BY <1>1, <1>3, <1>11, <2>3 DEF ShapeInv
    <3> QED BY <1>1, <1>12, <2>1, <3>1
  <2> QED BY <2>2, <2>3
<1>19. LinkInv'
  <2>1. \A d \in Contexts : proc[d] = "ended" => Memory(d)' = Memory(d)
    BY <1>11, <1>13
  <2> QED BY <1>1, <1>3, <2>1 DEF LinkInv
<1>20. GatherInv'
  <2> SUFFICES ASSUME NEW d \in Contexts, Gathered(d)'
               PROVE  Outputs(results'[d]) = Outputs(Memory(d)')
    BY DEF GatherInv
  <2>1. Gathered(d) /\ d # c
    BY <1>3, <1>8, <1>13 DEF ProcInv
  <2>2. results'[d] = results[d] /\ Memory(d)' = Memory(d)
    BY <1>7, <1>11, <2>1
  <2> QED BY <1>3, <2>1, <2>2 DEF GatherInv
<1> QED BY <1>14, <1>15, <1>16, <1>17, <1>18, <1>19, <1>20 DEF RunInv

\* A context ends and passes its outputs on.
LEMMA ExitKeeps ==
    ASSUME RunInv, NEW c \in Contexts, Exit(c) PROVE RunInv'
<1> DEFINE o == Outputs(Memory(c))
<1>1. /\ proc[c] = "iterate" /\ ~Running(c) /\ at # "measure" /\ proc' = [proc EXCEPT ![c] = "ended"]
      /\ conf' = conf /\ at' = at /\ i' = i /\ results' = results /\ child' = child /\ turn' = turn
      /\ elapsed' = elapsed
  BY DEF Exit
<1>2. ShapeInv /\ MemoryInv /\ LengthInv /\ ProcInv /\ WorkInv /\ LinkInv /\ GatherInv
  BY DEF RunInv
<1>3. \A d \in Contexts : proc'[d] = IF d = c THEN "ended" ELSE proc[d]
  BY <1>1, <1>2 DEF ProcInv
<1>4. Started(c)
  BY <1>1, <1>2 DEF ProcInv
<1>5. ~(turn[c] < Iterations) /\ turn[c] \in Nat /\ Iterations \in Int
  BY <1>1, <1>2, <1>4 DEF Running, WorkInv, ShapeInv, LengthInv
<1>6. /\ Forks' = Forks /\ (Calibrating' <=> Calibrating)
      /\ Iterations' = Iterations /\ get_time' = get_time
      /\ \A d \in Contexts : (Started(d)' <=> Started(d)) /\ (Gathered(d)' <=> Gathered(d))
      /\ \A d \in Contexts : Memory(d)' = Memory(d)
  BY <1>1 DEF Forks, Calibrating, Started, Gathered, Iterations, get_time, Memory, Own
<1>7. ~Calibrating
  BY <1>1, <1>4 DEF Started, Calibrating
<1>8. conf.method \in {"pthread", "fork", "socket"}
  BY ConfFacts DEF ConfigType
<1>9. /\ conf.method = "fork" => shm' = Put(shm, c, o) /\ inbox' = inbox
      /\ conf.method = "pthread" => inbox' = inbox
      /\ conf.method = "socket" =>
           \/ inbox' = inbox
           \/ inbox' = Put(inbox, c, Append(IF c \in DOMAIN inbox THEN inbox[c] ELSE << >>, o))
  BY DEF Exit, links, Port
<1>10. ShapeInv'
  BY <1>1, <1>2, <1>6 DEF ShapeInv
<1>11. MemoryInv'
  BY <1>1, <1>2 DEF MemoryInv
<1>12. LengthInv'
  BY <1>1, <1>2, <1>6 DEF LengthInv
<1>13. ProcInv'
  <2>1. proc' \in [Contexts -> {"none", "iterate", "ended"}]
    BY <1>1, <1>2 DEF ProcInv
  <2>2. \A d \in Contexts : (Gathered(d)' => proc'[d] = "ended") /\ (Calibrating' => proc'[d] # "ended")
    BY <1>2, <1>3, <1>6, <1>7 DEF ProcInv
  <2>3. \A d \in Contexts : proc'[d] # "none" <=> Started(d)' \/ (at' = "measure" /\ d = 0)
    BY <1>1, <1>2, <1>3, <1>6 DEF ProcInv
  <2> QED BY <1>1, <1>2, <1>6, <2>1, <2>2, <2>3 DEF ProcInv
<1>14. WorkInv'
  BY <1>1, <1>2, <1>3, <1>5, <1>6 DEF WorkInv
<1>15. LinkInv'
  <2>1. ASSUME NEW d \in Contexts, proc'[d] = "ended", conf'.method = "fork"
        PROVE  d \in DOMAIN shm' /\ shm'[d] = Outputs(Memory(d)')
    <3>1. shm' = [y \in {c} \cup DOMAIN shm |-> IF y = c THEN o ELSE shm[y]]
      BY <1>1, <1>9, <2>1 DEF Put
    <3>2. CASE d = c
      <4> HIDE DEF o
      <4>1. d \in DOMAIN shm' /\ shm'[d] = o
        BY <3>1, <3>2
      <4>2. Outputs(Memory(d)') = o
        BY <1>6, <3>2 DEF o
      <4> QED BY <4>1, <4>2
    <3>3. CASE d # c
      <4>1. d \in DOMAIN shm /\ shm[d] = Outputs(Memory(d))
        BY <1>1, <1>2, <1>3, <2>1, <3>3 DEF LinkInv
      <4> HIDE DEF o
      <4> QED BY <1>6, <3>1, <3>3, <4>1
    <3> QED BY <3>2, <3>3
  <2>2. ASSUME NEW d \in DOMAIN inbox'
        PROVE  /\ d \in Contexts /\ proc'[d] = "ended" /\ conf'.method = "socket"
               /\ inbox'[d] \in Seq({Outputs(Memory(d)')})
    <3>1. ASSUME d \in DOMAIN inbox
          PROVE  d \in Contexts /\ proc[d] = "ended" /\ conf.method = "socket"
                 /\ inbox[d] \in Seq({Outputs(Memory(d))})
      BY <1>2, <3>1 DEF LinkInv
    <3>2. c \notin DOMAIN inbox
      BY <1>1, <1>2 DEF LinkInv
    <3>3. CASE inbox' = inbox
      BY <1>1, <1>3, <1>6, <3>1, <3>3
    <3>4. CASE inbox' # inbox
      <4> HIDE DEF o
      <4>1. conf.method = "socket"
        BY <1>8, <1>9, <3>4
      <4>2. inbox' = [y \in {c} \cup DOMAIN inbox |-> IF y = c THEN Append(<< >>, o) ELSE inbox[y]]
        BY <1>9, <3>2, <3>4, <4>1 DEF Put
      <4>3. CASE d = c
        <5>1. inbox'[d] = Append(<< >>, o)
          BY <4>2, <4>3
        <5>2. Append(<< >>, o) \in Seq({o})
          OBVIOUS
        <5>3. Outputs(Memory(d)') = o
          BY <1>6, <4>3 DEF o
        <5> QED BY <1>1, <1>3, <4>1, <4>3, <5>1, <5>2, <5>3
      <4>4. CASE d # c
        <5>1. d \in DOMAIN inbox /\ inbox'[d] = inbox[d]
          BY <4>2, <4>4
        <5> QED BY <1>1, <1>3, <1>6, <3>1, <4>4, <5>1
      <4> QED BY <4>3, <4>4
    <3> QED BY <3>3, <3>4
  <2> QED BY <2>1, <2>2 DEF LinkInv
<1>16. GatherInv'
  BY <1>1, <1>2, <1>6 DEF GatherInv
<1> QED BY <1>10, <1>11, <1>12, <1>13, <1>14, <1>15, <1>16 DEF RunInv

\* A run of CoreMark keeps every part of the invariant, from main's set-up to
\* its report.
THEOREM RunInvariant == Spec => []RunInv
<1>1. Init => RunInv
  BY InitInv
<1>2. RunInv /\ [Next]_vars => RunInv'
  <2> SUFFICES ASSUME RunInv, [Next]_vars PROVE RunInv'
    OBVIOUS
  <2>1. CASE Main
    BY <2>1, CalibrateKeeps, MeasuredKeeps, StartKeeps, MovesOnKeeps, StopKeeps DEF Main
  <2>2. CASE \E c \in Contexts : Worker(c)
    BY <2>2, TurnKeeps, ExitKeeps DEF Worker
  <2>3. CASE UNCHANGED vars
    <3>1. /\ conf' = conf /\ at' = at /\ i' = i /\ results' = results /\ child' = child
          /\ proc' = proc /\ turn' = turn /\ shm' = shm /\ inbox' = inbox /\ elapsed' = elapsed
      BY <2>3 DEF vars, workers, links
    <3>2. ShapeInv' /\ LengthInv' /\ (\A c \in Contexts : Memory(c)' = Memory(c))
      BY <3>1 DEF RunInv, ShapeInv, LengthInv, Calibrating, Iterations, get_time, Memory, Own, Forks
    <3>3. \A c \in Contexts : Started(c)' = Started(c) /\ Gathered(c)' = Gathered(c)
      BY <3>1 DEF Started, Gathered
    <3>4. MemoryInv'
      BY <3>1 DEF RunInv, MemoryInv
    <3>5. ProcInv'
      BY <3>1, <3>3 DEF RunInv, ProcInv, Calibrating, Forks
    <3>6. WorkInv'
      BY <3>1, <3>2, <3>3 DEF RunInv, WorkInv, Iterations
    <3>7. LinkInv'
      BY <3>1, <3>2 DEF RunInv, LinkInv
    <3>8. GatherInv'
      BY <3>1, <3>2, <3>3 DEF RunInv, GatherInv
    <3> QED BY <3>2, <3>4, <3>5, <3>6, <3>7, <3>8 DEF RunInv
  <2> QED BY <2>1, <2>2, <2>3 DEF Next
<1> QED BY <1>1, <1>2, PTL DEF Spec

\* The number of iterations main finds by itself takes a run of at least one
\* context the ten seconds that a valid one needs, whatever the speed, and
\* whether the contexts share a processor or not.
THEOREM LongEnoughCorrect == Spec => []LongEnough
<1>1. RunInv => LongEnough
  <2> SUFFICES ASSUME RunInv, at = "done", conf.iterations = 0, conf.contexts # 0
               PROVE  elapsed >= Ten * conf.speed
    BY DEF LongEnough
  <2> DEFINE k == conf.contexts
             n == Iterations
             m == Ten * conf.speed
  <2>1. ConfigType(conf) /\ MULTITHREAD \in Nat \ {0} /\ Ten \in Nat \ {0}
    BY ConfFacts
  <2>2. k \in Nat /\ k >= 1
    BY <2>1 DEF ConfigType
  <2>3. n \in Int /\ n >= m /\ (elapsed = n \/ elapsed = k * n)
    BY DEF RunInv, LengthInv, Calibrating, get_time, Iterations
  <2>4. m \in Nat
    BY <2>1 DEF ConfigType
  <2> HIDE DEF k, n, m
  <2>5. n \in Nat
    BY <2>3, <2>4
  <2>6. k * n >= n
    <3>1. k - 1 \in Nat
      BY <2>2
    <3>2. (k - 1) * n \in Nat /\ k * n = (k - 1) * n + n
      BY <2>2, <2>5, <3>1
    <3> QED BY <2>5, <3>2
  <2>7. elapsed >= m
    <3>1. k * n \in Nat
      BY <2>2, <2>5
    <3> QED BY <2>3, <2>4, <2>5, <2>6, <3>1
  <2> QED BY <2>7 DEF m
<1> QED BY <1>1, RunInvariant, PTL

\* All contexts of a run whose corruption can be undone report the same
\* results, in whatever order they ran and ended, and whether their results
\* came back in main's memory, in shared memory or by a socket, although
\* main has run the first context before.
THEOREM SameResultsCorrect == Spec => []SameResults
<1>1. RunInv => SameResults
  <2> SUFFICES ASSUME RunInv, at = "done", Undoable, NEW c \in 0 .. conf.contexts - 1
               PROVE  Outputs(results[c]) = Outputs(results[0])
    BY DEF SameResults
  <2> DEFINE n == Iterations
  <2>1. ConfigType(conf) /\ MULTITHREAD \in Nat \ {0} /\ 0 \in Contexts
    BY ConfFacts
  <2>2. c \in Contexts /\ 0 < conf.contexts /\ c < conf.contexts
    BY <2>1 DEF ConfigType, Contexts
  <2>3. Gathered(c) /\ Gathered(0) /\ Started(c) /\ Started(0)
    BY <2>2 DEF Gathered, Started
  <2>4. proc[c] = "ended" /\ proc[0] = "ended"
    BY <2>1, <2>2, <2>3 DEF RunInv, ProcInv
  <2>5. Undoes(conf)
    BY DEF Undoable, Undoes
  <2>6. ASSUME NEW d \in Contexts, Started(d), proc[d] = "ended"
        PROVE  /\ turn[d] \in Nat /\ (turn[d] = 0 \/ turn[d] <= n) /\ turn[d] >= n
               /\ Worked(conf, n, turn[d], Memory(d))
    BY <2>5, <2>6 DEF RunInv, WorkInv, ShapeInv
  <2>7. n \in Int
    BY DEF RunInv, LengthInv
  <2> HIDE DEF n
  <2>8. turn[c] = turn[0]
    BY <2>1, <2>2, <2>3, <2>4, <2>6, <2>7
  <2>9. Memory(c) = Memory(0)
    BY <2>1, <2>2, <2>3, <2>4, <2>6, <2>8, WorkedUnique
  <2>10. /\ Outputs(results[c]) = Outputs(Memory(c))
         /\ Outputs(results[0]) = Outputs(Memory(0))
    BY <2>1, <2>2, <2>3 DEF RunInv, GatherInv
  <2> QED BY <2>9, <2>10
<1> QED BY <1>1, RunInvariant, PTL

----------------------------------------------------------------------------
\* The matrices in their block.

\* Element addresses are aligned to four bytes.
LEMMA AlignFacts ==
    ASSUME NEW a \in Nat, a >= 1, NEW m \in Nat
    PROVE  /\ align_mem(a) \in Nat /\ a <= align_mem(a) /\ align_mem(a) < a + 4
           /\ align_mem(align_mem(a) + 4 * m) = align_mem(a) + 4 * m
<1> DEFINE q == (a - 1) \div 4
<1>1. q \in Nat /\ 4 * q <= a - 1 /\ a - 1 < 4 * q + 4
  OBVIOUS
<1>2. align_mem(a) = 4 + 4 * q
  BY <1>1 DEF align_mem
<1> HIDE DEF q
<1>3. align_mem(4 + 4 * q + 4 * m) = 4 + 4 * q + 4 * m
  BY <1>1 DEF align_mem
<1> QED BY <1>1, <1>2, <1>3

\* The matrices end where the next block begins or before, unless the block
\* is one byte larger than they are: only then is it too small to align them.
LEMMA MatrixFits ==
    ASSUME NEW b \in Nat, b >= 1
    PROVE  MatrixEnd(b, b) <= 2 * b <=> b # 8 * (Dimension(b) * Dimension(b)) + 1
<1> DEFINE N == Dimension(b)
           m == N * N
<1>1. N \in Nat /\ m \in Nat /\ 8 * m < b
  <2>1. N \in Nat /\ 8 * (N * N) < b
    BY DimensionFacts
  <2> HIDE DEF N
  <2> QED BY <2>1
<1>2. MatrixEnd(b, b) = align_mem(align_mem(b) + 4 * m) + 4 * m
  <2>1. MatrixEnd(b, b) = align_mem(align_mem(b) + 2 * N * N * 2) + 4 * N * N
    BY DEF MatrixEnd
  <2> HIDE DEF N
  <2>2. 2 * N * N * 2 = 4 * (N * N) /\ 4 * N * N = 4 * (N * N)
    BY <1>1
  <2> QED BY <2>1, <2>2
<1> HIDE DEF N, m
<1>3. /\ align_mem(b) \in Nat /\ b <= align_mem(b) /\ align_mem(b) < b + 4
      /\ align_mem(align_mem(b) + 4 * m) = align_mem(b) + 4 * m
  BY <1>1, AlignFacts
<1>4. align_mem(b) = 4 + ((b - 1) \div 4) * 4
  BY DEF align_mem
<1>5. MatrixEnd(b, b) = align_mem(b) + 8 * m
  BY <1>1, <1>2, <1>3
<1>6. align_mem(b) + 8 * m <= 2 * b <=> b # 8 * m + 1
  <2>1. CASE b = 8 * m + 1
    <3>1. (b - 1) \div 4 = 2 * m
      BY <1>1, <2>1
    <3> QED BY <1>1, <1>4, <2>1, <3>1
  <2>2. CASE b = 8 * m + 2
    <3>1. (b - 1) \div 4 = 2 * m
      BY <1>1, <2>2
    <3> QED BY <1>1, <1>4, <2>2, <3>1
  <2>3. CASE b >= 8 * m + 3
    BY <1>1, <1>3, <2>3
  <2> QED BY <1>1, <2>1, <2>2, <2>3
<1> QED BY <1>5, <1>6 DEF m, N

----------------------------------------------------------------------------
\* The block of the state machine keeps a zero.

\* Some zero stands where no corruption that goes on in steps of 34 or of a
\* multiple of 17 bytes comes to.
Safe(block) == \E p \in DOMAIN block : p \in Nat \ {0} /\ block[p] = 0 /\ (p - 1) % 17 # 0

\* Every step of the corruption is a multiple of 17, and goes forward.
LEMMA StepFacts ==
    ASSUME NEW seed \in Int, NEW n \in Nat
    PROVE  \E k \in Nat \ {0} : Step(seed, n) = 17 * k
<1> DEFINE d == Datpat(seed, n)
<1>1. d \in Nat
  <2>1. U16(seed) \in Nat
    BY DEF U16
  <2>2. xor(U16(seed), n) \in Nat
    BY <2>1, XorType
  <2> HIDE DEF d
  <2> QED BY <2>2 DEF d, Datpat
<1>2. Dtype(seed, n) = 17 * d
  BY <1>1 DEF Dtype
<1> HIDE DEF d
<1>3. Step(seed, n) = 17 * 2 \/ (Step(seed, n) = 17 * d /\ d # 0)
  BY <1>1, <1>2 DEF Step
<1> QED BY <1>1, <1>3

\* A place that is not a multiple of 17 is not one of a multiple of that.
LEMMA NoMultiple ==
    ASSUME NEW x \in Nat, x % 17 # 0, NEW k \in Nat \ {0}
    PROVE  x % (17 * k) # 0
<1> SUFFICES ASSUME x % (17 * k) = 0 PROVE FALSE
  OBVIOUS
<1> DEFINE s == 17 * k
           q == x \div s
<1>1. s \in Nat /\ s > 0
  OBVIOUS
<1>2. q \in Int /\ x = s * q
  <2> HIDE DEF s
  <2> QED BY <1>1 DEF s
<1> HIDE DEF q
<1>3. x = 17 * (k * q) /\ k * q \in Int
  BY <1>2
<1> DEFINE r == k * q
<1> HIDE DEF r, s
<1>4. x = 17 * r /\ r \in Int
  BY <1>3 DEF r
<1> QED BY <1>4

\* So a zero in such a place stays, corrupted and put right, whatever the
\* seeds.
LEMMA CorruptedSafe ==
    ASSUME NEW f, Safe(f), NEW s, NEW seed \in Int, NEW n \in Nat
    PROVE  Safe(Corrupted(f, s, Step(seed, n)))
<1>1. PICK p \in DOMAIN f : p \in Nat \ {0} /\ f[p] = 0 /\ (p - 1) % 17 # 0
  BY DEF Safe
<1>2. PICK k \in Nat \ {0} : Step(seed, n) = 17 * k
  BY StepFacts
<1> DEFINE x == p - 1
<1>3. x \in Nat /\ x % 17 # 0
  BY <1>1
<1> HIDE DEF x
<1>4. x % Step(seed, n) # 0
  BY <1>2, <1>3, NoMultiple
<1> DEFINE t == Step(seed, n)
           g == Corrupted(f, s, t)
<1>5. DOMAIN g = DOMAIN f /\ g[p] = f[p]
  <2> HIDE DEF t
  <2>1. (p - 1) % t # 0
    BY <1>4 DEF x, t
  <2> QED BY <1>1, <2>1 DEF Corrupted
<1> HIDE DEF g
<1> QED BY <1>1, <1>5 DEF Safe, g, t

\* A block of two bytes or more has such a zero from the start: its last two
\* are zeros.
LEMMA StateSafe ==
    ASSUME NEW seed \in Int, NEW size \in Nat, size >= 2
    PROVE  Safe(core_init_state(size, seed))
<1> DEFINE t == Tokens(seed, size - 1)
           z == [k \in 1 .. size - Len(t) |-> 0]
           f == core_init_state(size, seed)
<1>1. f = t \o z
  BY DEF core_init_state
<1>2. t \in Seq(ByteSet) /\ (Len(t) = 0 \/ Len(t) < size - 1)
  BY TokensFacts
<1> DEFINE l == Len(t)
<1>3. l \in Nat /\ l + 2 <= size
  BY <1>2
<1> HIDE DEF t, f
<1>4. DOMAIN z = 1 .. size - l /\ size - l \in Nat /\ \A k \in 1 .. size - l : z[k] = 0
  BY <1>3
<1>5. z \in Seq(ByteSet) /\ Len(z) = size - l
  BY <1>3, <1>4 DEF ByteSet
<1> HIDE DEF z
<1>6. /\ DOMAIN f = 1 .. size
      /\ \A p \in 1 .. size : p > l => f[p] = z[p - l]
  <2>1. Len(t \o z) = l + Len(z) /\ t \o z \in Seq(ByteSet)
    BY <1>2, <1>5, ConcatProperties
  <2>2. \A p \in 1 .. l + Len(z) : p > l => (t \o z)[p] = z[p - l]
    BY <1>2, <1>5, ConcatProperties
  <2> HIDE DEF l
  <2> QED BY <1>1, <1>3, <1>5, <2>1, <2>2
<1> HIDE DEF l
<1>7. f[size] = 0 /\ f[size - 1] = 0
  BY <1>3, <1>4, <1>6
<1>8. CASE (size - 1) % 17 # 0
  BY <1>6, <1>7, <1>8 DEF Safe, f
<1>9. CASE (size - 1) % 17 = 0
  <2> DEFINE p == size - 1
  <2>1. p \in Nat \ {0} /\ p \in DOMAIN f /\ (p - 1) % 17 # 0 /\ f[p] = 0
    BY <1>6, <1>7, <1>9
  <2> QED BY <2>1 DEF Safe, f
<1> QED BY <1>8, <1>9

\* What every step of a run with the arguments c keeps of a block: a safe zero,
\* and with equal seeds the bytes that the block had at first.
Sound(f, c) ==
    /\ BlockSize(c.size) >= 2 => Safe(f)
    /\ c.seed1 = c.seed2 => Returned(f, Prepared[c].state, c.seed1)

\* The state benchmark of every item does.
LEMMA StateSound ==
    ASSUME NEW c \in Configurations, NEW f, Sound(f, c), NEW n \in Nat, NEW crc
    PROVE  Sound(core_bench_state(f, c.seed1, c.seed2, Step(c.seed1, n), crc).block, c)
<1> DEFINE t == Step(c.seed1, n)
           b == Corrupted(f, c.seed1, t)
           g == core_bench_state(f, c.seed1, c.seed2, t, crc).block
<1>1. c.seed1 \in Int
  BY ConfigurationType DEF ConfigType
<1>2. ASSUME BlockSize(c.size) >= 2 PROVE Safe(g)
  <2>1. g = Corrupted(b, c.seed2, t)
    BY DEF core_bench_state, BothScans
  <2>2. Safe(f)
    BY <1>2 DEF Sound
  <2>3. Safe(b)
    BY <1>1, <2>2, CorruptedSafe
  <2> HIDE DEF b, g
  <2>4. Safe(Corrupted(b, c.seed2, t))
    BY <1>1, <2>3, CorruptedSafe
  <2> QED BY <2>1, <2>4
<1>3. ASSUME c.seed1 = c.seed2 PROVE Returned(g, Prepared[c].state, c.seed1)
  <2> DEFINE p == Prepared[c].state
  <2>1. Bytes(p)
    BY PreparedFacts
  <2>2. Returned(f, p, c.seed1)
    BY <1>3 DEF Sound
  <2>3. g = core_bench_state(f, c.seed1, c.seed1, t, crc).block
    BY <1>3
  <2> HIDE DEF p, g, t
  <2> QED BY <1>1, <2>1, <2>2, <2>3, StateReturns DEF p
<1> HIDE DEF g
<1> QED BY <1>2, <1>3 DEF Sound, g, t

\* The block that main prepares is sound.
LEMMA PreparedSound ==
    ASSUME NEW c \in Configurations
    PROVE  Sound(Prepared[c].state, c)
<1> DEFINE b == BlockSize(c.size)
           p == Prepared[c].state
<1>1. b \in Nat /\ c.seed1 \in Int
  BY ConfigurationType DEF ConfigType
<1>2. p = core_init_state(b, c.seed1)
  BY DEF Prepared
<1> HIDE DEF b, p
<1>3. b >= 2 => Safe(p)
  BY <1>1, <1>2, StateSafe
<1>4. Returned(p, p, c.seed1)
  BY DEF Returned
<1> QED BY <1>3, <1>4 DEF Sound, b, p

----------------------------------------------------------------------------
\* What an iteration does to a result, whatever it finds in the memory.

\* What one item computes, field by field.
LEMMA CalculatedChanges ==
    ASSUME NEW c, NEW r, Shaped(r), NEW n
    PROVE  LET s == core_bench_state(r.state, c.seed1, c.seed2, Step(c.seed1, n), r.crc)
               m == core_bench_matrix(r, Dtype(c.seed1, n), r.crc)
               x == crcu16(Dat(c.seed1, n) * 257, r.crc)
           IN \/ /\ n % 8 = 0
                 /\ Calculated(c, r, n) =
                      Whole(r.iterations, r.N, r.A, r.B, s.block, crcu16(s.crc, r.crc), r.crclist,
                            r.crcmatrix, First(r.crcstate, s.crc))
              \/ /\ n % 8 = 1
                 /\ Calculated(c, r, n) =
                      Whole(r.iterations, r.N, m.A, r.B, r.state, crcu16(m.crc, r.crc), r.crclist,
                            First(r.crcmatrix, m.crc), r.crcstate)
              \/ /\ n % 8 # 0 /\ n % 8 # 1
                 /\ Calculated(c, r, n) =
                      Whole(r.iterations, r.N, r.A, r.B, r.state, x, r.crclist, r.crcmatrix, r.crcstate)
<1> DEFINE s == core_bench_state(r.state, c.seed1, c.seed2, Step(c.seed1, n), r.crc)
           m == core_bench_matrix(r, Dtype(c.seed1, n), r.crc)
           x == crcu16(Dat(c.seed1, n) * 257, r.crc)
<1>1. /\ n % 8 = 0 => Calculated(c, r, n) = StateDone(r, s)
      /\ n % 8 = 1 => Calculated(c, r, n) = MatrixDone(r, m)
      /\ n % 8 # 0 /\ n % 8 # 1 => Calculated(c, r, n) = [r EXCEPT !.crc = x]
  BY DEF Calculated
<1> HIDE DEF s, m, x
<1>2. /\ StateDone(r, s) =
            Whole(r.iterations, r.N, r.A, r.B, s.block, crcu16(s.crc, r.crc), r.crclist,
                  r.crcmatrix, First(r.crcstate, s.crc))
      /\ MatrixDone(r, m) =
            Whole(r.iterations, r.N, m.A, r.B, r.state, crcu16(m.crc, r.crc), r.crclist,
                  First(r.crcmatrix, m.crc), r.crcstate)
  BY BenchmarkChanges DEF Shaped
<1>3. [r EXCEPT !.crc = x] =
        Whole(r.iterations, r.N, r.A, r.B, r.state, x, r.crclist, r.crcmatrix, r.crcstate)
  BY DEF Shaped, Whole
<1> QED BY <1>1, <1>2, <1>3 DEF s, m, x

\* g is a later result than r of a run with the arguments c: a CRC that has
\* been found stays, and a sound block stays sound.
Follows(g, r, c) ==
    /\ Shaped(g) /\ g.crclist = r.crclist
    /\ r.crcmatrix # 0 => g.crcmatrix = r.crcmatrix
    /\ r.crcstate # 0 => g.crcstate = r.crcstate
    /\ Sound(r.state, c) => Sound(g.state, c)

\* What one item computes follows what it started with.
LEMMA CalculatedFollows ==
    ASSUME NEW c \in Configurations, NEW r, Shaped(r), NEW n \in Nat
    PROVE  Follows(Calculated(c, r, n), r, c)
<1> DEFINE s == core_bench_state(r.state, c.seed1, c.seed2, Step(c.seed1, n), r.crc)
           m == core_bench_matrix(r, Dtype(c.seed1, n), r.crc)
           x == crcu16(Dat(c.seed1, n) * 257, r.crc)
           g == Calculated(c, r, n)
<1>1. \/ g = Whole(r.iterations, r.N, r.A, r.B, s.block, crcu16(s.crc, r.crc), r.crclist,
                   r.crcmatrix, First(r.crcstate, s.crc))
      \/ g = Whole(r.iterations, r.N, m.A, r.B, r.state, crcu16(m.crc, r.crc), r.crclist,
                   First(r.crcmatrix, m.crc), r.crcstate)
      \/ g = Whole(r.iterations, r.N, r.A, r.B, r.state, x, r.crclist, r.crcmatrix, r.crcstate)
  BY CalculatedChanges
<1>2. Sound(r.state, c) => Sound(s.block, c)
  BY StateSound
<1>3. \A y, z : y # 0 => First(y, z) = y
  BY DEF First
<1> HIDE DEF s, m, x, g
<1> QED BY <1>1, <1>2, <1>3, WholeFacts DEF Follows, g

\* r and s are the same but for the number of iterations asked for.
Same(r, s) ==
    /\ Shaped(r) /\ Shaped(s)
    /\ r.N = s.N /\ r.A = s.A /\ r.B = s.B /\ r.state = s.state
    /\ Outputs(r) = Outputs(s)

\* No item looks at the number of iterations asked for.
LEMMA CalculatedSame ==
    ASSUME NEW c, NEW r, NEW s, Same(r, s), NEW n
    PROVE  Same(Calculated(c, r, n), Calculated(c, s, n))
<1>1. /\ Shaped(r) /\ Shaped(s)
      /\ r.N = s.N /\ r.A = s.A /\ r.B = s.B /\ r.state = s.state
      /\ r.crc = s.crc /\ r.crclist = s.crclist /\ r.crcmatrix = s.crcmatrix /\ r.crcstate = s.crcstate
  BY DEF Same, Outputs
<1> DEFINE b == core_bench_state(r.state, c.seed1, c.seed2, Step(c.seed1, n), r.crc)
           m == core_bench_matrix(r, Dtype(c.seed1, n), r.crc)
           x == crcu16(Dat(c.seed1, n) * 257, r.crc)
<1>2. /\ b = core_bench_state(s.state, c.seed1, c.seed2, Step(c.seed1, n), s.crc)
      /\ x = crcu16(Dat(c.seed1, n) * 257, s.crc)
  BY <1>1
<1>3. m = core_bench_matrix(s, Dtype(c.seed1, n), s.crc)
  BY <1>1 DEF core_bench_matrix
<1> DEFINE G(e) ==
      \/ /\ n % 8 = 0
         /\ Calculated(c, e, n) =
              Whole(e.iterations, e.N, e.A, e.B, b.block, crcu16(b.crc, e.crc), e.crclist,
                    e.crcmatrix, First(e.crcstate, b.crc))
      \/ /\ n % 8 = 1
         /\ Calculated(c, e, n) =
              Whole(e.iterations, e.N, m.A, e.B, e.state, crcu16(m.crc, e.crc), e.crclist,
                    First(e.crcmatrix, m.crc), e.crcstate)
      \/ /\ n % 8 # 0 /\ n % 8 # 1
         /\ Calculated(c, e, n) =
              Whole(e.iterations, e.N, e.A, e.B, e.state, x, e.crclist, e.crcmatrix, e.crcstate)
<1>4. G(r)
  BY <1>1, CalculatedChanges
<1>5. G(s)
  BY <1>1, <1>2, <1>3, CalculatedChanges
<1> HIDE DEF b, m, x
<1> QED BY <1>1, <1>4, <1>5, WholeFacts DEF Same, Outputs

\* An iteration is a walk through its items and the end of the list benchmark.
LEMMA IteratedIs ==
    ASSUME NEW c \in Configurations, NEW r, NEW k
    PROVE  /\ Items(c.size) \in Nat
           /\ \E f : /\ DoneWalk(f, Items(c.size), c, r)
                     /\ Iterated(c, r, k) =
                          ListDone(f[Items(c.size)],
                                   crcu16(ListCrc[-1], crcu16(ListCrc[1], f[Items(c.size)].crc)), k)
<1> DEFINE K == Items(c.size)
           done == CHOOSE f : DoneWalk(f, K, c, r)
<1>1. Iterated(c, r, k) = ListDone(done[K], crcu16(ListCrc[-1], crcu16(ListCrc[1], done[K].crc)), k)
  BY DEF Iterated, DoneWalk
<1>2. K \in Nat
  <2>1. LastItem(c.size) \in Int
    BY ConfigurationType DEF ConfigType, LastItem
  <2> QED BY <2>1 DEF Items
<1> HIDE DEF K
<1>3. DoneWalk(done, K, c, r)
  BY <1>2, DoneWalkExists
<1> HIDE DEF done
<1>4. \E f : DoneWalk(f, K, c, r)
             /\ Iterated(c, r, k) = ListDone(f[K], crcu16(ListCrc[-1], crcu16(ListCrc[1], f[K].crc)), k)
  BY <1>1, <1>3
<1> QED BY <1>2, <1>4 DEF K

\* The results on the walk follow the one it starts with.
LEMMA DoneWalkFollows ==
    ASSUME NEW c \in Configurations, NEW r, Shaped(r), NEW K \in Nat, NEW f, DoneWalk(f, K, c, r)
    PROVE  Follows(f[K], r, c)
<1>1. \A n \in 0 .. K : f[n] = IF n = 0 THEN r ELSE Calculated(c, f[n - 1], n - 1)
  BY DEF DoneWalk
<1> DEFINE T == {k \in Nat : k <= K /\ ~Follows(f[k], r, c)}
<1> SUFFICES ASSUME T # {} PROVE FALSE
  OBVIOUS
<1>2. PICK k \in T : \A j \in T : k <= j
  BY NatMin
<1>3. Follows(f[0], r, c)
  <2>1. f[0] = r
    BY <1>1
  <2> QED BY <2>1 DEF Follows
<1>4. k \in Nat /\ k # 0 /\ k - 1 \in Nat /\ k - 1 \notin T /\ k \in 0 .. K
  BY <1>2, <1>3
<1> DEFINE g == f[k - 1]
<1>5. Follows(g, r, c) /\ Shaped(g)
  BY <1>2, <1>4 DEF Follows
<1>6. f[k] = Calculated(c, g, k - 1)
  BY <1>1, <1>4
<1> HIDE DEF g
<1>7. Follows(Calculated(c, g, k - 1), g, c)
  BY <1>4, <1>5, CalculatedFollows
<1>8. Follows(f[k], r, c)
  BY <1>5, <1>6, <1>7 DEF Follows
<1> QED BY <1>2, <1>8

\* Walks from results that are the same but for the number of iterations
\* asked for come to results that are.
LEMMA DoneWalkSame ==
    ASSUME NEW c, NEW r, NEW s, Same(r, s), NEW K \in Nat,
           NEW f, DoneWalk(f, K, c, r), NEW g, DoneWalk(g, K, c, s)
    PROVE  Same(f[K], g[K])
<1>1. \A n \in 0 .. K : f[n] = IF n = 0 THEN r ELSE Calculated(c, f[n - 1], n - 1)
  BY DEF DoneWalk
<1>2. \A n \in 0 .. K : g[n] = IF n = 0 THEN s ELSE Calculated(c, g[n - 1], n - 1)
  BY DEF DoneWalk
<1> DEFINE T == {k \in Nat : k <= K /\ ~Same(f[k], g[k])}
<1> SUFFICES ASSUME T # {} PROVE FALSE
  OBVIOUS
<1>3. PICK k \in T : \A j \in T : k <= j
  BY NatMin
<1>4. Same(f[0], g[0])
  <2>1. f[0] = r /\ g[0] = s
    BY <1>1, <1>2
  <2> QED BY <2>1
<1>5. k \in Nat /\ k # 0 /\ k - 1 \in Nat /\ k - 1 \notin T /\ k \in 0 .. K
  BY <1>3, <1>4
<1> DEFINE x == f[k - 1]
           y == g[k - 1]
<1>6. Same(x, y)
  BY <1>3, <1>5
<1>7. f[k] = Calculated(c, x, k - 1) /\ g[k] = Calculated(c, y, k - 1)
  BY <1>1, <1>2, <1>5
<1> HIDE DEF x, y
<1>8. Same(f[k], g[k])
  BY <1>6, <1>7, CalculatedSame
<1> QED BY <1>3, <1>8

\* After an iteration a CRC that had been found is still the same, that of
\* the list after every one but the first, and a sound block is sound.
LEMMA IteratedFollows ==
    ASSUME NEW c \in Configurations, NEW r, Shaped(r), NEW k
    PROVE  LET g == Iterated(c, r, k) IN
           /\ Shaped(g)
           /\ k # 0 => g.crclist = r.crclist
           /\ r.crcmatrix # 0 => g.crcmatrix = r.crcmatrix
           /\ r.crcstate # 0 => g.crcstate = r.crcstate
           /\ Sound(r.state, c) => Sound(g.state, c)
<1> DEFINE K == Items(c.size)
<1>1. PICK f : /\ K \in Nat /\ DoneWalk(f, K, c, r)
               /\ Iterated(c, r, k) = ListDone(f[K], crcu16(ListCrc[-1], crcu16(ListCrc[1], f[K].crc)), k)
  BY IteratedIs
<1> DEFINE d == f[K]
           x == crcu16(ListCrc[-1], crcu16(ListCrc[1], f[K].crc))
<1>3. Follows(d, r, c)
  <2> HIDE DEF K
  <2> QED BY <1>1, DoneWalkFollows
<1>4. Iterated(c, r, k) = ListDone(d, x, k)
  BY <1>1
<1> HIDE DEF d, x, K
<1>5. ListDone(d, x, k) =
        Whole(d.iterations, d.N, d.A, d.B, d.state, x, IF k = 0 THEN x ELSE d.crclist, d.crcmatrix, d.crcstate)
  BY <1>3, ListChange DEF Shaped, Follows
<1> QED BY <1>3, <1>4, <1>5, WholeFacts DEF Follows

\* An iteration does not look at the number of iterations asked for.
LEMMA IteratedSame ==
    ASSUME NEW c \in Configurations, NEW r, NEW s, Same(r, s), NEW k
    PROVE  Same(Iterated(c, r, k), Iterated(c, s, k))
<1> DEFINE K == Items(c.size)
           L(e) == ListDone(e, crcu16(ListCrc[-1], crcu16(ListCrc[1], e.crc)), k)
<1>1. PICK f : K \in Nat /\ DoneWalk(f, K, c, r) /\ Iterated(c, r, k) = L(f[K])
  BY IteratedIs
<1>2. PICK g : DoneWalk(g, K, c, s) /\ Iterated(c, s, k) = L(g[K])
  BY IteratedIs
<1> DEFINE d == f[K]
           e == g[K]
<1>3. Same(d, e)
  <2> HIDE DEF K, L
  <2> QED BY <1>1, <1>2, DoneWalkSame
<1>4. Iterated(c, r, k) = L(d) /\ Iterated(c, s, k) = L(e)
  BY <1>1, <1>2
<1> HIDE DEF d, e, K
<1>5. /\ Shaped(d) /\ Shaped(e)
      /\ d.N = e.N /\ d.A = e.A /\ d.B = e.B /\ d.state = e.state
      /\ d.crc = e.crc /\ d.crclist = e.crclist /\ d.crcmatrix = e.crcmatrix /\ d.crcstate = e.crcstate
  BY <1>3 DEF Same, Outputs
<1> DEFINE x == crcu16(ListCrc[-1], crcu16(ListCrc[1], d.crc))
<1>6. L(d) = ListDone(d, x, k) /\ L(e) = ListDone(e, x, k)
  BY <1>5
<1> HIDE DEF x, L
<1>7. /\ ListDone(d, x, k) =
          Whole(d.iterations, d.N, d.A, d.B, d.state, x, IF k = 0 THEN x ELSE d.crclist, d.crcmatrix, d.crcstate)
      /\ ListDone(e, x, k) =
          Whole(e.iterations, e.N, e.A, e.B, e.state, x, IF k = 0 THEN x ELSE e.crclist, e.crcmatrix, e.crcstate)
  BY <1>5, ListChange DEF Shaped
<1> QED BY <1>4, <1>5, <1>6, <1>7, WholeFacts DEF Same, Outputs

----------------------------------------------------------------------------
\* No benchmark leaves its part of the memory.

\* The blocks of the state machine stay sound.
SoundInv ==
    \A c \in Contexts :
        /\ Sound(results[c].state, conf)
        /\ c \in DOMAIN child => Sound(child[c].state, conf)

\* Iterations to do and outputs leave the block of the state machine alone.
LEMMA StateStays ==
    ASSUME NEW r, Shaped(r), NEW x
    PROVE  /\ [r EXCEPT !.iterations = x].state = r.state
           /\ WithOutputs(r, x).state = r.state
           /\ Entered([r EXCEPT !.iterations = x]).state = r.state
<1>1. Kept(r, r, TRUE)
  BY DEF Kept
<1> DEFINE w == [r EXCEPT !.iterations = x]
<1>2. Kept(w, r, TRUE) /\ Kept(WithOutputs(r, x), r, TRUE)
  BY <1>1, ResultChanges
<1> HIDE DEF w
<1>3. Shaped(w)
  BY <1>2 DEF Kept
<1>4. Kept(WithOutputs(w, NoOutputs), r, TRUE)
  BY <1>2, <1>3, ResultChanges
<1> QED BY <1>2, <1>4 DEF Kept, Entered, w

\* They are when main has set up.
LEMMA InitSound ==
    ASSUME Init PROVE SoundInv
<1> SUFFICES ASSUME NEW c \in Contexts
             PROVE  Sound(results[c].state, conf) /\ c \notin DOMAIN child
  BY DEF SoundInv
<1> DEFINE p == Prepared[conf]
           x == IF c = 0 /\ p.iterations = 0 THEN 1 ELSE p.iterations
<1>1. conf \in Configurations /\ DOMAIN child = {} /\ results[c] = [p EXCEPT !.iterations = x]
  BY DEF Init
<1>2. Sound(p.state, conf)
  BY <1>1, PreparedSound
<1>3. Shaped(p)
  BY <1>1, PreparedFacts
<1> HIDE DEF p, x
<1>4. [p EXCEPT !.iterations = x].state = p.state
  BY <1>3, StateStays
<1> QED BY <1>1, <1>2, <1>4

\* No step makes one unsound.
LEMMA StepSound ==
    ASSUME RunInv, SoundInv, Next PROVE SoundInv'
<1>1. conf' = conf /\ conf \in Configurations /\ DOMAIN results = Contexts
  <2>1. conf' = conf
    BY DEF Next, Main, Worker, Calibrate, Measured, core_start_parallel, Bind, AllStarted,
           core_stop_parallel, Report, Turn, Exit
  <2> QED BY <2>1 DEF RunInv, ShapeInv
<1>2. SUFFICES ASSUME NEW c \in Contexts
               PROVE  /\ Sound(results'[c].state, conf)
                      /\ c \in DOMAIN child' => Sound(child'[c].state, conf)
  BY <1>1 DEF SoundInv
<1>3. /\ Sound(results[c].state, conf) /\ Shaped(results[c])
      /\ c \in DOMAIN child => Sound(child[c].state, conf) /\ Shaped(child[c])
  BY <1>2 DEF SoundInv, RunInv, MemoryInv, Kept
<1>4. 0 \in Contexts
  BY ConfFacts
<1>5. CASE Calibrate
  <2> DEFINE n == Longer(results[0].iterations)
  <2>1. results' = [results EXCEPT ![0] = Entered([results[0] EXCEPT !.iterations = n])] /\ child' = child
    BY <1>5 DEF Calibrate
  <2> HIDE DEF n
  <2>2. Entered([results[c] EXCEPT !.iterations = n]).state = results[c].state
    BY <1>3, StateStays
  <2>3. results'[c] \in {results[c], Entered([results[c] EXCEPT !.iterations = n])}
    BY <1>1, <2>1
  <2> QED BY <1>3, <2>1, <2>2, <2>3
<1>6. CASE Measured
  <2> DEFINE n == Lengthened(results[0].iterations, conf.speed)
  <2>1. (results' = results \/ results' = [results EXCEPT ![0].iterations = n]) /\ child' = child
    BY <1>6 DEF Measured
  <2> HIDE DEF n
  <2>2. [results[c] EXCEPT !.iterations = n].state = results[c].state
    BY <1>3, StateStays
  <2>3. results'[c] \in {results[c], [results[c] EXCEPT !.iterations = n]}
    BY <1>1, <2>1
  <2> QED BY <1>3, <2>1, <2>2, <2>3
<1>7. CASE core_start_parallel
  <2> DEFINE it == results[0].iterations
             res == Entered([results[i] EXCEPT !.iterations = it])
             rit == res.iterations
  <2>1. \/ child' = Put(child, i, res) /\ results' = [results EXCEPT ![i].iterations = rit]
        \/ results' = [results EXCEPT ![i] = res] /\ child' = child
    BY <1>7 DEF core_start_parallel
  <2> HIDE DEF it, rit
  <2>2. [results[c] EXCEPT !.iterations = rit].state = results[c].state
    BY <1>3, StateStays
  <2>3. Entered([results[c] EXCEPT !.iterations = it]).state = results[c].state
    BY <1>3, StateStays
  <2>4. c = i => res.state = results[c].state
    BY <2>3
  <2> HIDE DEF res
  <2>5. /\ results'[c] \in {results[c], [results[c] EXCEPT !.iterations = rit]}
           \/ (c = i /\ results'[c] = res)
        /\ c \in DOMAIN child' => (c \in DOMAIN child /\ child'[c] = child[c]) \/ (c = i /\ child'[c] = res)
    BY <1>1, <2>1 DEF Put
  <2> QED BY <1>3, <2>2, <2>4, <2>5
<1>8. CASE core_stop_parallel
  <2>1. (results' = results \/ \E x : results' = [results EXCEPT ![i] = WithOutputs(results[i], x)])
        /\ child' = child
    <3>1. conf.method \in {"pthread", "fork", "socket"}
      BY ConfFacts DEF ConfigType
    <3> QED BY <1>8, <3>1 DEF core_stop_parallel
  <2>2. ASSUME NEW x PROVE WithOutputs(results[c], x).state = results[c].state
    BY <1>3, StateStays
  <2>3. results'[c] = results[c] \/ \E x : results'[c] = WithOutputs(results[c], x)
    BY <1>1, <2>1
  <2> QED BY <1>3, <2>1, <2>2, <2>3
<1>9. ASSUME NEW d \in Contexts, Turn(d)
      PROVE  /\ Sound(results'[c].state, conf)
             /\ c \in DOMAIN child' => Sound(child'[c].state, conf)
  <2> DEFINE n == turn[d]
  <2>1. \/ child' = [child EXCEPT ![d] = Iterated(conf, child[d], n)] /\ results' = results
        \/ results' = [results EXCEPT ![d] = Iterated(conf, results[d], n)] /\ child' = child
    BY <1>9 DEF Turn
  <2> HIDE DEF n
  <2>2. Sound(Iterated(conf, results[c], n).state, conf)
    BY <1>1, <1>3, IteratedFollows
  <2>3. c \in DOMAIN child => Sound(Iterated(conf, child[c], n).state, conf)
    BY <1>1, <1>3, IteratedFollows
  <2>4. /\ results'[c] \in {results[c], Iterated(conf, results[c], n)}
        /\ DOMAIN child' = DOMAIN child
        /\ c \in DOMAIN child => child'[c] \in {child[c], Iterated(conf, child[c], n)}
    BY <1>1, <2>1
  <2> QED BY <1>3, <2>2, <2>3, <2>4
<1>10. CASE Bind \/ AllStarted \/ Report \/ \E d \in Contexts : Exit(d)
  <2>1. results' = results /\ child' = child
    BY <1>10 DEF Bind, AllStarted, Report, Exit, workers
  <2> QED BY <1>3, <2>1
<1> QED BY <1>5, <1>6, <1>7, <1>8, <1>9, <1>10 DEF Next, Main, Worker

\* A safe zero is a zero that the corruption of no item takes away, and where
\* there is none the list has no item.
LEMMA SafeEndsInside ==
    ASSUME RunInv, SoundInv, NEW c \in Contexts
    PROVE  EndsInside(Memory(c).state)
<1> DEFINE f == Memory(c).state
           s == conf.seed1
<1>1. ConfigType(conf)
  BY ConfFacts
<1>2. ASSUME NEW n \in 0 .. LastItem(conf.size)
      PROVE  0 \in ToSet(Corrupted(f, s, Step(s, n)))
  <2>1. BlockSize(conf.size) >= 2
    <3>1. BlockSize(conf.size) # 1
      BY <1>2 DEF LastItem
    <3> QED BY <1>1, <3>1 DEF ConfigType
  <2>2. Safe(f)
    BY <2>1 DEF SoundInv, Sound, Memory, Own
  <2>3. s \in Int /\ n \in Nat
    BY <1>1 DEF ConfigType
  <2> HIDE DEF f, s
  <2>4. Safe(Corrupted(f, s, Step(s, n)))
    BY <2>2, <2>3, CorruptedSafe
  <2> QED BY <2>4 DEF Safe, ToSet
<1> QED BY <1>2 DEF EndsInside

\* All blocks are sound in every state.
LEMMA BlocksSound == Spec => []SoundInv
<1>1. Init => SoundInv
  BY InitSound
<1>2. RunInv /\ SoundInv /\ [Next]_vars => SoundInv'
  <2> SUFFICES ASSUME RunInv, SoundInv, [Next]_vars PROVE SoundInv'
    OBVIOUS
  <2>1. CASE Next
    BY <2>1, StepSound
  <2>2. CASE UNCHANGED vars
    BY <2>2 DEF vars, workers, SoundInv
  <2> QED BY <2>1, <2>2
<1> QED BY <1>1, <1>2, RunInvariant, PTL DEF Spec

\* Whatever the seeds, the sizes and the number of contexts, the benchmarks
\* leave every context's memory as it was between the iterations: the matrix
\* always, and with equal seeds the block of the state machine, but for bytes
\* that the corruption turns into commas (core_matrix.c:115, core_state.c:88).
THEOREM MemoryRestoredCorrect == Spec => []MemoryRestored
<1>1. RunInv /\ SoundInv => MemoryRestored
  <2> SUFFICES ASSUME RunInv, SoundInv, NEW c \in Contexts
               PROVE  /\ Memory(c).A = Prepared[conf].A
                      /\ conf.seed1 = conf.seed2 =>
                            Returned(Memory(c).state, Prepared[conf].state, conf.seed1)
    BY DEF MemoryRestored
  <2>1. Kept(Memory(c), Prepared[conf], Undoes(conf))
    BY DEF RunInv, MemoryInv, Memory, Own
  <2>2. Sound(Memory(c).state, conf)
    BY DEF SoundInv, Memory, Own
  <2> QED BY <2>1, <2>2 DEF Kept, Sound
<1> QED BY <1>1, RunInvariant, BlocksSound, PTL

\* The zeros at the end of every context's block are never all corrupted, so
\* that each scan of the state machine ends inside the block, whatever the
\* seeds and the sizes, also where the corruption cannot be undone
\* (core_state.c:86-92, the loops of core_bench_state).
THEOREM ScansEndInside == Spec => [](\A c \in Contexts : EndsInside(Memory(c).state))
<1>1. RunInv /\ SoundInv => \A c \in Contexts : EndsInside(Memory(c).state)
  BY SafeEndsInside
<1> QED BY <1>1, RunInvariant, BlocksSound, PTL

\* The matrices end where the next block begins in exactly the runs whose
\* blocks are not one byte larger than the four matrices need: such a block
\* has no room to align them (core_matrix.c:179-197).
Aligned(c) == BlockSize(c.size) # 8 * (Dimension(BlockSize(c.size)) * Dimension(BlockSize(c.size))) + 1

\* In a run with any other size no benchmark leaves its part of the memory,
\* and in a run with such a size the matrix benchmark does, from the start.
THEOREM WithinBlocksCorrect == Spec => [](WithinBlocks <=> Aligned(conf))
<1>1. RunInv => (MatrixEnd(BlockSize(conf.size), BlockAt(conf.size, 1)) <= BlockAt(conf.size, 2) <=> Aligned(conf))
  <2> SUFFICES ASSUME RunInv
               PROVE  MatrixEnd(BlockSize(conf.size), BlockAt(conf.size, 1)) <= BlockAt(conf.size, 2)
                      <=> Aligned(conf)
    OBVIOUS
  <2> DEFINE b == BlockSize(conf.size)
  <2>1. b \in Nat /\ b >= 1
    BY ConfFacts DEF ConfigType
  <2>2. BlockAt(conf.size, 1) = b /\ BlockAt(conf.size, 2) = 2 * b
    BY <2>1 DEF BlockAt
  <2> HIDE DEF b
  <2>3. MatrixEnd(b, b) <= 2 * b <=> b # 8 * (Dimension(b) * Dimension(b)) + 1
    BY <2>1, MatrixFits
  <2> QED BY <2>2, <2>3 DEF b, Aligned
<1>2. RunInv /\ (\A c \in Contexts : EndsInside(Memory(c).state)) => (WithinBlocks <=> Aligned(conf))
  BY <1>1 DEF WithinBlocks
<1> QED BY <1>2, RunInvariant, ScansEndInside, PTL

----------------------------------------------------------------------------
\* The CRCs that main knows.

\* What the first iteration of a run with the arguments c leaves.
FirstResult(c) == Iterated(c, Entered(Prepared[c]), 0)

\* main's tables hold, for the runs they are for, the CRCs that a first
\* iteration finds, none of which is zero: a zero stands for a CRC that has
\* not been found.
KnownRuns ==
    \A c \in Configurations :
        RunOf(c) \in DOMAIN known_crc /\ Undoes(c) =>
            \A x \in {"crclist", "crcmatrix", "crcstate"} :
                known_crc[RunOf(c)][x] = FirstResult(c)[x] /\ known_crc[RunOf(c)][x] # 0

\* Before its first turn a context is as main prepared it, but for the
\* number of iterations.
LEMMA BaseSame ==
    ASSUME NEW c \in Configurations, NEW it
    PROVE  Same(Base(c, it), Entered(Prepared[c]))
<1> DEFINE p == Prepared[c]
           w == [p EXCEPT !.iterations = it]
<1>1. Shaped(p)
  BY PreparedFacts
<1> HIDE DEF p
<1>2. w = Whole(it, p.N, p.A, p.B, p.state, p.crc, p.crclist, p.crcmatrix, p.crcstate)
  BY <1>1 DEF Shaped, Whole
<1> HIDE DEF w
<1>3. /\ Shaped(w) /\ w.N = p.N /\ w.A = p.A /\ w.B = p.B /\ w.state = p.state
  BY <1>2, WholeFacts
<1>4. \A z : WithOutputs(w, z) =
        Whole(w.iterations, w.N, w.A, w.B, w.state, z.crc, z.crclist, z.crcmatrix, z.crcstate)
  BY <1>3, OutputsChange DEF Shaped
<1>5. \A z : WithOutputs(p, z) =
        Whole(p.iterations, p.N, p.A, p.B, p.state, z.crc, z.crclist, z.crcmatrix, z.crcstate)
  BY <1>1, OutputsChange DEF Shaped
<1>6. ASSUME NEW z PROVE Same(WithOutputs(w, z), WithOutputs(p, z))
  <2> DEFINE e == WithOutputs(w, z)
             d == WithOutputs(p, z)
  <2>1. e = Whole(w.iterations, w.N, w.A, w.B, w.state, z.crc, z.crclist, z.crcmatrix, z.crcstate)
    BY <1>4
  <2>2. d = Whole(p.iterations, p.N, p.A, p.B, p.state, z.crc, z.crclist, z.crcmatrix, z.crcstate)
    BY <1>5
  <2> HIDE DEF e, d
  <2>3. Shaped(e) /\ Shaped(d)
    BY <2>1, <2>2, WholeFacts
  <2>4. e.N = d.N /\ e.A = d.A /\ e.B = d.B /\ e.state = d.state
    BY <1>3, <2>1, <2>2, WholeFacts
  <2>5. e.crc = d.crc /\ e.crclist = d.crclist /\ e.crcmatrix = d.crcmatrix /\ e.crcstate = d.crcstate
    BY <2>1, <2>2, WholeFacts
  <2>6. Same(e, d)
    BY <2>3, <2>4, <2>5 DEF Same, Outputs
  <2> QED BY <2>6 DEF e, d
<1> QED BY <1>6 DEF Base, Entered, w, p

\* The CRCs of the first turn stay for as many turns as follow, if they are
\* not zero.
LEMMA WorkedFirst ==
    ASSUME NEW c \in Configurations, NEW it, NEW n \in Nat \ {0}, NEW r, Worked(c, it, n, r)
    PROVE  /\ r.crclist = FirstResult(c).crclist
           /\ FirstResult(c).crcmatrix # 0 => r.crcmatrix = FirstResult(c).crcmatrix
           /\ FirstResult(c).crcstate # 0 => r.crcstate = FirstResult(c).crcstate
<1> DEFINE g == FirstResult(c)
           H(s) == /\ Shaped(s) /\ s.crclist = g.crclist
                   /\ g.crcmatrix # 0 => s.crcmatrix = g.crcmatrix
                   /\ g.crcstate # 0 => s.crcstate = g.crcstate
<1>1. PICK f : Works(f, c, it, n) /\ f[n] = r
  BY DEF Worked
<1>2. f[0] = Base(c, it) /\ \A k \in 1 .. n : f[k] = Iterated(c, f[k - 1], k - 1)
  BY <1>1 DEF Works
<1>3. H(f[1])
  <2>1. f[1] = Iterated(c, Base(c, it), 0)
    BY <1>2
  <2> DEFINE b == Base(c, it)
             e == Entered(Prepared[c])
  <2>2. Same(b, e)
    BY BaseSame
  <2> HIDE DEF b, e
  <2>3. Same(Iterated(c, b, 0), Iterated(c, e, 0))
    BY <2>2, IteratedSame
  <2>4. Same(f[1], g)
    BY <2>1, <2>3 DEF b, e, FirstResult
  <2> HIDE DEF g
  <2> QED BY <2>4 DEF Same, Outputs
<1> HIDE DEF g
<1> DEFINE T == {k \in Nat : 1 <= k /\ k <= n /\ ~H(f[k])}
<1>4. T = {}
  <2> SUFFICES ASSUME T # {} PROVE FALSE
    OBVIOUS
  <2>1. PICK k \in T : \A j \in T : k <= j
    BY NatMin
  <2>2. k \in Nat /\ k # 0 /\ k # 1 /\ k - 1 \in Nat /\ 1 <= k - 1 /\ k - 1 \notin T /\ k \in 1 .. n /\ k - 1 <= n
    BY <1>3, <2>1
  <2> DEFINE s == f[k - 1]
             l == k - 1
  <2>3. H(s)
    BY <2>1, <2>2
  <2>4. f[k] = Iterated(c, s, l) /\ l # 0
    BY <1>2, <2>2
  <2> HIDE DEF s, l
  <2> DEFINE v == Iterated(c, s, l)
  <2>5. /\ Shaped(v) /\ v.crclist = s.crclist
        /\ s.crcmatrix # 0 => v.crcmatrix = s.crcmatrix
        /\ s.crcstate # 0 => v.crcstate = s.crcstate
    BY <2>3, <2>4, IteratedFollows
  <2> HIDE DEF v
  <2>6. H(v)
    BY <2>3, <2>5
  <2>7. H(f[k])
    BY <2>4, <2>6 DEF v
  <2> QED BY <2>1, <2>7
<1>5. H(f[n])
  BY <1>4
<1> QED BY <1>1, <1>5 DEF g

\* When a run has come to its end every context has done some work, and what
\* main has of it are the outputs of as many turns as there were iterations.
LEMMA DoneFacts ==
    ASSUME RunInv, at = "done", Undoes(conf), NEW c \in 0 .. conf.contexts - 1
    PROVE  /\ turn[c] \in Nat \ {0} /\ turn[c] = Iterations
           /\ Worked(conf, Iterations, turn[c], Memory(c))
           /\ Outputs(results[c]) = Outputs(Memory(c))
<1>1. ConfigType(conf) /\ MULTITHREAD \in Nat \ {0}
  BY ConfFacts
<1>2. c \in Contexts /\ c < conf.contexts
  BY <1>1 DEF ConfigType, Contexts
<1>3. Gathered(c) /\ Started(c)
  BY <1>2 DEF Gathered, Started
<1>4. proc[c] = "ended"
  BY <1>2, <1>3 DEF RunInv, ProcInv
<1>5. /\ turn[c] \in Nat /\ (turn[c] = 0 \/ turn[c] <= Iterations) /\ turn[c] >= Iterations
      /\ Worked(conf, Iterations, turn[c], Memory(c))
  BY <1>2, <1>3, <1>4 DEF RunInv, WorkInv, ShapeInv
<1>6. Iterations \in Nat /\ Iterations >= 1
  BY DEF RunInv, LengthInv
<1>7. Outputs(results[c]) = Outputs(Memory(c))
  BY <1>2, <1>3 DEF RunInv, GatherInv
<1> HIDE DEF Iterations
<1> QED BY <1>5, <1>6, <1>7

\* With tables that hold what a first iteration finds, no context of a known
\* run whose corruption can be undone reports a wrong CRC, in whatever order
\* the contexts ran, however many iterations, and although main has run the
\* first one before.
THEOREM ContextsAgreeCorrect ==
    ASSUME KnownRuns PROVE Spec => []ContextsAgree
<1>1. RunInv => (at = "done" /\ Undoable /\ IsKnown => \A c \in 0 .. conf.contexts - 1 : Wrong(c) = 0)
  <2> SUFFICES ASSUME RunInv, at = "done", Undoable, IsKnown, NEW c \in 0 .. conf.contexts - 1
               PROVE  Wrong(c) = 0
    OBVIOUS
  <2> DEFINE g == FirstResult(conf)
             k == known_crc[Run]
             r == results[c]
             m == Memory(c)
             D == {"crclist", "crcmatrix", "crcstate"}
  <2>1. Undoes(conf) /\ conf \in Configurations
    BY DEF Undoable, Undoes, RunInv, ShapeInv
  <2>2. /\ turn[c] \in Nat \ {0} /\ Worked(conf, Iterations, turn[c], m)
        /\ Outputs(r) = Outputs(m)
    BY <2>1, DoneFacts
  <2>3. \A x \in D : k[x] = g[x] /\ k[x] # 0
    BY <2>1, KnownRuns DEF KnownRuns, IsKnown, Run
  <2>4. DOMAIN k = D
    BY CoreMarkAssumption DEF IsKnown
  <2> HIDE DEF g, k, m, r
  <2>5. /\ m.crclist = g.crclist
        /\ g.crcmatrix # 0 => m.crcmatrix = g.crcmatrix
        /\ g.crcstate # 0 => m.crcstate = g.crcstate
    BY <2>1, <2>2, WorkedFirst DEF g
  <2>6. r.crclist = m.crclist /\ r.crcmatrix = m.crcmatrix /\ r.crcstate = m.crcstate
    BY <2>2 DEF Outputs
  <2>7. \A x \in D : r[x] = k[x]
    BY <2>3, <2>5, <2>6
  <2>8. {x \in D : r[x] # k[x]} = {}
    BY <2>7
  <2>9. Wrong(c) = Cardinality({x \in DOMAIN k : r[x] # k[x]})
    BY DEF Wrong, k, r
  <2> QED BY <2>4, <2>8, <2>9, FS_EmptySet
<1>2. Spec => []SameResults
  BY SameResultsCorrect
<1>3. RunInv /\ SameResults => ContextsAgree
  BY <1>1 DEF ContextsAgree
<1> QED BY <1>2, <1>3, RunInvariant, PTL

----------------------------------------------------------------------------
\* What main's verdict says.

\* The errors of the first contexts, counted one after the other.
SumWalk(f, K) == f = [n \in 0 .. K |-> IF n = 0 THEN 0 ELSE f[n - 1] + Wrong(n - 1)]

\* They can be counted.
LEMMA SumWalkExists ==
    ASSUME NEW K \in Nat
    PROVE  \E f : SumWalk(f, K)
<1> DEFINE T == {k \in Nat : ~ \E f : SumWalk(f, k)}
<1> SUFFICES ASSUME T # {} PROVE FALSE
  OBVIOUS
<1>1. PICK k \in T : \A j \in T : k <= j
  BY NatMin
<1>2. CASE k = 0
  <2> DEFINE u == [n \in 0 .. 0 |-> 0]
  <2>1. u = [n \in 0 .. 0 |-> IF n = 0 THEN 0 ELSE u[n - 1] + Wrong(n - 1)]
    OBVIOUS
  <2>2. SumWalk(u, 0)
    BY <2>1 DEF SumWalk
  <2> QED BY <1>1, <1>2, <2>2
<1>3. CASE k # 0
  <2>1. k \in Nat /\ k - 1 \in Nat /\ k - 1 \notin T
    BY <1>1, <1>3
  <2>2. PICK f : SumWalk(f, k - 1)
    BY <2>1
  <2> DEFINE e == f[k - 1] + Wrong(k - 1)
             u == [n \in 0 .. k |-> IF n < k THEN f[n] ELSE e]
  <2>3. \A n \in 0 .. k - 1 : f[n] = IF n = 0 THEN 0 ELSE f[n - 1] + Wrong(n - 1)
    BY <2>2 DEF SumWalk
  <2> HIDE DEF e
  <2>4. ASSUME NEW n \in 0 .. k
        PROVE  (IF n < k THEN f[n] ELSE e) = IF n = 0 THEN 0 ELSE u[n - 1] + Wrong(n - 1)
    <3>1. CASE n < k
      <4>1. n \in 0 .. k - 1
        BY <2>1, <3>1
      <4>2. n # 0 => u[n - 1] = f[n - 1]
        BY <2>1, <3>1
      <4> QED BY <2>3, <3>1, <4>1, <4>2
    <3>2. CASE n = k
      <4>1. n # 0 /\ u[n - 1] = f[k - 1] /\ ~(n < k)
        BY <2>1, <1>3, <3>2
      <4> QED BY <3>2, <4>1 DEF e
    <3> QED BY <2>1, <3>1, <3>2
  <2>5. u = [n \in 0 .. k |-> IF n = 0 THEN 0 ELSE u[n - 1] + Wrong(n - 1)]
    BY <2>4
  <2> HIDE DEF u
  <2>6. SumWalk(u, k)
    BY <2>5 DEF SumWalk
  <2> QED BY <1>1, <2>6
<1> QED BY <1>2, <1>3

\* The number of wrong CRCs of a context of a known run is natural.
LEMMA WrongType ==
    ASSUME IsKnown, NEW c
    PROVE  Wrong(c) \in Nat
<1> DEFINE D == {"crclist", "crcmatrix", "crcstate"}
           S == {x \in DOMAIN known_crc[Run] : results[c][x] # known_crc[Run][x]}
<1>1. DOMAIN known_crc[Run] = D
  BY CoreMarkAssumption DEF IsKnown
<1>2. IsFiniteSet(D)
  <2>1. D = ({"crclist"} \cup {"crcmatrix"}) \cup {"crcstate"}
    OBVIOUS
  <2> HIDE DEF D
  <2> QED BY <2>1, FS_Singleton, FS_Union
<1>3. S \subseteq D
  BY <1>1
<1> HIDE DEF S, D
<1>4. Cardinality(S) \in Nat
  BY <1>2, <1>3, FS_Subset, FS_CardinalityType
<1> QED BY <1>4 DEF Wrong, S

\* There are no errors in a known run exactly if no context has one.
LEMMA WrongsFacts ==
    ASSUME IsKnown, conf.contexts \in Nat
    PROVE  Wrongs \in Nat /\ (Wrongs = 0 <=> \A c \in 0 .. conf.contexts - 1 : Wrong(c) = 0)
<1> DEFINE K == conf.contexts
           sum == CHOOSE f : SumWalk(f, K)
<1>1. Wrongs = sum[K]
  BY DEF Wrongs, SumWalk
<1>2. K \in Nat
  OBVIOUS
<1> HIDE DEF K
<1>3. SumWalk(sum, K)
  BY <1>2, SumWalkExists
<1> HIDE DEF sum
<1>4. \A n \in 0 .. K : sum[n] = IF n = 0 THEN 0 ELSE sum[n - 1] + Wrong(n - 1)
  BY <1>3 DEF SumWalk
<1> DEFINE H(n) == sum[n] \in Nat /\ (sum[n] = 0 <=> \A c \in 0 .. n - 1 : Wrong(c) = 0)
           T == {k \in Nat : k <= K /\ ~H(k)}
<1>5. T = {}
  <2> SUFFICES ASSUME T # {} PROVE FALSE
    OBVIOUS
  <2>1. PICK k \in T : \A j \in T : k <= j
    BY NatMin
  <2>2. H(0)
    BY <1>2, <1>4
  <2>3. k \in Nat /\ k # 0 /\ k - 1 \in Nat /\ k \in 0 .. K /\ k - 1 <= K
    BY <1>2, <2>1, <2>2
  <2>4. H(k - 1)
    <3>1. k - 1 \notin T
      BY <2>1, <2>3
    <3> QED BY <2>3, <3>1
  <2>5. sum[k] = sum[k - 1] + Wrong(k - 1) /\ Wrong(k - 1) \in Nat
    BY <1>4, <2>3, WrongType
  <2>6. \A c \in 0 .. k - 1 : c \in 0 .. (k - 1) - 1 \/ c = k - 1
    BY <2>3
  <2>7. \A c \in 0 .. (k - 1) - 1 : c \in 0 .. k - 1
    BY <2>3
  <2>8. k - 1 \in 0 .. k - 1
    BY <2>3
  <2>9. sum[k] \in Nat /\ (sum[k] = 0 <=> sum[k - 1] = 0 /\ Wrong(k - 1) = 0)
    BY <2>4, <2>5
  <2>10. (\A c \in 0 .. k - 1 : Wrong(c) = 0)
           <=> (\A c \in 0 .. (k - 1) - 1 : Wrong(c) = 0) /\ Wrong(k - 1) = 0
    BY <2>6, <2>7, <2>8
  <2>11. H(k)
    BY <2>4, <2>9, <2>10
  <2> QED BY <2>1, <2>11
<1>6. H(K)
  BY <1>2, <1>5
<1> QED BY <1>1, <1>6 DEF K

\* Nothing goes on after the report.
LEMMA DoneStays ==
    ASSUME RunInv, at = "done", [Next]_vars PROVE vars' = vars
<1>1. CASE UNCHANGED vars
  BY <1>1
<1>2. CASE Next
  <2>1. ASSUME NEW c \in Contexts PROVE proc[c] # "iterate"
    <3>1. Started(c) <=> Gathered(c)
      BY DEF Started, Gathered
    <3>2. (proc[c] # "none" <=> Started(c) \/ (at = "measure" /\ c = 0)) /\ (Gathered(c) => proc[c] = "ended")
      BY DEF RunInv, ProcInv
    <3> QED BY <3>1, <3>2
  <2>2. \A c \in Contexts : ~Turn(c) /\ ~Exit(c)
    BY <2>1 DEF Turn, Running, Exit
  <2>3. ~Main
    BY DEF Main, Calibrate, Measured, core_start_parallel, Bind, AllStarted, core_stop_parallel, Report
  <2> QED BY <1>2, <2>2, <2>3 DEF Next, Worker
<1> QED BY <1>1, <1>2

\* Main has reported by the errors it counts.
VerdictInv ==
    at = "done" =>
        LET e == total_errors(elapsed)
        IN verdict = IF e = 0 THEN "validated" ELSE IF e > 0 THEN "errors" ELSE "unknown"

\* What a report stands for: that of a known run, that it took ten seconds,
\* that the data types have their sizes, and that every context found the
\* known CRCs.  A run with other seeds is reported as validated, too, if there
\* is exactly one more error: a data type or the time.
VerdictMeans ==
    at = "done" =>
        LET short == elapsed < Ten * conf.speed
            sizes == check_data_types(sizeof)
        IN /\ IsKnown =>
                /\ verdict \in {"validated", "errors"}
                /\ verdict = "validated" <=>
                     ~short /\ sizes = 0 /\ \A c \in 0 .. conf.contexts - 1 : Wrong(c) = 0
           /\ ~IsKnown =>
                /\ verdict = "validated" <=> (short /\ sizes = 0) \/ (~short /\ sizes = 1)
                /\ verdict = "unknown" <=> ~short /\ sizes = 0

\* The number of data types of a wrong size is natural.
LEMMA SizesType == check_data_types(sizeof) \in Nat
<1> DEFINE S == {t \in DOMAIN sizeof :
        sizeof[t] # CASE t = "ee_u8" -> 1 [] t \in {"ee_u16", "ee_s16"} -> 2
                      [] t \in {"ee_u32", "ee_s32"} -> 4 [] t = "ee_ptr_int" -> sizeof["int *"]
                      [] OTHER -> sizeof[t]}
           D == DOMAIN sizeof
<1>1. S \subseteq D
  OBVIOUS
<1>2. check_data_types(sizeof) = Cardinality(S)
  BY DEF check_data_types
<1> HIDE DEF S
<1>3. IsFiniteSet(D)
  BY CoreMarkAssumption
<1> HIDE DEF D
<1> QED BY <1>1, <1>2, <1>3, FS_Subset, FS_CardinalityType

\* "Correct operation validated" stands for what VerdictMeans says, in every
\* run and with every outcome of its measurement (core_main.c:264-300); the
\* run coremark_valid shows the case in which it stands for nothing.
THEOREM VerdictCorrect == Spec => []VerdictMeans
<1>1. Init => VerdictInv
  BY DEF Init, VerdictInv
<1>2. RunInv /\ VerdictInv /\ [Next]_vars => VerdictInv'
  <2> SUFFICES ASSUME RunInv, VerdictInv, [Next]_vars, at' = "done"
               PROVE  LET e == total_errors(elapsed)
                      IN (verdict = IF e = 0 THEN "validated" ELSE IF e > 0 THEN "errors" ELSE "unknown")'
    BY DEF VerdictInv
  <2>1. CASE at = "done"
    <3>1. vars' = vars
      BY <2>1, DoneStays
    <3>2. conf' = conf /\ results' = results /\ elapsed' = elapsed /\ verdict' = verdict
      BY <3>1 DEF vars, workers
    <3>3. total_errors(elapsed)' = total_errors(elapsed)
      BY <3>2 DEF total_errors, IsKnown, Run, Wrongs, Wrong
    <3> QED BY <2>1, <3>2, <3>3 DEF VerdictInv
  <2>2. CASE at # "done"
    <3>1. Report
      BY <2>2 DEF vars, Next, Main, Worker, Calibrate, Measured, core_start_parallel, Bind, AllStarted,
         core_stop_parallel, Turn, Exit
    <3>2. conf' = conf /\ results' = results
      BY <3>1 DEF Report, workers
    <3>3. total_errors(elapsed)' = total_errors(elapsed')
      BY <3>2 DEF total_errors, IsKnown, Run, Wrongs, Wrong
    <3> QED BY <3>1, <3>3 DEF Report
  <2> QED BY <2>1, <2>2
<1>3. RunInv /\ VerdictInv => VerdictMeans
  <2> SUFFICES ASSUME RunInv, VerdictInv, at = "done" PROVE VerdictMeans
    BY DEF VerdictMeans
  <2> DEFINE sizes == check_data_types(sizeof)
             short == elapsed < Ten * conf.speed
             e == total_errors(elapsed)
  <2>1. sizes \in Nat
    BY SizesType
  <2>2. e = (IF IsKnown THEN Wrongs ELSE -1) + sizes + (IF short THEN 1 ELSE 0)
    BY DEF total_errors
  <2>3. verdict = IF e = 0 THEN "validated" ELSE IF e > 0 THEN "errors" ELSE "unknown"
    BY DEF VerdictInv
  <2>4. IsKnown => Wrongs \in Nat /\ (Wrongs = 0 <=> \A c \in 0 .. conf.contexts - 1 : Wrong(c) = 0)
    <3>1. conf.contexts \in Nat
      BY ConfFacts DEF ConfigType
    <3> QED BY <3>1, WrongsFacts
  <2> HIDE DEF sizes, e, short
  <2>5. CASE IsKnown
    <3>1. e \in Nat /\ (e = 0 <=> Wrongs = 0 /\ sizes = 0 /\ ~short)
      BY <2>1, <2>2, <2>4, <2>5
    <3>2. e \in Nat
      BY <3>1
    <3>3. verdict \in {"validated", "errors"} /\ (verdict = "validated" <=> e = 0)
      BY <2>3, <3>2
    <3> QED BY <2>4, <2>5, <3>1, <3>3 DEF VerdictMeans, sizes, short
  <2>6. CASE ~IsKnown
    <3>1. e \in Int /\ (e = 0 <=> (short /\ sizes = 0) \/ (~short /\ sizes = 1))
          /\ (e < 0 <=> ~short /\ sizes = 0)
      BY <2>1, <2>2, <2>6
    <3>2. e \in Int
      BY <3>1
    <3>3. (verdict = "validated" <=> e = 0) /\ (verdict = "unknown" <=> e < 0)
      BY <2>3, <3>2
    <3> QED BY <2>6, <3>1, <3>3 DEF VerdictMeans, sizes, short
  <2> QED BY <2>5, <2>6
<1> QED BY <1>1, <1>2, <1>3, RunInvariant, PTL DEF Spec

----------------------------------------------------------------------------
\* Whether main comes to its report.

\* No result of context c waits at its socket.
Empty(c) == c \notin DOMAIN inbox \/ inbox[c] = << >>

\* A context that has ended, and whose results main has not received, has
\* sent them, if nothing was lost; and of what was lost there is a context
\* whose results main will wait for.
HangInv ==
    /\ \A c \in Contexts :
          conf.method = "socket" /\ proc[c] = "ended" /\ ~Gathered(c) => lost \/ ~Empty(c)
    /\ lost => \E c \in Contexts :
          conf.method = "socket" /\ proc[c] = "ended" /\ ~Gathered(c) /\ Empty(c)

\* A step in which no context ends and nothing is received keeps it, if it
\* leaves the contexts that have ended and those that main has gathered.
LEMMA QuietKeeps ==
    ASSUME HangInv, conf' = conf, inbox' = inbox, lost' = lost,
           \A c \in Contexts : (proc'[c] = "ended" <=> proc[c] = "ended") /\ (Gathered(c)' <=> Gathered(c))
    PROVE  HangInv'
BY DEF HangInv, Empty

\* No step of main or of a context breaks it.
LEMMA StepHang ==
    ASSUME RunInv, HangInv, Next PROVE HangInv'
<1>1. /\ conf \in Configurations /\ i \in Nat /\ i <= conf.contexts /\ conf.contexts \in Nat
      /\ Contexts \subseteq Nat /\ 0 \in Contexts
      /\ proc \in [Contexts -> {"none", "iterate", "ended"}]
      /\ conf.method \in {"pthread", "fork", "socket"}
      /\ \A c \in Contexts : proc[c] # "none" <=> Started(c) \/ (at = "measure" /\ c = 0)
      /\ \A c \in Contexts : Gathered(c) => proc[c] = "ended"
      /\ Calibrating => \A c \in Contexts : proc[c] # "ended"
  BY ConfFacts DEF RunInv, ShapeInv, ProcInv, ConfigType
<1>2. CASE Calibrate \/ Measured
  <2>1. /\ conf' = conf /\ inbox' = inbox /\ lost' = lost /\ at \in {"calibrate", "measure"}
        /\ at' \in {"calibrate", "measure", "start"} /\ i' = i /\ i = 0
        /\ \E e \in {"iterate", "none"} : proc' = [proc EXCEPT ![0] = e]
    BY <1>2 DEF Calibrate, Measured, links, RunInv, ShapeInv, Calibrating
  <2>2. \A c \in Contexts : proc[c] # "ended" /\ proc'[c] # "ended"
    BY <1>1, <2>1 DEF Calibrating
  <2>3. \A c \in Contexts : ~Gathered(c) /\ ~Gathered(c)'
    BY <1>1, <2>1 DEF Gathered
  <2> QED BY <2>1, <2>2, <2>3, QuietKeeps
<1>3. CASE core_start_parallel
  <2>1. /\ conf' = conf /\ inbox' = inbox /\ lost' = lost /\ at = "start" /\ i < conf.contexts
        /\ at' \in {"start", "bind"} /\ proc' = [proc EXCEPT ![i] = "iterate"]
    BY <1>3 DEF core_start_parallel, links
  <2>2. \A c \in Contexts : c = i => proc[c] # "ended"
    BY <1>1, <2>1 DEF Started
  <2>3. \A c \in Contexts : proc'[c] = "ended" <=> proc[c] = "ended"
    BY <1>1, <2>1, <2>2
  <2>4. \A c \in Contexts : ~Gathered(c) /\ ~Gathered(c)'
    BY <2>1 DEF Gathered
  <2> QED BY <2>1, <2>3, <2>4, QuietKeeps
<1>4. CASE Bind \/ AllStarted \/ Report
  <2>1. conf' = conf /\ inbox' = inbox /\ lost' = lost /\ proc' = proc
    BY <1>4 DEF Bind, AllStarted, Report, links, workers
  <2>2. \A c \in Contexts : Gathered(c)' <=> Gathered(c)
    <3>1. CASE Bind
      BY <3>1 DEF Bind, Gathered
    <3>2. CASE AllStarted
      BY <1>1, <3>2 DEF AllStarted, Gathered
    <3>3. CASE Report
      BY <3>3 DEF Report, Gathered
    <3> QED BY <1>4, <3>1, <3>2, <3>3
  <2> QED BY <2>1, <2>2, QuietKeeps
<1>5. CASE core_stop_parallel
  <2>1. /\ at = "stop" /\ at' = "stop" /\ i < conf.contexts /\ i' = i + 1 /\ proc[i] = "ended"
        /\ conf' = conf /\ proc' = proc /\ lost' = lost
    BY <1>5 DEF core_stop_parallel
  <2>2. \A c \in Contexts : Gathered(c)' <=> Gathered(c) \/ c = i
    BY <1>1, <2>1 DEF Gathered
  <2>3. conf.method = "socket" =>
          ~Empty(i) /\ inbox' = [inbox EXCEPT ![i] = Tail(inbox[i])]
    BY <1>5 DEF core_stop_parallel, Port, Empty
  <2>4. conf.method # "socket" => inbox' = inbox
    BY <1>1, <1>5 DEF core_stop_parallel
  <2>5. \A c \in Contexts : c # i => (Empty(c)' <=> Empty(c))
    BY <1>1, <2>3, <2>4 DEF Empty
  <2>6. conf.method = "socket" => ~Empty(i)
    BY <2>3
  <2> HIDE DEF HangInv
  <2>7. ASSUME NEW c \in Contexts, conf.method = "socket", proc[c] = "ended", ~Gathered(c)'
        PROVE  lost \/ ~Empty(c)'
    BY <2>2, <2>5, <2>7 DEF HangInv
  <2>8. ASSUME lost
        PROVE  \E c \in Contexts : conf.method = "socket" /\ proc[c] = "ended" /\ ~Gathered(c)' /\ Empty(c)'
    <3>1. PICK c \in Contexts : conf.method = "socket" /\ proc[c] = "ended" /\ ~Gathered(c) /\ Empty(c)
      BY <2>8 DEF HangInv
    <3>2. c # i
      BY <2>6, <3>1
    <3> QED BY <2>2, <2>5, <3>1, <3>2
  <2> QED BY <2>1, <2>7, <2>8 DEF HangInv
<1>6. ASSUME NEW d \in Contexts, Turn(d) PROVE HangInv'
  <2>1. conf' = conf /\ inbox' = inbox /\ lost' = lost /\ proc' = proc /\ at' = at /\ i' = i
    BY <1>6 DEF Turn, links
  <2> QED BY <2>1, QuietKeeps DEF Gathered
<1>7. ASSUME NEW d \in Contexts, Exit(d) PROVE HangInv'
  <2>1. /\ conf' = conf /\ at' = at /\ i' = i /\ proc[d] = "iterate"
        /\ proc' = [proc EXCEPT ![d] = "ended"]
    BY <1>7 DEF Exit
  <2>2. \A c \in Contexts : (Gathered(c)' <=> Gathered(c)) /\ (c # d => proc'[c] = proc[c])
    BY <1>1, <2>1 DEF Gathered
  <2>3. proc'[d] = "ended" /\ ~Gathered(d)
    BY <1>1, <2>1
  <2>4. CASE conf.method = "socket" /\ d \in bound
    <3> DEFINE q == Append(IF d \in DOMAIN inbox THEN inbox[d] ELSE << >>, Outputs(Memory(d)))
    <3>1. inbox' = Put(inbox, d, q) /\ lost' = lost
      BY <1>7, <2>4 DEF Exit, Port
    <3>2. q # << >>
      <4>1. d \notin DOMAIN inbox
        BY <2>1 DEF RunInv, LinkInv
      <4> QED BY <4>1
    <3> HIDE DEF q
    <3>3. /\ \A c \in Contexts : c # d => (Empty(c)' <=> Empty(c))
          /\ ~Empty(d)'
      BY <3>1, <3>2 DEF Empty, Put
    <3> QED BY <2>1, <2>2, <2>3, <3>1, <3>3 DEF HangInv
  <2>5. CASE conf.method = "socket" /\ d \notin bound
    <3>1. inbox' = inbox /\ lost' = TRUE
      BY <1>7, <2>5 DEF Exit, Port
    <3>2. Empty(d)'
      <4>1. d \notin DOMAIN inbox
        BY <2>1 DEF RunInv, LinkInv
      <4> QED BY <3>1, <4>1 DEF Empty
    <3> QED BY <2>1, <2>2, <2>3, <2>5, <3>1, <3>2 DEF HangInv
  <2>6. CASE conf.method # "socket"
    <3>1. inbox' = inbox /\ lost' = lost
      BY <1>1, <1>7, <2>6 DEF Exit, links
    <3> QED BY <2>1, <2>6, <3>1 DEF HangInv
  <2> QED BY <2>4, <2>5, <2>6
<1> QED BY <1>2, <1>3, <1>4, <1>5, <1>6, <1>7 DEF Next, Main, Worker

\* What the invariant says of what was sent holds throughout.
LEMMA HangInvariant == Spec => []HangInv
<1>1. Init => HangInv
  BY DEF Init, HangInv
<1>2. RunInv /\ HangInv /\ [Next]_vars => HangInv'
  <2> SUFFICES ASSUME RunInv, HangInv, [Next]_vars PROVE HangInv'
    OBVIOUS
  <2>1. CASE Next
    BY <2>1, StepHang
  <2>2. CASE UNCHANGED vars
    <3>1. conf' = conf /\ inbox' = inbox /\ lost' = lost /\ proc' = proc /\ at' = at /\ i' = i
      BY <2>2 DEF vars, workers, links
    <3> QED BY <3>1, QuietKeeps DEF Gathered
  <2> QED BY <2>1, <2>2
<1> QED BY <1>1, <1>2, RunInvariant, PTL DEF Spec

\* Once a process has sent its results before main had bound the socket, main
\* never comes to its report: each context sends once, to a port of its own,
\* and main waits for every one (linux/core_portme.c:293, 310).
THEOREM LostNeverReported == Spec => [](lost => at # "done")
<1>1. RunInv /\ HangInv => (lost => at # "done")
  <2> SUFFICES ASSUME RunInv, HangInv, lost, at = "done" PROVE FALSE
    OBVIOUS
  <2>1. PICK c \in Contexts : proc[c] = "ended" /\ ~Gathered(c)
    BY DEF HangInv
  <2>2. Started(c)
    BY <2>1 DEF RunInv, ProcInv
  <2> QED BY <2>1, <2>2 DEF Started, Gathered
<1> QED BY <1>1, RunInvariant, HangInvariant, PTL

\* What main and a context can do: the guards of their steps.
MainCanStep ==
    \/ at \in {"calibrate", "bind"}
    \/ at = "measure" /\ ~Running(0)
    \/ at = "start" /\ i <= conf.contexts
    \/ at = "stop" /\ i = conf.contexts
    \/ /\ at = "stop" /\ i < conf.contexts /\ proc[i] = "ended"
       /\ conf.method = "socket" => ~Empty(i)

ContextCanStep(c) ==
    proc[c] = "iterate" /\ (Running(c) \/ at # "measure")

\* Until the report someone can always go on, unless main waits for results
\* that were lost: the threads, processes, shared memory and sockets never
\* wait for each other in a circle.
THEOREM NeverStuck ==
    Spec => [](at # "done" /\ ~lost => MainCanStep \/ \E c \in Contexts : ContextCanStep(c))
<1>1. RunInv /\ HangInv => (at # "done" /\ ~lost => MainCanStep \/ \E c \in Contexts : ContextCanStep(c))
  <2> SUFFICES ASSUME RunInv, HangInv, at # "done", ~lost, ~MainCanStep
               PROVE  \E c \in Contexts : ContextCanStep(c)
    OBVIOUS
  <2>1. /\ at \in {"calibrate", "measure", "start", "bind", "stop", "done"}
        /\ i \in Nat /\ i <= conf.contexts /\ conf.contexts \in Nat /\ conf.contexts <= MULTITHREAD
        /\ MULTITHREAD \in Nat /\ 0 \in Contexts
        /\ proc \in [Contexts -> {"none", "iterate", "ended"}]
        /\ \A c \in Contexts : proc[c] # "none" <=> Started(c) \/ (at = "measure" /\ c = 0)
        /\ Calibrating => \A c \in Contexts : proc[c] # "ended"
    BY ConfFacts DEF RunInv, ShapeInv, ProcInv, ConfigType
  <2>2. CASE at = "measure"
    <3>1. proc[0] = "iterate"
      BY <2>1, <2>2 DEF Calibrating
    <3>2. Running(0)
      BY <2>2 DEF MainCanStep
    <3> QED BY <2>1, <3>1, <3>2 DEF ContextCanStep
  <2>3. CASE at # "measure"
    <3>1. at = "stop" /\ i < conf.contexts
      BY <2>1, <2>3 DEF MainCanStep
    <3>2. i \in Contexts /\ Started(i) /\ ~Gathered(i)
      BY <2>1, <3>1 DEF Contexts, Started, Gathered
    <3>3. proc[i] # "none"
      BY <2>1, <3>2
    <3>4. proc[i] # "ended"
      <4> SUFFICES ASSUME proc[i] = "ended" PROVE FALSE
        OBVIOUS
      <4>1. conf.method = "socket" => ~Empty(i)
        BY <3>2 DEF HangInv
      <4> QED BY <3>1, <4>1 DEF MainCanStep
    <3>5. proc[i] = "iterate"
      BY <2>1, <3>2, <3>3, <3>4
    <3> QED BY <2>3, <3>2, <3>5 DEF ContextCanStep
  <2> QED BY <2>2, <2>3
<1> QED BY <1>1, RunInvariant, HangInvariant, PTL

----------------------------------------------------------------------------
\* Every step brings the report nearer.

\* What main has left: its stage, the numbers of iterations it may still try,
\* and the calls of the stage.
Stage ==
    CASE Calibrating -> 3
      [] at \in {"start", "bind"} -> 2
      [] at = "stop" -> 1
      [] OTHER -> 0

Lengthenings ==
    IF Calibrating THEN 2 * (Ten * conf.speed - Iterations) + (IF at = "measure" THEN 1 ELSE 0) ELSE 0

Calls ==
    CASE at = "start" -> 2 * (conf.contexts - i) + 1
      [] at = "bind" -> 2 * (conf.contexts - i)
      [] at = "stop" -> conf.contexts - i
      [] OTHER -> 0

\* What context c has left: its turns, and to end.
ContextLeft(c) ==
    IF proc[c] # "iterate" THEN 0
    ELSE 1 + (IF turn[c] < Iterations THEN Iterations - turn[c] ELSE 0)

\* Main comes nearer to its report, or a context to its end while main and
\* the others stay where they are.
MainAdvances ==
    \/ Stage' < Stage
    \/ Stage' = Stage /\ Lengthenings' < Lengthenings
    \/ Stage' = Stage /\ Lengthenings' = Lengthenings /\ Calls' < Calls

ContextAdvances(c) ==
    /\ Stage' = Stage /\ Lengthenings' = Lengthenings /\ Calls' = Calls
    /\ ContextLeft(c)' < ContextLeft(c)
    /\ \A d \in Contexts : d # c => ContextLeft(d)' = ContextLeft(d)

Advances == MainAdvances \/ \E c \in Contexts : ContextAdvances(c)

\* A number of iterations that does not do is followed by a longer one.
LEMMA LongerLonger ==
    ASSUME NEW n \in Nat, NEW s \in Nat \ {0}, n >= 1, n <= s, Ten > 1,
           U32 \in Nat, (2 * Ten + 2) * s < U32
    PROVE  Longer(n) > n
<1>0. Ten \in Nat
  BY CoreMarkAssumption
<1>1. n * Ten <= s * Ten /\ n * Ten \in Nat /\ s * Ten \in Nat /\ Ten * n = n * Ten
  BY <1>0, TimesGrows
<1>2. (2 * Ten + 2) * s = 2 * (s * Ten) + 2 * s
  BY <1>0
<1>3. 2 * n <= Ten * n
  BY <1>0, TimesGrows
<1> DEFINE u == n * Ten
           v == s * Ten
           w == (2 * Ten + 2) * s
<1>4. u <= v /\ u \in Nat /\ v \in Nat /\ w = 2 * v + 2 * s /\ w < U32 /\ u > n
  BY <1>0, <1>1, <1>2, <1>3
<1>5. Longer(n) = u % U32
  BY <1>1 DEF Longer
<1> HIDE DEF u, v, w
<1>6. u < U32 /\ u % U32 = u
  BY <1>4
<1> QED BY <1>4, <1>5, <1>6

\* What is left are natural numbers.
LEMMA LeftType ==
    ASSUME RunInv
    PROVE  /\ Stage \in Nat /\ Lengthenings \in Nat /\ Calls \in Nat
           /\ \A c \in Contexts : ContextLeft(c) \in Nat
<1>1. /\ ConfigType(conf) /\ Ten \in Nat \ {0} /\ i \in Nat /\ i <= conf.contexts
      /\ Iterations \in Nat /\ turn \in [Contexts -> Nat]
      /\ at = "calibrate" => Iterations <= conf.speed
      /\ at = "measure" => Iterations <= Ten * conf.speed
  BY ConfFacts DEF RunInv, ShapeInv, LengthInv
<1>2. conf.contexts \in Nat /\ conf.speed \in Nat
  BY <1>1 DEF ConfigType
<1>3. 1 * conf.speed <= Ten * conf.speed /\ Ten * conf.speed \in Nat
  BY <1>1, <1>2, TimesGrows
<1>4. Lengthenings \in Nat
  <2> DEFINE m == Ten * conf.speed
  <2>1. m \in Nat /\ (Calibrating => Iterations <= m)
    BY <1>1, <1>2, <1>3 DEF Calibrating
  <2>2. Lengthenings = IF Calibrating THEN 2 * (m - Iterations) + (IF at = "measure" THEN 1 ELSE 0) ELSE 0
    BY DEF Lengthenings
  <2> HIDE DEF m
  <2> QED BY <1>1, <2>1, <2>2
<1>5. Stage \in Nat /\ Calls \in Nat
  BY <1>1, <1>2 DEF Stage, Calls
<1>6. \A c \in Contexts : ContextLeft(c) \in Nat
  BY <1>1 DEF ContextLeft
<1> QED BY <1>4, <1>5, <1>6

\* Main's steps while it finds out how long to run.
LEMMA MeasuringAdvances ==
    ASSUME RunInv, Ten > 1, Calibrate \/ Measured PROVE MainAdvances
<1>1. /\ ConfigType(conf) /\ Ten \in Nat \ {0} /\ 0 \in Contexts /\ DOMAIN results = Contexts
      /\ Iterations \in Nat /\ Iterations >= 1
      /\ at = "calibrate" => Iterations <= conf.speed
  BY ConfFacts DEF RunInv, ShapeInv, LengthInv
<1>2. conf.speed \in Nat \ {0} /\ (2 * Ten + 2) * conf.speed < U32 /\ U32 \in Nat
  BY <1>1 DEF ConfigType
<1>3. Ten * conf.speed \in Nat
  BY <1>1, <1>2, TimesGrows
<1> DEFINE m == Ten * conf.speed
<1>4. Lengthenings = IF Calibrating THEN 2 * (m - Iterations) + (IF at = "measure" THEN 1 ELSE 0) ELSE 0
  BY DEF Lengthenings
<1>5. conf' = conf
  BY DEF Calibrate, Measured
<1>6. Lengthenings' = IF Calibrating' THEN 2 * (m - Iterations') + (IF at' = "measure" THEN 1 ELSE 0) ELSE 0
  BY <1>5 DEF Lengthenings
<1>7. m \in Nat
  BY <1>3
<1> HIDE DEF m
<1>8. CASE Calibrate
  <2>1. at = "calibrate" /\ at' = "measure" /\ Calibrating /\ Calibrating'
    BY <1>8 DEF Calibrate, Calibrating
  <2>2. Iterations' = Longer(Iterations)
    <3> DEFINE r == results[0]
               n == Longer(r.iterations)
               w == [r EXCEPT !.iterations = n]
    <3>1. results'[0] = Entered(w)
      BY <1>1, <1>8 DEF Calibrate
    <3>2. Kept(r, Prepared[conf], Undoes(conf)) /\ Shaped(r)
      BY <1>1 DEF RunInv, MemoryInv, Kept
    <3> HIDE DEF r, n
    <3>3. Kept(w, Prepared[conf], Undoes(conf)) /\ w.iterations = n
      BY <3>2, ResultChanges
    <3> HIDE DEF w
    <3>4. Shaped(w)
      BY <3>3 DEF Kept
    <3>5. WithOutputs(w, NoOutputs).iterations = n
      BY <3>3, <3>4, ResultChanges
    <3> QED BY <3>1, <3>5 DEF Entered, Iterations, r, n
  <2>3. Longer(Iterations) \in Nat /\ Longer(Iterations) > Iterations
    BY <1>1, <1>2, <2>1, LongerFacts, LongerLonger
  <2>4. Lengthenings' < Lengthenings
    BY <1>1, <1>4, <1>6, <1>7, <2>1, <2>2, <2>3
  <2>5. Stage' = Stage
    BY <2>1 DEF Stage
  <2> QED BY <2>4, <2>5 DEF MainAdvances
<1>9. CASE Measured
  <2>1. at = "measure" /\ Calibrating
    BY <1>9 DEF Measured, Calibrating
  <2>2. CASE at' = "calibrate"
    <3>1. Calibrating' /\ Iterations' = Iterations
      BY <1>9, <2>2 DEF Measured, Calibrating, Iterations
    <3>2. Lengthenings' < Lengthenings
      BY <1>1, <1>4, <1>6, <1>7, <2>1, <2>2, <3>1
    <3>3. Stage' = Stage
      BY <2>1, <3>1 DEF Stage
    <3> QED BY <3>2, <3>3 DEF MainAdvances
  <2>3. CASE at' = "start"
    BY <2>1, <2>3 DEF MainAdvances, Stage, Calibrating
  <2> QED BY <1>9, <2>2, <2>3 DEF Measured
<1> QED BY <1>8, <1>9

\* Main's steps once it knows.
LEMMA CallsAdvance ==
    ASSUME RunInv, core_start_parallel \/ Bind \/ AllStarted \/ core_stop_parallel \/ Report
    PROVE  MainAdvances
<1>1. /\ i \in Nat /\ conf.contexts \in Nat /\ i <= conf.contexts /\ (at = "bind" => i < conf.contexts)
  BY ConfFacts DEF RunInv, ShapeInv, ConfigType
<1>2. /\ at \in {"start", "bind", "stop"} /\ at' \in {"start", "bind", "stop", "done"} /\ conf' = conf
  BY DEF core_start_parallel, Bind, AllStarted, core_stop_parallel, Report
<1>3. Lengthenings = 0 /\ Lengthenings' = 0 /\ ~Calibrating /\ ~Calibrating'
  BY <1>2 DEF Lengthenings, Calibrating
<1>4. CASE core_start_parallel
  <2>1. \/ at = "start" /\ at' = "bind" /\ i' = i /\ i < conf.contexts
        \/ at = "start" /\ at' = "start" /\ i' = i + 1 /\ i < conf.contexts
    BY <1>4 DEF core_start_parallel
  <2>2. Calls' < Calls
    BY <1>1, <1>2, <2>1 DEF Calls
  <2>3. Stage' = Stage
    BY <1>3, <2>1 DEF Stage
  <2> QED BY <1>3, <2>2, <2>3 DEF MainAdvances
<1>5. CASE Bind
  <2>1. at = "bind" /\ at' = "start" /\ i' = i + 1
    BY <1>5 DEF Bind
  <2>2. Calls' < Calls
    BY <1>1, <1>2, <2>1 DEF Calls
  <2>3. Stage' = Stage
    BY <1>3, <2>1 DEF Stage
  <2> QED BY <1>3, <2>2, <2>3 DEF MainAdvances
<1>6. CASE AllStarted \/ Report
  <2>1. \/ at = "start" /\ at' = "stop"
        \/ at = "stop" /\ at' = "done"
    BY <1>6 DEF AllStarted, Report
  <2> QED BY <1>3, <2>1 DEF MainAdvances, Stage
<1>7. CASE core_stop_parallel
  <2>1. at = "stop" /\ at' = "stop" /\ i' = i + 1 /\ i < conf.contexts
    BY <1>7 DEF core_stop_parallel
  <2>2. Calls' < Calls
    BY <1>1, <1>2, <2>1 DEF Calls
  <2>3. Stage' = Stage
    BY <1>3, <2>1 DEF Stage
  <2> QED BY <1>3, <2>2, <2>3 DEF MainAdvances
<1> QED BY <1>4, <1>5, <1>6, <1>7

\* A context's steps.
LEMMA WorkerAdvances ==
    ASSUME RunInv, NEW c \in Contexts, Worker(c) PROVE ContextAdvances(c)
<1>1. /\ Iterations \in Nat /\ turn \in [Contexts -> Nat] /\ DOMAIN results = Contexts
      /\ proc \in [Contexts -> {"none", "iterate", "ended"}] /\ 0 \in Contexts
      /\ proc[c] # "none" <=> Started(c) \/ (at = "measure" /\ c = 0)
  BY ConfFacts DEF RunInv, ShapeInv, LengthInv, ProcInv
<1>2. conf' = conf /\ at' = at /\ i' = i /\ proc[c] = "iterate"
  BY DEF Worker, Turn, Exit, Running
<1>3. Memory(c).iterations = Iterations
  <2>1. CASE Started(c)
    BY <2>1 DEF RunInv, WorkInv
  <2>2. CASE at = "measure" /\ c = 0
    <3>1. Memory(c) = results[c]
      BY <2>2, CalibratingFacts DEF Calibrating
    <3> QED BY <2>2, <3>1 DEF Iterations
  <2> QED BY <1>1, <1>2, <2>1, <2>2
<1>4. Iterations' = Iterations
  <2>1. CASE Exit(c)
    BY <2>1 DEF Exit, Iterations
  <2>2. CASE Turn(c)
    <3> DEFINE m == Memory(c)
               n == turn[c]
               s == Iterated(conf, m, n)
    <3>1. results' = results \/ (m = results[c] /\ results' = [results EXCEPT ![c] = s])
      BY <2>2 DEF Turn, Memory
    <3>2. s.iterations = m.iterations
      <4>1. conf \in Configurations /\ Kept(m, Prepared[conf], Undoes(conf))
        BY DEF RunInv, ShapeInv, MemoryInv, Memory, Own
      <4> HIDE DEF m, n
      <4>2. Keeps(Iterated(conf, m, n), m, conf)
        BY <4>1, IteratedKeeps
      <4> QED BY <4>2 DEF Keeps
    <3> HIDE DEF m, s
    <3>3. CASE c = 0
      <4>1. results'[0] = results[0] \/ (m = results[0] /\ results'[0] = s)
        BY <1>1, <3>1, <3>3
      <4> QED BY <3>2, <4>1 DEF Iterations
    <3>4. CASE c # 0
      <4>1. results'[0] = results[0]
        BY <1>1, <3>1, <3>4
      <4> QED BY <4>1 DEF Iterations
    <3> QED BY <3>3, <3>4
  <2> QED BY <2>1, <2>2 DEF Worker
<1>5. Stage' = Stage /\ Lengthenings' = Lengthenings /\ Calls' = Calls
  BY <1>2, <1>4 DEF Stage, Lengthenings, Calls, Calibrating
<1>6. CASE Turn(c)
  <2>1. proc' = proc /\ turn' = [turn EXCEPT ![c] = turn[c] + 1] /\ turn[c] < Iterations
    BY <1>3, <1>6 DEF Turn, Running
  <2>2. ContextLeft(c)' < ContextLeft(c)
    BY <1>1, <1>2, <1>4, <2>1 DEF ContextLeft
  <2>3. \A d \in Contexts : d # c => ContextLeft(d)' = ContextLeft(d)
    BY <1>1, <1>4, <2>1 DEF ContextLeft
  <2> QED BY <1>5, <2>2, <2>3 DEF ContextAdvances
<1>7. CASE Exit(c)
  <2>1. proc' = [proc EXCEPT ![c] = "ended"] /\ turn' = turn
    BY <1>7 DEF Exit
  <2>2. ContextLeft(c)' < ContextLeft(c)
    BY <1>1, <1>2, <1>4, <2>1 DEF ContextLeft
  <2>3. \A d \in Contexts : d # c => ContextLeft(d)' = ContextLeft(d)
    BY <1>1, <1>4, <2>1 DEF ContextLeft
  <2> QED BY <1>5, <2>2, <2>3 DEF ContextAdvances
<1> QED BY <1>6, <1>7 DEF Worker

\* Every step of main and of the contexts brings the report nearer: main
\* tries more iterations each time until they take a second, starts and stops
\* a context once, and a context runs as many iterations as it was given
\* (core_main.c:201-231, linux/core_portme.c:237-322).  As someone can always
\* go on (NeverStuck), a run in which nothing is lost ends if all go on.
THEOREM EveryStepNearer ==
    ASSUME Ten > 1
    PROVE  Spec => /\ [](/\ << Stage, Lengthenings, Calls >> \in Nat \X Nat \X Nat
                         /\ \A c \in Contexts : ContextLeft(c) \in Nat)
                   /\ [][Advances]_vars
<1>1. RunInv => /\ << Stage, Lengthenings, Calls >> \in Nat \X Nat \X Nat
                /\ \A c \in Contexts : ContextLeft(c) \in Nat
  BY LeftType
<1>2. RunInv /\ [Next]_vars => [Advances]_vars
  <2> SUFFICES ASSUME RunInv, Next PROVE Advances
    OBVIOUS
  <2>1. CASE Main
    BY <2>1, MeasuringAdvances, CallsAdvance DEF Main, Advances
  <2>2. CASE \E c \in Contexts : Worker(c)
    BY <2>2, WorkerAdvances DEF Advances
  <2> QED BY <2>1, <2>2 DEF Next
<1> QED BY <1>1, <1>2, RunInvariant, PTL DEF Spec

=============================================================================
