-------------------------- MODULE CoreModelProofs --------------------------
(***************************************************************************)
(* What the C models compute, for every width of a byte: that their        *)
(* multiplications by halves are those of the CPU, that an access of the   *)
(* memory stays in its word, and what each case of the switch leaves.      *)
(***************************************************************************)
EXTENDS CoreCheckProps, SequenceTheorems, TLAPS

----------------------------------------------------------------------------
\* Division.

LEMMA DivModUnique ==
    ASSUME NEW w \in Nat \ {0}, NEW z \in Int, NEW q \in Int, NEW r \in 0 .. w - 1,
           z = w * q + r
    PROVE  z \div w = q /\ z % w = r
<1>1. z = w * (z \div w) + (z % w) /\ z % w \in 0 .. w - 1 /\ z \div w \in Int
  OBVIOUS
<1> DEFINE k == z \div w
           t == z % w
<1>2. w * (k - q) = r - t
  BY <1>1
<1> HIDE DEF k, t
<1>3. k \in Int /\ t \in 0 .. w - 1
  BY <1>1 DEF k, t
<1>4. CASE k - q >= 1
  <2>1. w * (k - q) >= w * 1
    BY <1>3, <1>4
  <2> QED BY <2>1, <1>2, <1>3
<1>5. CASE k - q <= -1
  <2>1. w * (k - q) <= w * (-1)
    BY <1>3, <1>5
  <2> QED BY <2>1, <1>2, <1>3
<1>6. CASE k = q
  BY <1>6, <1>2, <1>3 DEF k, t
<1> QED BY <1>3, <1>4, <1>5, <1>6

LEMMA DivMod ==
    ASSUME NEW w \in Nat \ {0}, NEW z \in Int
    PROVE  z = w * (z \div w) + (z % w) /\ z % w \in 0 .. w - 1 /\ z \div w \in Int
OBVIOUS

LEMMA ModShift ==
    ASSUME NEW w \in Nat \ {0}, NEW z \in Int, NEW q \in Int
    PROVE  (z + w * q) % w = z % w /\ (z + w * q) \div w = (z \div w) + q
<1> DEFINE k == z \div w
           t == z % w
<1>1. z = w * k + t /\ t \in 0 .. w - 1 /\ k \in Int
  OBVIOUS
<1> HIDE DEF k, t
<1>2. z + w * q = w * (k + q) + t /\ k + q \in Int /\ z + w * q \in Int
  BY <1>1
<1>3. (z + w * q) \div w = k + q /\ (z + w * q) % w = t
  BY <1>1, <1>2, DivModUnique
<1> QED BY <1>3 DEF k, t

LEMMA ModSmall ==
    ASSUME NEW w \in Nat \ {0}, NEW z \in 0 .. w - 1
    PROVE  z % w = z /\ z \div w = 0
<1>1. z = w * 0 + z /\ z \in Int
  OBVIOUS
<1> QED BY <1>1, DivModUnique

LEMMA ModPlus ==
    ASSUME NEW w \in Nat \ {0}, NEW x \in Int, NEW y \in Int
    PROVE  ((x % w) + y) % w = (x + y) % w
<1> DEFINE k == x \div w
           t == x % w
<1>1. x = w * k + t /\ t \in Int /\ k \in Int
  BY DivMod
<1> HIDE DEF k, t
<1>2. x + y = (t + y) + w * k /\ t + y \in Int
  <2>1. w * k \in Int
    BY <1>1
  <2> QED BY <1>1, <2>1
<1>3. ((t + y) + w * k) % w = (t + y) % w
  BY <1>1, <1>2, ModShift
<1> QED BY <1>2, <1>3 DEF t

Scales(w, x, y) == ((x % w) * y) % w = (x * y) % w

LEMMA ModTimes ==
    ASSUME NEW w \in Nat \ {0}, NEW x \in Int, NEW y \in Int
    PROVE  Scales(w, x, y)
<1> DEFINE k == x \div w
           t == x % w
<1>1. x = w * k + t /\ t \in Int /\ k \in Int
  BY DivMod
<1> HIDE DEF k, t
<1>2. x * y = t * y + w * (k * y) /\ t * y \in Int /\ k * y \in Int
  <2>1. x * y = (w * k + t) * y
    BY <1>1
  <2> QED BY <1>1, <2>1
<1>3. (t * y + w * (k * y)) % w = (t * y) % w
  BY <1>2, ModShift
<1> QED BY <1>2, <1>3 DEF t, Scales

\* A remainder by a multiple keeps the remainder by the divisor.
LEMMA ModMod ==
    ASSUME NEW n \in Nat \ {0}, NEW w \in Nat \ {0}, NEW x \in Int
    PROVE  \A j \in Nat : w = n * j => (x % w) % n = x % n
<1> DEFINE k == x \div w
           t == x % w
<1>1. x = w * k + t /\ t \in Int /\ k \in Int
  BY DivMod
<1> HIDE DEF k, t
<1> SUFFICES ASSUME NEW j \in Nat, w = n * j PROVE t % n = x % n
  BY DEF t
<1>2. x = t + n * (j * k) /\ j * k \in Int
  <2>1. (n * j) * k = n * (j * k)
    BY <1>1
  <2> QED BY <1>1, <2>1
<1>3. (t + n * (j * k)) % n = t % n
  BY <1>1, <1>2, ModShift
<1> QED BY <1>2, <1>3

----------------------------------------------------------------------------
\* Words.

LEMMA Positive ==
    ASSUME NEW a \in Nat \ {0}, NEW b \in Nat \ {0}
    PROVE  a * b \in Nat \ {0}
<1>1. a * b >= a * 1
  OBVIOUS
<1> QED BY <1>1

LEMMA WordFacts ==
    /\ Byte \in Nat \ {0} /\ Half \in Nat \ {0} /\ W \in Nat \ {0} /\ W >= 16
    /\ W = Half * Half /\ Half = Byte * Byte
    /\ \E k \in Nat : Half = 4 * k /\ W = 4 * (4 * k * k)
<1>1. Byte \in Nat /\ Byte >= 2 /\ Byte % 2 = 0
  BY ByteAssumption
<1> DEFINE b == Byte \div 2
<1>2. b \in Nat /\ Byte = 2 * b
  BY <1>1
<1> HIDE DEF b
<1>3. Half = 4 * (b * b) /\ b * b \in Nat \ {0}
  <2>1. b \in Nat \ {0}
    BY <1>1, <1>2
  <2>2. (2 * b) * (2 * b) = 4 * (b * b)
    BY <2>1
  <2> QED BY <1>2, <2>1, <2>2, Positive DEF Half
<1> DEFINE k == b * b
<1>4. k \in Nat \ {0} /\ Half = 4 * k
  BY <1>3
<1> HIDE DEF k
<1>5. W = 4 * (4 * k * k) /\ W = 16 * (k * k) /\ k * k \in Nat \ {0}
  <2>1. (4 * k) * (4 * k) = 4 * (4 * k * k) /\ (4 * k) * (4 * k) = 16 * (k * k)
    BY <1>4
  <2> QED BY <1>4, <2>1, Positive DEF W
<1> QED BY <1>1, <1>4, <1>5 DEF W, Half

\* Addresses stay aligned.
LEMMA Alignment ==
    ASSUME NEW x \in Int
    PROVE  (x % W) % 4 = x % 4 /\ x % W \in Word
<1>1. PICK k \in Nat : W = 4 * k /\ W \in Nat \ {0}
  <2>1. PICK j \in Nat : W = 4 * (4 * j * j)
    BY WordFacts
  <2>2. 4 * j * j \in Nat
    OBVIOUS
  <2> QED BY <2>1, <2>2, WordFacts
<1> HIDE DEF W
<1>2. (x % W) % 4 = x % 4
  <2>1. 4 \in Nat \ {0}
    OBVIOUS
  <2> QED BY <1>1, <2>1, ModMod, Zenon
<1>3. x % W \in 0 .. W - 1
  BY <1>1, DivMod
<1> QED BY <1>2, <1>3 DEF Word

LEMMA PlusFacts ==
    ASSUME NEW x \in Int, NEW y \in Int
    PROVE  /\ Plus(x, y) \in Word
           /\ Plus(x, y) = Plus(y, x)
           /\ x % 4 = 0 /\ y % 4 = 0 => Plus(x, y) % 4 = 0
<1> HIDE DEF W
<1>1. (x + y) % W \in Word /\ ((x + y) % W) % 4 = (x + y) % 4
  BY Alignment
<1>2. x % 4 = 0 /\ y % 4 = 0 => (x + y) % 4 = 0
  OBVIOUS
<1> QED BY <1>1, <1>2 DEF Plus

LEMMA PlusPlus ==
    ASSUME NEW x \in Int, NEW y \in Int, NEW z \in Int
    PROVE  Plus(Plus(x, y), z) = Plus(x, y + z)
<1> HIDE DEF W
<1>1. x + y \in Int /\ W \in Nat \ {0}
  BY WordFacts
<1>2. (((x + y) % W) + z) % W = ((x + y) + z) % W
  BY <1>1, ModPlus
<1> QED BY <1>2 DEF Plus

----------------------------------------------------------------------------
\* Multiplication by halves.

\* The parts of the product of two numbers of two halves each.
LEMMA Halved ==
    ASSUME NEW H \in Nat, NEW ah \in Int, NEW al \in Int, NEW bh \in Int, NEW bl \in Int
    PROVE  (ah * H + al) * (bh * H + bl)
             = (ah * bh) * (H * H) + (ah * bl + al * bh) * H + al * bl
<1>1. (ah * H + al) * (bh * H + bl) = (ah * H) * (bh * H) + (ah * H) * bl + al * (bh * H) + al * bl
  OBVIOUS
<1>2. (ah * H) * (bh * H) = (ah * bh) * (H * H) /\ (ah * H) * bl = (ah * bl) * H /\ al * (bh * H) = (al * bh) * H
  OBVIOUS
<1>3. (ah * bl + al * bh) * H = (ah * bl) * H + (al * bh) * H
  OBVIOUS
<1> QED BY <1>1, <1>2, <1>3

\* Their sum: the upper word, the lower word and the carry of the middle.
Carry(H, p, q, r)   == (p % H) + (q % H) + (r \div H)
High(H, t, p, q, r) == t + (p \div H) + (q \div H) + (Carry(H, p, q, r) \div H)
Low(H, p, q, r)     == (Carry(H, p, q, r) % H) * H + (r % H)

Sums(H, t, p, q, r) ==
    LET mid == Carry(H, p, q, r)
    IN /\ t * (H * H) + (p + q) * H + r = High(H, t, p, q, r) * (H * H) + Low(H, p, q, r)
       /\ High(H, t, p, q, r) \in Int /\ Low(H, p, q, r) \in 0 .. H * H - 1 /\ mid \in Int
       /\ mid * H + (r % H) = (mid \div H) * (H * H) + Low(H, p, q, r)

LEMMA Carried ==
    ASSUME NEW H \in Nat \ {0}, NEW t \in Int, NEW p \in Int, NEW q \in Int, NEW r \in Int
    PROVE  Sums(H, t, p, q, r)
<1> DEFINE ph == p \div H
           pl == p % H
           qh == q \div H
           ql == q % H
           rh == r \div H
           rl == r % H
           mid == pl + ql + rh
<1>1. /\ p = H * ph + pl /\ pl \in 0 .. H - 1 /\ ph \in Int
      /\ q = H * qh + ql /\ ql \in 0 .. H - 1 /\ qh \in Int
      /\ r = H * rh + rl /\ rl \in 0 .. H - 1 /\ rh \in Int
  BY DivMod
<1> HIDE DEF ph, pl, qh, ql, rh, rl
<1> DEFINE ch == mid \div H
           cl == mid % H
<1>2. mid \in Int /\ mid = pl + ql + rh
  BY <1>1
<1> HIDE DEF mid
<1>3. mid = H * ch + cl /\ cl \in 0 .. H - 1 /\ ch \in Int
  BY <1>2, DivMod
<1> HIDE DEF ch, cl
<1> DEFINE hi == t + ph + qh + ch
           lo == cl * H + rl
<1>4. t * (H * H) + (p + q) * H + r = hi * (H * H) + lo
  <2>1. (p + q) * H = (ph + qh) * (H * H) + (pl + ql) * H
    BY <1>1
  <2>2. (pl + ql) * H + r = mid * H + rl
    BY <1>1, <1>2
  <2>3. mid * H = ch * (H * H) + cl * H
    BY <1>3
  <2>4. t * (H * H) + (ph + qh) * (H * H) + ch * (H * H) = (t + ph + qh + ch) * (H * H)
    BY <1>1, <1>3
  <2> QED BY <2>1, <2>2, <2>3, <2>4, <1>1, <1>2, <1>3
<1>5. lo \in 0 .. H * H - 1
  <2>1. cl * H <= (H - 1) * H /\ cl * H \in Nat
    BY <1>3
  <2> QED BY <2>1, <1>1
<1>6. mid * H + rl = ch * (H * H) + lo
  <2>1. mid * H = ch * (H * H) + cl * H
    BY <1>3
  <2> QED BY <2>1, <1>1, <1>3
<1>7. hi \in Int
  BY <1>1, <1>3
<1> QED BY <1>2, <1>4, <1>5, <1>6, <1>7 DEF Sums, Carry, High, Low, mid, ph, pl, qh, ql, rh, rl, ch, cl

LEMMA HalvesOf ==
    ASSUME NEW a \in Word
    PROVE  /\ a \div Half \in 0 .. Half - 1 /\ a % Half \in 0 .. Half - 1
           /\ a = (a \div Half) * Half + (a % Half)
<1> HIDE DEF W, Half
<1> DEFINE k == a \div Half
           t == a % Half
<1>1. a \in Int /\ a >= 0 /\ a < Half * Half /\ Half \in Nat \ {0}
  BY WordFacts DEF Word
<1>2. a = Half * k + t /\ t \in 0 .. Half - 1 /\ k \in Int
  BY <1>1, DivMod
<1> HIDE DEF k, t
<1>3. k < Half
  <2> SUFFICES ASSUME k >= Half PROVE FALSE
    BY <1>1, <1>2
  <2>1. Half * k >= Half * Half
    BY <1>1, <1>2
  <2> QED BY <2>1, <1>1, <1>2
<1>4. k >= 0
  <2> SUFFICES ASSUME k <= -1 PROVE FALSE
    BY <1>2
  <2>1. Half * k <= Half * (-1)
    BY <1>1, <1>2
  <2> QED BY <2>1, <1>1, <1>2
<1> QED BY <1>1, <1>2, <1>3, <1>4 DEF k, t

LEMMA HalfTimesHalf ==
    ASSUME NEW x \in 0 .. Half - 1, NEW y \in 0 .. Half - 1
    PROVE  x * y \in Word
<1> HIDE DEF W, Half
<1>1. Half \in Nat \ {0} /\ W = Half * Half
  BY WordFacts
<1>2. x * y <= (Half - 1) * y /\ (Half - 1) * y <= (Half - 1) * (Half - 1) /\ x * y \in Nat
  BY <1>1
<1>3. (Half - 1) * (Half - 1) <= Half * Half - 1
  BY <1>1
<1> QED BY <1>1, <1>2, <1>3 DEF Word

\* The multiplication by half words of both models (mult_big) gives LO and HI
\* of the product of the CPU, for every width of a word.
THEOREM MultBig ==
    ASSUME NEW a \in Word, NEW b \in Word
    PROVE  /\ mult_big(a, b).lo = (a * b) % W /\ mult_big(a, b).hi = (a * b) \div W
           /\ (a * b) % W \in Word /\ (a * b) \div W \in Word
<1> HIDE DEF W, Half
<1> DEFINE ah == a \div Half
           al == a % Half
           bh == b \div Half
           bl == b % Half
<1>1. /\ Half \in Nat \ {0} /\ W \in Nat \ {0} /\ W = Half * Half
      /\ Word = 0 .. W - 1
  BY WordFacts DEF Word
<1>2. /\ ah \in 0 .. Half - 1 /\ al \in 0 .. Half - 1 /\ a = ah * Half + al
      /\ bh \in 0 .. Half - 1 /\ bl \in 0 .. Half - 1 /\ b = bh * Half + bl
  BY HalvesOf
<1>3. mult_big(a, b) = Product(Halves(ah, a, bh, b), Logical)
  BY DEF mult_big, Logical
<1> HIDE DEF ah, bh, al, bl
<1> DEFINE t == ah * bh
           p == ah * bl
           q == al * bh
           r == al * bl
           mid == Carry(Half, p, q, r)
           hi == High(Half, t, p, q, r)
           lo == Low(Half, p, q, r)
<1>4. t \in Word /\ p \in Word /\ q \in Word /\ r \in Word
  BY <1>2, HalfTimesHalf
<1>5. t % W = t /\ p % W = p /\ q % W = q /\ r % W = r
  BY <1>1, <1>4, ModSmall
<1>6. Halves(ah, a, bh, b) = [c0 |-> r, c1a |-> p, c1b |-> q, c1 |-> mid, c2 |-> t]
  BY <1>5 DEF Halves, Carry, al, bl
<1>7. Logical[p] = p \div Half /\ Logical[q] = q \div Half
  BY <1>4 DEF Logical
<1>8. /\ Product(Halves(ah, a, bh, b), Logical).hi = hi % W
      /\ Product(Halves(ah, a, bh, b), Logical).lo = (mid * Half + (r % Half)) % W
  BY <1>6, <1>7 DEF Product, High
<1>9. a * b = t * (Half * Half) + (p + q) * Half + r
  <2>1. (ah * Half + al) * (bh * Half + bl) = t * (Half * Half) + (p + q) * Half + r
    BY <1>1, <1>2, Halved
  <2> HIDE DEF t, p, q, r
  <2> QED BY <2>1, <1>2
<1> HIDE DEF t, p, q, r
<1>10. /\ t * (Half * Half) + (p + q) * Half + r = hi * (Half * Half) + lo
       /\ hi \in Int /\ lo \in 0 .. Half * Half - 1 /\ mid \in Int
       /\ mid * Half + (r % Half) = (mid \div Half) * (Half * Half) + lo
  <2>1. t \in Int /\ p \in Int /\ q \in Int /\ r \in Int
    BY <1>1, <1>4
  <2>2. Sums(Half, t, p, q, r)
    BY <1>1, <2>1, Carried
  <2> QED BY <2>2 DEF Sums
<1> DEFINE u == mid \div Half
           v == mid * Half + (r % Half)
<1>11. u \in Int /\ v = u * (Half * Half) + lo
  BY <1>1, <1>10
<1> HIDE DEF mid, hi, lo, u, v
<1>12. a * b = W * hi + lo /\ lo \in 0 .. W - 1 /\ v = lo + W * u
  BY <1>1, <1>9, <1>10, <1>11
<1>13. (a * b) % W = lo /\ (a * b) \div W = hi
  <2>1. a * b \in Int
    BY <1>1
  <2>2. \A x \in Int, j \in Int, z \in 0 .. W - 1 : x = W * j + z => x \div W = j /\ x % W = z
    BY <1>1, DivModUnique
  <2> QED BY <2>1, <2>2, <1>10, <1>12, Zenon
<1>14. v % W = lo
  <2>1. lo \in Int /\ lo % W = lo
    BY <1>1, <1>12, ModSmall
  <2> QED BY <2>1, <1>1, <1>11, <1>12, ModShift
<1>15. hi \in 0 .. W - 1 /\ hi % W = hi
  <2>1. a * b \in 0 .. W * W - 1
    <3>1. a * b <= (W - 1) * b /\ (W - 1) * b <= (W - 1) * (W - 1) /\ a * b \in Nat
      BY <1>1
    <3>2. (W - 1) * (W - 1) <= W * W - 1
      BY <1>1
    <3> QED BY <1>1, <3>1, <3>2
  <2>2. hi < W
    <3> SUFFICES ASSUME hi >= W PROVE FALSE
      BY <1>1, <1>10
    <3>1. W * hi >= W * W
      BY <1>1, <1>10
    <3> QED BY <3>1, <2>1, <1>1, <1>10, <1>12
  <2>3. hi >= 0
    <3> SUFFICES ASSUME hi <= -1 PROVE FALSE
      BY <1>10
    <3>1. W * hi <= W * (-1)
      BY <1>1, <1>10
    <3> QED BY <3>1, <2>1, <1>1, <1>10, <1>12
  <2>4. hi \in 0 .. W - 1
    BY <2>2, <2>3, <1>1, <1>10
  <2> QED BY <2>4, <1>1, ModSmall
<1> QED BY <1>1, <1>3, <1>8, <1>12, <1>13, <1>14, <1>15 DEF v

\* The same of the signed one, whose upper halves are signed.
LEMMA SignedHalf ==
    ASSUME NEW a \in Word
    PROVE  /\ Signed(a) \in Int /\ Signed(a) \div Half \in Int
           /\ Signed(a) = (Signed(a) \div Half) * Half + (a % Half)
           /\ 2 * (Signed(a) \div Half) >= -Half /\ 2 * (Signed(a) \div Half) < Half
<1> HIDE DEF W, Half
<1> DEFINE ah == a \div Half
           al == a % Half
<1>1. /\ Half \in Nat \ {0} /\ W \in Nat \ {0} /\ W = Half * Half /\ a \in 0 .. W - 1
      /\ \E k \in Nat : Half = 4 * k
  BY WordFacts DEF Word
<1>2. ah \in 0 .. Half - 1 /\ al \in 0 .. Half - 1 /\ a = ah * Half + al
  BY HalvesOf
<1> HIDE DEF ah, al
<1> DEFINE g == IF Neg(a) THEN ah - Half ELSE ah
<1>3. Signed(a) = Half * g + al /\ g \in Int /\ Signed(a) \in Int
  <2>1. CASE Neg(a)
    <3>1. Signed(a) = a - Half * Half /\ g = ah - Half
      BY <1>1, <2>1 DEF Signed
    <3>2. Half * (ah - Half) = ah * Half - Half * Half
      BY <1>1, <1>2
    <3> QED BY <1>1, <1>2, <3>1, <3>2
  <2>2. CASE ~Neg(a)
    BY <1>1, <1>2, <2>2 DEF Signed
  <2> QED BY <2>1, <2>2
<1>4. 2 * g >= -Half /\ 2 * g < Half
  <2>1. CASE Neg(a)
    <3>1. 2 * ah >= Half
      <4> SUFFICES ASSUME 2 * ah <= Half - 2 PROVE FALSE
        BY <1>1, <1>2
      <4>1. (2 * ah) * Half <= (Half - 2) * Half
        BY <1>1, <1>2
      <4>2. 2 * a = (2 * ah) * Half + 2 * al /\ 2 * a >= Half * Half
        BY <1>1, <1>2, <2>1 DEF Neg
      <4>3. (Half - 2) * Half = Half * Half - 2 * Half
        BY <1>1
      <4> QED BY <1>1, <1>2, <4>1, <4>2, <4>3
    <3> QED BY <1>1, <1>2, <2>1, <3>1
  <2>2. CASE ~Neg(a)
    <3>1. 2 * ah < Half
      <4> SUFFICES ASSUME 2 * ah >= Half PROVE FALSE
        BY <1>1, <1>2
      <4>1. (2 * ah) * Half >= Half * Half
        BY <1>1, <1>2
      <4>2. 2 * a = (2 * ah) * Half + 2 * al /\ 2 * a < Half * Half
        BY <1>1, <1>2, <2>2 DEF Neg
      <4> QED BY <1>1, <1>2, <4>1, <4>2
    <3> QED BY <1>1, <1>2, <2>2, <3>1
  <2> QED BY <2>1, <2>2
<1> HIDE DEF g
<1>5. Signed(a) \div Half = g
  BY <1>1, <1>2, <1>3, DivModUnique
<1>6. Signed(a) = g * Half + al
  BY <1>1, <1>2, <1>3
<1> HIDE DEF Signed
<1> QED BY <1>3, <1>4, <1>5, <1>6 DEF al

\* A partial product is sign extended, and its upper half kept by >> 16.
LEMMA SignedPartial ==
    ASSUME NEW g \in Int, 2 * g >= -Half, 2 * g < Half, NEW y \in 0 .. Half - 1,
           NEW p, p = g * y
    PROVE  /\ p \in Int /\ p % W \in Word /\ (p % W) % Half = p % Half
           /\ Arithmetic[p % W] = (p \div Half) % W
<1> HIDE DEF W, Half
<1>1. Half \in Nat \ {0} /\ W \in Nat \ {0} /\ W = Half * Half /\ Word = 0 .. W - 1
  BY WordFacts DEF Word
<1>2. p \in Int /\ 2 * p >= -W /\ 2 * p < W
  <2>1. p \in Int /\ 2 * p = (2 * g) * y
    BY <1>1
  <2>2. (2 * g) * y <= Half * y /\ (2 * g) * y >= (-Half) * y
    BY <1>1
  <2>3. Half * y <= Half * (Half - 1)
    BY <1>1
  <2>4. Half * (Half - 1) < W /\ (-Half) * y = -(Half * y)
    BY <1>1
  <2> QED BY <1>1, <2>1, <2>2, <2>3, <2>4
<1>3. p % W \in Word /\ (p % W) % Half = p % Half
  BY <1>1, <1>2, DivMod, ModMod
<1>4. Signed(p % W) = p
  <2>1. CASE p >= 0
    <3>1. \A z \in 0 .. W - 1 : z % W = z
      BY <1>1, ModSmall
    <3>2. p \in 0 .. W - 1
      BY <1>1, <1>2, <2>1
    <3>3. p % W = p
      BY <3>1, <3>2, Zenon
    <3> QED BY <1>1, <1>2, <2>1, <3>3 DEF Signed, Neg
  <2>2. CASE p < 0
    <3>1. p + W * 1 \in 0 .. W - 1 /\ p + W * 1 = p + W
      BY <1>1, <1>2, <2>2
    <3>2. (p + W * 1) % W = p % W
      BY <1>1, <1>2, ModShift
    <3>3. p % W = p + W
      BY <1>1, <3>1, <3>2, ModSmall
    <3> QED BY <1>1, <1>2, <2>2, <3>3 DEF Signed, Neg
  <2> QED BY <1>2, <2>1, <2>2
<1> QED BY <1>2, <1>3, <1>4 DEF Arithmetic

Adds(w, x, y, z, u) == ((x % w) + (y % w) + (z % w) + u) % w = (x + y + z + u) % w

LEMMA ModSum ==
    ASSUME NEW w \in Nat \ {0}, NEW x \in Int, NEW y \in Int, NEW z \in Int, NEW u \in Int
    PROVE  Adds(w, x, y, z, u)
<1> DEFINE i == x % w
           j == y % w
           k == z % w
           e == x \div w
           f == y \div w
           g == z \div w
<1>1. /\ i \in Int /\ j \in Int /\ k \in Int /\ e \in Int /\ f \in Int /\ g \in Int
      /\ x = w * e + i /\ y = w * f + j /\ z = w * g + k
  BY DivMod
<1> HIDE DEF i, j, k, e, f, g
<1> DEFINE l == i + j + k + u
           h == e + f + g
<1>2. l \in Int /\ h \in Int /\ x + y + z + u = l + w * h
  BY <1>1
<1> HIDE DEF l, h
<1>3. (l + w * h) % w = l % w
  BY <1>2, ModShift
<1> QED BY <1>2, <1>3 DEF Adds, l, i, j, k

\* And the signed one (mult_big_signed), with its arithmetic shifts.
THEOREM MultBigSigned ==
    ASSUME NEW a \in Word, NEW b \in Word, NEW x, x = (Signed(a) * Signed(b)) % (W * W)
    PROVE  /\ mult_big_signed(a, b).lo = x % W /\ mult_big_signed(a, b).hi = x \div W
           /\ x % W \in Word /\ x \div W \in Word
<1> HIDE DEF W, Half, Signed
<1> DEFINE ga == Signed(a) \div Half
           al == a % Half
           gb == Signed(b) \div Half
           bl == b % Half
<1>1. /\ Half \in Nat \ {0} /\ W \in Nat \ {0} /\ W = Half * Half /\ Word = 0 .. W - 1
      /\ W * W \in Nat \ {0}
  BY WordFacts, Positive DEF Word
<1>2. /\ al \in 0 .. Half - 1 /\ Signed(a) = ga * Half + al /\ ga \in Int
      /\ 2 * ga >= -Half /\ 2 * ga < Half
      /\ bl \in 0 .. Half - 1 /\ Signed(b) = gb * Half + bl /\ gb \in Int
      /\ 2 * gb >= -Half /\ 2 * gb < Half
      /\ Signed(a) \in Int /\ Signed(b) \in Int /\ al \in Int /\ bl \in Int
  BY SignedHalf, HalvesOf
<1>3. /\ Arithmetic[a] = ga % W /\ Arithmetic[b] = gb % W
      /\ ga % W \in Word /\ gb % W \in Word
  BY <1>1, <1>2, DivMod DEF Arithmetic
<1>4. mult_big_signed(a, b) = Product(Halves(ga % W, a, gb % W, b), Arithmetic)
  BY <1>3 DEF mult_big_signed
<1> HIDE DEF ga, gb, al, bl
<1> DEFINE t == ga * gb
           p == ga * bl
           q == gb * al
           r == al * bl
<1>5. t \in Int /\ r \in Word /\ r % W = r
  <2>1. t \in Int
    BY <1>2
  <2>2. r \in Word
    BY <1>2, HalfTimesHalf
  <2> HIDE DEF t, r
  <2>3. r % W = r
    BY <1>1, <2>2, ModSmall
  <2> QED BY <2>1, <2>2, <2>3
<1>6. /\ p \in Int /\ p % W \in Word /\ (p % W) % Half = p % Half
      /\ Arithmetic[p % W] = (p \div Half) % W
      /\ q \in Int /\ q % W \in Word /\ (q % W) % Half = q % Half
      /\ Arithmetic[q % W] = (q \div Half) % W
  BY <1>2, SignedPartial
<1>7. ((ga % W) * bl) % W = p % W
  <2>1. Scales(W, ga, bl)
    BY <1>1, <1>2, ModTimes
  <2> QED BY <2>1 DEF Scales
<1>8. (al * (gb % W)) % W = q % W
  <2>1. Scales(W, gb, al)
    BY <1>1, <1>2, ModTimes
  <2>2. (gb % W) * al = al * (gb % W)
    BY <1>1, <1>2, <1>3
  <2> QED BY <2>1, <2>2 DEF Scales
<1>9. ((ga % W) * (gb % W)) % W = t % W
  <2>1. Scales(W, ga, gb % W)
    <3>1. gb % W \in Int
      BY <1>1, <1>3
    <3> QED BY <3>1, <1>1, <1>2, ModTimes
  <2>2. Scales(W, gb, ga)
    BY <1>1, <1>2, ModTimes
  <2>3. (gb % W) * ga = ga * (gb % W) /\ gb * ga = ga * gb
    BY <1>1, <1>2, <1>3
  <2> QED BY <2>1, <2>2, <2>3 DEF Scales
<1>10. Signed(a) * Signed(b) = t * (Half * Half) + (p + q) * Half + r
  <2>1. (ga * Half + al) * (gb * Half + bl)
          = (ga * gb) * (Half * Half) + (ga * bl + al * gb) * Half + al * bl
    BY <1>1, <1>2, Halved
  <2>2. al * gb = gb * al
    BY <1>1, <1>2
  <2> QED BY <2>1, <2>2, <1>2
<1> DEFINE mid == Carry(Half, p, q, r)
           hi == High(Half, t, p, q, r)
           lo == Low(Half, p, q, r)
<1> HIDE DEF t, p, q, r
<1>11. Halves(ga % W, a, gb % W, b) = [c0 |-> r, c1a |-> p % W, c1b |-> q % W, c1 |-> mid, c2 |-> t % W]
  BY <1>5, <1>6, <1>7, <1>8, <1>9 DEF Halves, Carry, al, bl, r
<1>12. /\ mult_big_signed(a, b).hi
            = ((t % W) + ((p \div Half) % W) + ((q \div Half) % W) + (mid \div Half)) % W
       /\ mult_big_signed(a, b).lo = (mid * Half + (r % Half)) % W
  BY <1>4, <1>6, <1>11 DEF Product
<1>13. /\ t * (Half * Half) + (p + q) * Half + r = hi * (Half * Half) + lo
       /\ hi \in Int /\ lo \in 0 .. Half * Half - 1 /\ mid \in Int
       /\ mid * Half + (r % Half) = (mid \div Half) * (Half * Half) + lo
  <2>1. t \in Int /\ p \in Int /\ q \in Int /\ r \in Int
    BY <1>1, <1>5, <1>6
  <2>2. Sums(Half, t, p, q, r)
    BY <1>1, <2>1, Carried
  <2> QED BY <2>2 DEF Sums
<1>14. mult_big_signed(a, b).hi = hi % W
  <2> DEFINE i == p \div Half
             j == q \div Half
             k == mid \div Half
  <2>1. t \in Int /\ i \in Int /\ j \in Int /\ k \in Int
    BY <1>1, <1>5, <1>6, <1>13, DivMod
  <2> HIDE DEF mid, i, j, k
  <2>2. Adds(W, t, i, j, k)
    BY <1>1, <2>1, ModSum
  <2> QED BY <1>12, <2>2 DEF Adds, High, mid, i, j, k
<1> DEFINE u == mid \div Half
           v == mid * Half + (r % Half)
           y == Signed(a) * Signed(b)
<1>15. u \in Int /\ v = u * (Half * Half) + lo /\ y = hi * (Half * Half) + lo /\ y \in Int
  BY <1>1, <1>2, <1>10, <1>13
<1>16. mult_big_signed(a, b).lo = v % W /\ x = y % (W * W)
  BY <1>12
<1> HIDE DEF mid, hi, lo, u, v, y
<1>17. lo \in 0 .. W - 1 /\ v = lo + W * u /\ y = W * hi + lo
  BY <1>1, <1>13, <1>15
<1>18. v % W = lo
  <2>1. lo \in Int /\ lo % W = lo
    BY <1>1, <1>17, ModSmall
  <2> QED BY <2>1, <1>1, <1>15, <1>17, ModShift
<1> DEFINE hh == hi \div W
           hl == hi % W
<1>19. hi = W * hh + hl /\ hl \in 0 .. W - 1 /\ hh \in Int
  BY <1>1, <1>13, DivMod
<1> HIDE DEF hh, hl
<1>20. y = (W * W) * hh + (W * hl + lo)
  <2>1. W * (W * hh + hl) = (W * W) * hh + W * hl
    BY <1>1, <1>19
  <2> QED BY <2>1, <1>1, <1>13, <1>17, <1>19
<1>21. W * hl + lo \in 0 .. W * W - 1
  <2>1. W * hl <= W * (W - 1) /\ W * hl \in Nat
    BY <1>1, <1>19
  <2>2. W * (W - 1) + W = W * W
    BY <1>1
  <2> QED BY <2>1, <2>2, <1>1, <1>17
<1>22. x = W * hl + lo
  <2> DEFINE ww == W * W
             z  == W * hl + lo
  <2>1. ww \in Nat \ {0} /\ z \in 0 .. ww - 1 /\ y = ww * hh + z /\ x = y % ww
    BY <1>1, <1>16, <1>20, <1>21
  <2> HIDE DEF ww, z
  <2>2. x = z
    BY <2>1, <1>15, <1>19, DivModUnique
  <2> QED BY <2>2 DEF z
<1>23. x \div W = hl /\ x % W = lo
  <2>1. x \in Int
    BY <1>1, <1>17, <1>19, <1>22
  <2>2. \A i \in Int, j \in Int, k \in 0 .. W - 1 : i = W * j + k => i \div W = j /\ i % W = k
    BY <1>1, DivModUnique
  <2> QED BY <2>1, <2>2, <1>17, <1>19, <1>22
<1> QED BY <1>1, <1>14, <1>16, <1>17, <1>18, <1>19, <1>23 DEF hl

----------------------------------------------------------------------------
\* Accesses of the memory.

Sizes == {Byte, Half, W}

LEMMA SizeFacts ==
    /\ Byte # Half /\ Half # W /\ Byte # W
    /\ Bytes(Byte) = 1 /\ Bytes(Half) = 2 /\ Bytes(W) = 4
    /\ 2 * Half <= W /\ 2 * Byte <= Half
    /\ \A op : Size(op) \in Sizes
<1> HIDE DEF W, Half
<1>1. /\ Byte \in Nat /\ Half \in Nat /\ W \in Nat /\ Byte >= 2
      /\ Half = Byte * Byte /\ W = Half * Half
  BY WordFacts, ByteAssumption
<1>2. Half >= 2 * Byte
  BY <1>1
<1>3. W >= 2 * Half
  <2>1. Half * Half >= 2 * Half
    BY <1>1, <1>2
  <2> QED BY <1>1, <2>1
<1> QED BY <1>1, <1>2, <1>3 DEF Bytes, Size, Sizes

\* An aligned access lies in its word.
LEMMA LaneFits ==
    ASSUME NEW n \in Sizes, NEW a \in Nat, a % Bytes(n) = 0
    PROVE  /\ n \in Nat \ {0} /\ Lane(a) \in Nat \ {0}
           /\ \E k \in Nat : W = k * (n * Lane(a))
<1> HIDE DEF W, Half
<1>1. /\ Byte \in Nat \ {0} /\ Half \in Nat \ {0} /\ W \in Nat \ {0}
      /\ Half = Byte * Byte /\ W = Half * Half
  BY WordFacts
<1>2. Half * Byte \in Nat \ {0}
  BY <1>1, Positive
<1>3. Lane(a) \in {1, Byte, Half, Half * Byte}
  BY DEF Lane
<1>4. CASE n = Byte
  <2>1. Byte * 1 = Byte /\ Byte * Byte = Half /\ Byte * (Half * Byte) = W /\ Byte * Half = Half * Byte
    <3>1. Byte * (Half * Byte) = Half * (Byte * Byte)
      BY <1>1
    <3> QED BY <3>1, <1>1
  <2>2. /\ W = (Half * Byte) * (Byte * 1) /\ W = Half * (Byte * Byte)
        /\ W = Byte * (Byte * Half) /\ W = 1 * (Byte * (Half * Byte))
    <3>1. (Half * Byte) * (Byte * 1) = Half * (Byte * Byte) /\ Byte * (Byte * Half) = (Byte * Byte) * Half
      BY <1>1
    <3> QED BY <3>1, <2>1, <1>1
  <2>3. CASE Lane(a) = 1
    BY <1>1, <1>2, <1>4, <2>2, <2>3
  <2>4. CASE Lane(a) = Byte
    BY <1>1, <1>2, <1>4, <2>2, <2>4
  <2>5. CASE Lane(a) = Half
    BY <1>1, <1>2, <1>4, <2>2, <2>5
  <2>6. CASE Lane(a) = Half * Byte
    BY <1>1, <1>2, <1>4, <2>2, <2>6
  <2> QED BY <1>3, <2>3, <2>4, <2>5, <2>6
<1>5. CASE n = Half
  <2>1. a % 4 = 0 \/ a % 4 = 2
    BY <1>5, SizeFacts
  <2>2. Lane(a) = 1 \/ Lane(a) = Half
    BY <2>1 DEF Lane
  <2>3. W = Half * (Half * 1) /\ W = 1 * (Half * Half)
    BY <1>1
  <2>4. CASE Lane(a) = 1
    BY <1>1, <1>5, <2>3, <2>4
  <2>5. CASE Lane(a) = Half
    BY <1>1, <1>5, <2>3, <2>5
  <2> QED BY <2>2, <2>4, <2>5
<1>6. CASE n = W
  <2>1. Lane(a) = 1 /\ W = 1 * (W * 1)
    BY <1>1, <1>6, SizeFacts DEF Lane
  <2> QED BY <1>1, <1>6, <2>1
<1> QED BY <1>4, <1>5, <1>6 DEF Sizes

LEMMA FieldFacts ==
    ASSUME NEW n \in Sizes, NEW a \in Nat, a % Bytes(n) = 0, NEW w \in Word
    PROVE  /\ Field(w, a, n) \in 0 .. n - 1 /\ Field(w, a, n) % n = Field(w, a, n)
           /\ n = W => Field(w, a, n) = w
           /\ \A v \in Int : PutField(w, a, n, v) \in Word
           /\ \A v \in Word : n = W => PutField(w, a, n, v) = v
           /\ \A y \in Int : ((w + W * y) \div Lane(a)) % n = Field(w, a, n)
<1> HIDE DEF W, Half
<1> DEFINE l == Lane(a)
           h == w \div l
           g == w % l
           f == Field(w, a, n)
<1>1. /\ n \in Nat \ {0} /\ l \in Nat \ {0} /\ w \in 0 .. W - 1 /\ W \in Nat \ {0}
      /\ \E k \in Nat : W = k * (n * l)
  BY LaneFits, WordFacts DEF Word
<1>2. PICK k \in Nat : W = k * (n * l)
  BY <1>1
<1> HIDE DEF l
<1>3. w = l * h + g /\ g \in 0 .. l - 1 /\ h \in Int
  BY <1>1, DivMod
<1>4. f = h % n
  BY DEF Field, l
<1> HIDE DEF h, g, f
<1> DEFINE j == h \div n
<1>5. h = n * j + f /\ f \in 0 .. n - 1 /\ j \in Int
  BY <1>1, <1>3, <1>4, DivMod
<1> HIDE DEF j
<1>6. w = (n * l) * j + (l * f + g) /\ n * l \in Nat \ {0}
  <2>1. l * (n * j + f) = (n * l) * j + l * f
    BY <1>1, <1>5
  <2> QED BY <2>1, <1>1, <1>3, <1>5, Positive
<1>7. j < k /\ j >= 0
  <2> DEFINE z == n * l
  <2>1. z \in Nat \ {0} /\ W = k * z
    BY <1>2, <1>6
  <2>2. l * f + g \in 0 .. z - 1
    <3>1. l * f <= l * (n - 1) /\ l * f \in Nat
      BY <1>1, <1>5
    <3>2. l * (n - 1) = n * l - l
      BY <1>1
    <3> QED BY <3>1, <3>2, <1>1, <1>3
  <2>3. w = z * j + (l * f + g)
    BY <1>6
  <2> DEFINE o == l * f + g
  <2>4. o \in 0 .. z - 1 /\ w = z * j + o
    BY <2>2, <2>3
  <2> HIDE DEF z, o
  <2>5. j < k
    <3> SUFFICES ASSUME j >= k PROVE FALSE
      BY <1>5
    <3>1. z * j >= z * k
      BY <2>1, <1>5
    <3> QED BY <3>1, <2>1, <2>4, <1>1, <1>5
  <2>6. j >= 0
    <3> SUFFICES ASSUME j <= -1 PROVE FALSE
      BY <1>5
    <3>1. z * j <= z * (-1)
      BY <2>1, <1>5
    <3> QED BY <3>1, <2>1, <2>4, <1>1, <1>5
  <2> QED BY <2>5, <2>6
<1>8. ASSUME NEW e \in 0 .. n - 1
      PROVE  w + (e - f) * l \in Word
  <2>1. w + (e - f) * l = (n * l) * j + (l * e + g)
    <3>1. (e - f) * l = l * e - l * f
      BY <1>1, <1>5
    <3> QED BY <3>1, <1>6, <1>1, <1>3, <1>5
  <2>2. l * e <= l * (n - 1) /\ l * e \in Nat
    BY <1>1
  <2>3. l * (n - 1) = n * l - l
    BY <1>1
  <2> DEFINE z == n * l
             o == l * e + g
  <2>4. z \in Nat \ {0} /\ o \in 0 .. z - 1 /\ W = k * z /\ w + (e - f) * l = z * j + o
    BY <1>1, <1>2, <1>3, <1>6, <2>1, <2>2, <2>3
  <2> HIDE DEF z, o
  <2>5. z * j <= z * (k - 1) /\ z * j >= 0 /\ z * j \in Int
    BY <1>5, <1>7, <2>4
  <2>6. z * (k - 1) = W - z
    BY <2>4
  <2> QED BY <2>4, <2>5, <2>6, <1>1 DEF Word
<1>9. ASSUME NEW v \in Int PROVE PutField(w, a, n, v) \in Word
  <2>1. v % n \in 0 .. n - 1
    BY <1>1, DivMod
  <2> QED BY <1>8, <2>1 DEF PutField, f, l
<1>10. ASSUME NEW y \in Int PROVE ((w + W * y) \div l) % n = f
  <2>1. w + W * y = l * (h + n * (k * y)) + g
    <3>1. (k * (n * l)) * y = l * (n * (k * y))
      BY <1>1
    <3>2. l * (h + n * (k * y)) = l * h + l * (n * (k * y))
      BY <1>1, <1>3
    <3> QED BY <3>1, <3>2, <1>1, <1>2, <1>3
  <2> DEFINE x == w + W * y
             o == h + n * (k * y)
  <2>2. x \in Int /\ o \in Int /\ x = l * o + g /\ k * y \in Int
    BY <2>1, <1>1, <1>3
  <2>3. o % n = h % n
    BY <2>2, <1>1, <1>3, ModShift
  <2> HIDE DEF x, o
  <2>4. x \div l = o
    BY <2>2, <1>1, <1>3, DivModUnique
  <2> QED BY <2>3, <2>4, <1>4 DEF x
<1>11. f % n = f
  BY <1>1, <1>5, ModSmall
<1>12. n = W => f = w /\ l = 1
  <2> SUFFICES ASSUME n = W PROVE f = w /\ l = 1
    OBVIOUS
  <2>1. l = 1
    BY SizeFacts DEF Lane, l
  <2>2. h = w
    BY <2>1, <1>1, <1>3
  <2> QED BY <2>1, <2>2, <1>1, <1>4, ModSmall
<1>13. ASSUME NEW v \in Word, n = W PROVE PutField(w, a, n, v) = v
  <2>1. v % n = v /\ v \in Int
    BY <1>1, <1>13, ModSmall DEF Word
  <2>2. PutField(w, a, n, v) = w + (v - w) * 1
    BY <2>1, <1>12, <1>13 DEF PutField, f, l
  <2> QED BY <2>1, <2>2, <1>1
<1> QED BY <1>5, <1>9, <1>10, <1>11, <1>12, <1>13 DEF f, l

\* A byte or a half word that is extended.
LEMMA ExtensionFacts ==
    ASSUME NEW n \in {Byte, Half}, NEW v \in 0 .. n - 1
    PROVE  /\ SignExt(v, n) \in Word
           /\ ~Neg(SignExt(v, n)) => SignExt(v, n) = v
<1> HIDE DEF W, Half
<1>1. /\ n \in Nat /\ W \in Nat /\ 2 * n <= W
  BY WordFacts, SizeFacts
<1> QED BY <1>1 DEF SignExt, Neg, Word

----------------------------------------------------------------------------
(***************************************************************************)
(* The switch, on an instruction the models follow: x is a model, p the    *)
(* address it takes the instruction to be at, and e what the switch works  *)
(* on.                                                                     *)
(***************************************************************************)

EFields == {"r", "next", "hi", "lo", "status", "branch", "lbranch", "jump", "exc",
            "regs", "los", "his", "data"}

Cop0State == [kuc : BOOLEAN, kup : BOOLEAN, kuo : BOOLEAN, cu : BOOLEAN]

CpuType ==
    /\ d \in [ pc : Words, npc : Words, slot : BOOLEAN, r : [GPR -> Word],
               lo : Word, hi : Word, mem : [Words -> Word], cop0 : Cop0State ]
    /\ d.r[0] = 0
    /\ ~d.slot => d.npc = Plus(d.pc, 4)

\* What a model and the CPU have in common, register 0 apart.
Holds(x) == x.r = [d.r EXCEPT ![0] = x.r[0]] /\ x.lo = d.lo /\ x.hi = d.hi

Start(e, p) ==
    /\ DOMAIN e = EFields
    /\ e.r = d.r /\ e.lo = d.lo /\ e.hi = d.hi
    /\ e.next = Plus(p, 4) /\ e.branch = FALSE /\ e.lbranch = 2 /\ e.jump = FALSE /\ e.exc = FALSE
    /\ e.regs = << >> /\ e.los = << >> /\ e.his = << >> /\ e.data = << >>

Followed(ins) ==
    /\ ins \in Instr /\ ~CpuTraps(d, ins)
    /\ ~CauseOf(ins).unsupported /\ ~CauseOf(ins).cop0

Jumps(ins)    == ins.op \in {"J", "JAL", "JR", "JALR"}
Links(ins)    == ins.op \in {"JAL", "JALR", "BLTZAL"}

Computes(e, ins) ==
    /\ e.r = [CpuRegs(d, ins) EXCEPT ![0] = e.r[0]]
    /\ e.lo = CpuNext(d, ins).lo /\ e.hi = CpuNext(d, ins).hi

Pushes(e, ins) ==
    /\ e.regs = CpuEvents(ins).reg
    /\ e.los = CpuEvents(ins).lo /\ e.his = CpuEvents(ins).hi

Goes(e, ins, p) ==
    /\ e.lbranch = 2 /\ e.exc = FALSE
    /\ e.jump <=> Jumps(ins)
    /\ e.branch <=> CpuTaken(d, ins) /\ ~Jumps(ins)
    /\ e.next = IF ~Jumps(ins) THEN Plus(p, 4)
                ELSE IF ins.op \in {"J", "JAL"} THEN Regional(p, ins.imm) ELSE d.r[ins.rs]

LEMMA FreshStart ==
    ASSUME CpuType, NEW x, Holds(x), NEW p
    PROVE  Start(Fresh(x, p), p)
<1>1. [x.r EXCEPT ![0] = 0] = d.r
  BY RegAssumption DEF CpuType, Holds
<1> QED BY <1>1 DEF Start, Fresh, Holds, EFields

LEMMA Operands ==
    ASSUME NEW ins, Followed(ins), CpuType
    PROVE  /\ ins.rs \in GPR /\ ins.rt \in GPR /\ ins.rd \in GPR /\ 0 \in GPR /\ Link \in GPR
           /\ d.r[ins.rs] \in Word /\ d.r[ins.rt] \in Word /\ ins.imm \in Word
BY RegAssumption DEF Followed, Instr, CpuType

\* What the CPU does, when it takes no exception.
LEMMA CpuDoes ==
    ASSUME NEW ins, ~CpuTraps(d, ins)
    PROVE  /\ CpuNext(d, ins).r = CpuRegs(d, ins) /\ CpuNext(d, ins).pc = d.npc
           /\ CpuNext(d, ins).mem = CpuMem(d, ins)
           /\ CpuNext(d, ins).slot = CpuTaken(d, ins)
           /\ CpuNext(d, ins).npc = IF CpuTaken(d, ins) THEN CpuTarget(d, ins) ELSE Plus(d.npc, 4)
           /\ CpuEvents(ins).inst = << d.pc >> /\ CpuEvents(ins).data = CpuData(d, ins)
           /\ CpuEvents(ins).reg = CpuWrites(d, ins)
BY DEF CpuNext, CpuEvents

LEMMA CpuLoHi ==
    ASSUME NEW ins, ~CpuTraps(d, ins), ins.op \notin {"MULT", "MULTU", "MTLO"}
    PROVE  /\ CpuNext(d, ins).lo = d.lo /\ CpuNext(d, ins).hi = d.hi
           /\ CpuEvents(ins).lo = << >> /\ CpuEvents(ins).hi = << >>
BY DEF CpuNext, CpuEvents, Multiplies

LEMMA CpuWritten ==
    ASSUME CpuType, NEW ins, NEW i \in GPR, NEW v, CpuWrites(d, ins) = << << i, v >> >>
    PROVE  /\ \A g : g = [d.r EXCEPT ![i] = v] => g = [CpuRegs(d, ins) EXCEPT ![0] = g[0]]
           /\ i = 0 => CpuRegs(d, ins) = d.r
<1>1. CpuRegs(d, ins) = [[d.r EXCEPT ![i] = v] EXCEPT ![0] = 0]
  BY DEF CpuRegs
<1> QED BY <1>1, RegAssumption DEF CpuType

LEMMA CpuKept ==
    ASSUME CpuType, NEW ins, CpuWrites(d, ins) = << >>
    PROVE  CpuRegs(d, ins) = d.r
BY DEF CpuRegs

LEMMA Same0 == CpuType => d.r = [d.r EXCEPT ![0] = d.r[0]]
BY RegAssumption DEF CpuType

\* What a write of a register changes.
Writes(f, e, i, v) ==
    /\ DOMAIN f = EFields /\ f.r = [e.r EXCEPT ![i] = v] /\ f.regs = Append(e.regs, << i, v >>)
    /\ f.lo = e.lo /\ f.hi = e.hi /\ f.next = e.next /\ f.branch = e.branch
    /\ f.lbranch = e.lbranch /\ f.jump = e.jump /\ f.exc = e.exc
    /\ f.los = e.los /\ f.his = e.his /\ f.data = e.data

\* What a push without a write changes.
Shows(f, e, i, v) ==
    /\ DOMAIN f = EFields /\ f.r = e.r /\ f.regs = Append(e.regs, << i, v >>)
    /\ f.lo = e.lo /\ f.hi = e.hi /\ f.next = e.next /\ f.branch = e.branch
    /\ f.lbranch = e.lbranch /\ f.jump = e.jump /\ f.exc = e.exc
    /\ f.los = e.los /\ f.his = e.his /\ f.data = e.data

LEMMA PutWrites ==
    ASSUME NEW e, DOMAIN e = EFields, NEW i, NEW v
    PROVE  Writes(Put(e, i, v), e, i, v) /\ Shows(Push(e, i, v), e, i, v)
BY DEF Put, Push, EFields, Writes, Shows

\* An operation that writes one register, and no more.
LEMMA WriteFollows ==
    ASSUME CpuType, NEW p, NEW e, Start(e, p), NEW ins, Followed(ins),
           ins.op \notin {"MULT", "MULTU", "MTLO"}, ~Jumps(ins), ~CpuTaken(d, ins),
           NEW i \in GPR, NEW v, CpuWrites(d, ins) = << << i, v >> >>,
           NEW f, Writes(f, e, i, v)
    PROVE  /\ Computes(f, ins) /\ Pushes(f, ins) /\ Goes(f, ins, p) /\ f.data = << >>
<1>1. ~CpuTraps(d, ins)
  BY DEF Followed
<1>2. f.r = [d.r EXCEPT ![i] = v] /\ f.lo = d.lo /\ f.hi = d.hi
  BY DEF Writes, Start
<1>3. Computes(f, ins)
  BY <1>1, <1>2, CpuLoHi, CpuWritten DEF Computes
<1>4. Pushes(f, ins)
  BY <1>1, CpuLoHi, CpuDoes DEF Pushes, Writes, Start
<1> QED BY <1>3, <1>4 DEF Goes, Writes, Start

\* The operations on registers.
LEMMA AluFollows ==
    ASSUME CpuType, NEW p, NEW e, Start(e, p), NEW ins, Followed(ins),
           ins.op \in AluOps \cup ImmOps \cup {"MFLO"}, NEW ptr, NEW v
    PROVE  LET f == Switch(e, ins, p, ptr, v)
           IN /\ Computes(f, ins) /\ Pushes(f, ins) /\ Goes(f, ins, p) /\ f.data = << >>
<1>1. ins.rt \in GPR /\ ins.rd \in GPR
  BY Operands
<1>2. ~Jumps(ins) /\ ~CpuTaken(d, ins) /\ ins.op \notin {"MULT", "MULTU", "MTLO"}
  BY DEF Jumps, CpuTaken, AluOps, ImmOps
<1> DEFINE f == Switch(e, ins, p, ptr, v)
<1>3. \E i \in GPR : \E w : CpuWrites(d, ins) = << << i, w >> >> /\ f = Put(e, i, w)
  <2>1. CASE ins.op \in AluOps
    <3>1. f = Put(e, ins.rd, Alu(ins, d.r[ins.rs], d.r[ins.rt]))
      BY <2>1 DEF Switch, SpecialOps, AluOps, ImmOps, Cop0Ops, Breaks, RegImmOps, BranchOps, LoadOps, StoreOps, Special, Multiplies, Start
    <3>2. CpuWrites(d, ins) = << << ins.rd, Alu(ins, d.r[ins.rs], d.r[ins.rt]) >> >>
      BY <2>1 DEF CpuWrites, CpuOperand, AluOps, ImmOps, LoadOps
    <3> QED BY <3>1, <3>2, <1>1
  <2>2. CASE ins.op = "MFLO"
    <3>1. f = Put(e, ins.rd, d.lo)
      BY <2>2 DEF Switch, SpecialOps, AluOps, ImmOps, Cop0Ops, Breaks, RegImmOps, BranchOps, LoadOps, StoreOps, Special, Multiplies, Start
    <3>2. CpuWrites(d, ins) = << << ins.rd, d.lo >> >>
      BY <2>2 DEF CpuWrites, AluOps, ImmOps, LoadOps
    <3> QED BY <3>1, <3>2, <1>1
  <2>3. CASE ins.op \in ImmOps
    <3>1. f = Put(e, ins.rt, Plus(d.r[ins.rs], ins.imm))
      BY <2>3 DEF Switch, SpecialOps, AluOps, ImmOps, Cop0Ops, RegImmOps, BranchOps, LoadOps, StoreOps, Immediate, Start
    <3>2. CpuWrites(d, ins) = << << ins.rt, Plus(d.r[ins.rs], ins.imm) >> >>
      BY <2>3 DEF CpuWrites, CpuOperand, Alu, AluOps, ImmOps, LoadOps
    <3> QED BY <3>1, <3>2, <1>1
  <2> QED BY <2>1, <2>2, <2>3
<1>4. PICK i \in GPR : \E w : CpuWrites(d, ins) = << << i, w >> >> /\ f = Put(e, i, w)
  BY <1>3
<1>5. PICK w : CpuWrites(d, ins) = << << i, w >> >> /\ f = Put(e, i, w)
  BY <1>4
<1> HIDE DEF f
<1>6. Writes(f, e, i, w)
  BY <1>5, PutWrites DEF Start
<1> QED BY <1>2, <1>5, <1>6, WriteFollows DEF f

\* What a write of LO or HI changes.
WritesLo(f, e, v) ==
    /\ DOMAIN f = EFields /\ f.lo = v /\ f.los = Append(e.los, v)
    /\ f.r = e.r /\ f.hi = e.hi /\ f.next = e.next /\ f.branch = e.branch
    /\ f.lbranch = e.lbranch /\ f.jump = e.jump /\ f.exc = e.exc
    /\ f.regs = e.regs /\ f.his = e.his /\ f.data = e.data

WritesHi(f, e, v) ==
    /\ DOMAIN f = EFields /\ f.hi = v /\ f.his = Append(e.his, v)
    /\ f.r = e.r /\ f.lo = e.lo /\ f.next = e.next /\ f.branch = e.branch
    /\ f.lbranch = e.lbranch /\ f.jump = e.jump /\ f.exc = e.exc
    /\ f.regs = e.regs /\ f.los = e.los /\ f.data = e.data

LEMMA PutLoHiWrites ==
    ASSUME NEW e, DOMAIN e = EFields, NEW v
    PROVE  WritesLo(PutLo(e, v), e, v) /\ WritesHi(PutHi(e, v), e, v)
BY DEF PutLo, PutHi, EFields, WritesLo, WritesHi

\* The operations on LO and HI.
LEMMA LoHiFollows ==
    ASSUME CpuType, NEW p, NEW e, Start(e, p), NEW ins, Followed(ins),
           ins.op \in {"MTLO", "MULT", "MULTU"}, NEW ptr, NEW v
    PROVE  LET f == Switch(e, ins, p, ptr, v)
           IN /\ Computes(f, ins) /\ Pushes(f, ins) /\ Goes(f, ins, p) /\ f.data = << >>
<1> DEFINE a == d.r[ins.rs]
           b == d.r[ins.rt]
           f == Switch(e, ins, p, ptr, v)
<1>1. ~Jumps(ins) /\ ~CpuTaken(d, ins) /\ ~CpuTraps(d, ins) /\ DOMAIN e = EFields
  BY DEF Jumps, CpuTaken, Followed, Start
<1>2. a \in Word /\ b \in Word /\ 0 \in GPR
  BY Operands
<1>3. CASE ins.op = "MTLO"
  <2> DEFINE g == Push(e, 0, a)
  <2>1. f = PutLo(g, a)
    BY <1>3 DEF Switch, SpecialOps, AluOps, ImmOps, Cop0Ops, Breaks, RegImmOps, BranchOps, LoadOps, StoreOps, Special, Multiplies, Start
  <2>2. CpuWrites(d, ins) = << << 0, a >> >>
    BY <1>3 DEF CpuWrites, AluOps, ImmOps, LoadOps
  <2>3. /\ CpuNext(d, ins).lo = a /\ CpuNext(d, ins).hi = d.hi
        /\ CpuEvents(ins).lo = << a >> /\ CpuEvents(ins).hi = << >>
    BY <1>1, <1>3 DEF CpuNext, CpuEvents, Multiplies
  <2> HIDE DEF a, f
  <2>4. Shows(g, e, 0, a)
    BY <1>1, PutWrites
  <2> HIDE DEF g
  <2>5. WritesLo(f, g, a)
    BY <2>1, <2>4, PutLoHiWrites DEF Shows
  <2>6. /\ f.r = d.r /\ f.lo = a /\ f.hi = d.hi /\ f.los = << a >> /\ f.his = << >>
        /\ f.regs = << << 0, a >> >> /\ f.data = << >>
    BY <2>4, <2>5 DEF Start, Shows, WritesLo
  <2>7. CpuRegs(d, ins) = d.r
    BY <1>2, <2>2, CpuWritten
  <2>8. Computes(f, ins)
    BY <2>3, <2>6, <2>7, Same0 DEF Computes
  <2>9. Pushes(f, ins)
    BY <1>1, <2>2, <2>3, <2>6, CpuDoes DEF Pushes
  <2>10. Goes(f, ins, p)
    BY <1>1, <2>4, <2>5 DEF Goes, Start, Shows, WritesLo
  <2> QED BY <2>6, <2>8, <2>9, <2>10 DEF f
<1>4. CASE ins.op \in {"MULT", "MULTU"}
  <2> DEFINE y == IF ins.op = "MULT" THEN mult_big_signed(a, b) ELSE mult_big(a, b)
             x == CpuProduct(d, ins)
             g == Push(e, 0, 0)
             h == PutLo(g, y.lo)
  <2>1. f = PutHi(PutLo(Push(e, 0, 0), y.lo), y.hi)
    BY <1>4 DEF Switch, SpecialOps, AluOps, ImmOps, Cop0Ops, Breaks, RegImmOps, BranchOps, LoadOps, StoreOps, Special, Multiplies, Start
  <2>2. y.lo = x % W /\ y.hi = x \div W
    <3>1. CASE ins.op = "MULT"
      <4>1. x = (Signed(a) * Signed(b)) % (W * W) /\ y = mult_big_signed(a, b)
        BY <3>1 DEF CpuProduct
      <4> HIDE DEF x, y, a, b
      <4> QED BY <1>2, <4>1, MultBigSigned
    <3>2. CASE ins.op = "MULTU"
      <4>1. x = a * b /\ y = mult_big(a, b)
        BY <3>2 DEF CpuProduct
      <4> HIDE DEF y, a, b
      <4>2. /\ mult_big(a, b).lo = (a * b) % W /\ mult_big(a, b).hi = (a * b) \div W
        BY <1>2, MultBig
      <4> QED BY <4>1, <4>2
    <3> QED BY <1>4, <3>1, <3>2
  <2>3. CpuWrites(d, ins) = << << 0, 0 >> >>
    BY <1>4 DEF CpuWrites, AluOps, ImmOps, LoadOps
  <2>4. /\ CpuNext(d, ins).lo = x % W /\ CpuNext(d, ins).hi = x \div W
        /\ CpuEvents(ins).lo = << x % W >> /\ CpuEvents(ins).hi = << x \div W >>
    BY <1>1, <1>4 DEF CpuNext, CpuEvents, Multiplies
  <2>5. f = PutHi(h, y.hi)
    BY <2>1
  <2> HIDE DEF a, b, f, x, y
  <2>6. Shows(g, e, 0, 0)
    BY <1>1, PutWrites
  <2> HIDE DEF g
  <2>7. WritesLo(h, g, x % W)
    BY <2>2, <2>6, PutLoHiWrites DEF Shows
  <2> HIDE DEF h
  <2>8. WritesHi(f, h, x \div W)
    BY <2>2, <2>5, <2>7, PutLoHiWrites DEF WritesLo
  <2>9. /\ f.r = d.r /\ f.lo = x % W /\ f.hi = x \div W
        /\ f.los = << x % W >> /\ f.his = << x \div W >>
        /\ f.regs = << << 0, 0 >> >> /\ f.data = << >>
    BY <2>6, <2>7, <2>8 DEF Start, Shows, WritesLo, WritesHi
  <2>10. CpuRegs(d, ins) = d.r
    BY <1>2, <2>3, CpuWritten
  <2>11. Computes(f, ins)
    BY <2>4, <2>9, <2>10, Same0 DEF Computes
  <2>12. Pushes(f, ins)
    BY <1>1, <2>3, <2>4, <2>9, CpuDoes DEF Pushes
  <2>13. Goes(f, ins, p)
    BY <1>1, <2>6, <2>7, <2>8 DEF Goes, Start, Shows, WritesLo, WritesHi
  <2> QED BY <2>9, <2>11, <2>12, <2>13 DEF f
<1> QED BY <1>3, <1>4

\* What a jump and what a branch change.
TurnsTo(f, e, n) ==
    /\ DOMAIN f = EFields /\ f.next = n /\ f.jump = TRUE
    /\ f.r = e.r /\ f.lo = e.lo /\ f.hi = e.hi /\ f.branch = e.branch
    /\ f.lbranch = e.lbranch /\ f.exc = e.exc
    /\ f.regs = e.regs /\ f.los = e.los /\ f.his = e.his /\ f.data = e.data

BranchesIf(f, e, b) ==
    /\ DOMAIN f = EFields /\ (f.branch <=> b)
    /\ f.r = e.r /\ f.lo = e.lo /\ f.hi = e.hi /\ f.next = e.next /\ f.jump = e.jump
    /\ f.lbranch = e.lbranch /\ f.exc = e.exc
    /\ f.regs = e.regs /\ f.los = e.los /\ f.his = e.his /\ f.data = e.data

LEMMA Turns ==
    ASSUME NEW e, DOMAIN e = EFields, NEW n
    PROVE  TurnsTo([e EXCEPT !.next = n, !.jump = TRUE], e, n)
BY DEF EFields, TurnsTo

LEMMA BranchesOn ==
    ASSUME NEW e, DOMAIN e = EFields, NEW b
    PROVE  BranchesIf([e EXCEPT !.branch = b], e, b)
BY DEF EFields, BranchesIf

\* A link is written before the target of the jump is read.
LEMMA LinkWrites ==
    ASSUME CpuType, NEW p, p = d.pc, NEW e, Start(e, p), NEW i \in GPR
    PROVE  Writes(PutLink(e, i), e, i, Plus(p, 8))
<1>1. p \in Int /\ e.next = Plus(p, 4) /\ DOMAIN e = EFields
  BY DEF CpuType, Start, Words, Word
<1>2. Plus(Plus(p, 4), 4) = Plus(p, 8)
  <2>1. p \in Int /\ 4 \in Int
    BY <1>1
  <2>2. Plus(Plus(p, 4), 4) = Plus(p, 4 + 4)
    BY <2>1, PlusPlus, Zenon
  <2> QED BY <2>2
<1> QED BY <1>1, <1>2, PutWrites DEF PutLink

\* The jumps.
LEMMA JumpFollows ==
    ASSUME CpuType, NEW p, NEW e, Start(e, p), NEW ins, Followed(ins), Jumps(ins),
           Links(ins) => p = d.pc, NEW ptr, NEW v
    PROVE  LET f == Switch(e, ins, p, ptr, v)
           IN /\ Computes(f, ins) /\ Pushes(f, ins) /\ Goes(f, ins, p) /\ f.data = << >>
<1> DEFINE f == Switch(e, ins, p, ptr, v)
           n == IF ins.op \in {"J", "JAL"} THEN Regional(p, ins.imm) ELSE d.r[ins.rs]
<1>1. CpuTaken(d, ins) /\ ~CpuTraps(d, ins) /\ DOMAIN e = EFields /\ e.r = d.r
  BY DEF Jumps, CpuTaken, Followed, Start
<1>2. /\ CpuNext(d, ins).lo = d.lo /\ CpuNext(d, ins).hi = d.hi
      /\ CpuEvents(ins).lo = << >> /\ CpuEvents(ins).hi = << >>
      /\ CpuEvents(ins).reg = CpuWrites(d, ins)
  BY <1>1, CpuLoHi, CpuDoes DEF Jumps
<1>3. ins.rs \in GPR /\ ins.rd \in GPR /\ Link \in GPR /\ 0 \in GPR
  BY Operands
<1>4. ASSUME NEW g, TurnsTo(f, g, n),
             g.lo = d.lo /\ g.hi = d.hi /\ g.branch = FALSE /\ g.lbranch = 2 /\ g.exc = FALSE
               /\ g.los = << >> /\ g.his = << >> /\ g.data = << >>,
             g.r = [CpuRegs(d, ins) EXCEPT ![0] = g.r[0]], g.regs = CpuWrites(d, ins)
      PROVE  Computes(f, ins) /\ Pushes(f, ins) /\ Goes(f, ins, p) /\ f.data = << >>
  <2> HIDE DEF f
  <2>1. Computes(f, ins) /\ Pushes(f, ins) /\ f.data = << >>
    BY <1>2, <1>4 DEF Computes, Pushes, TurnsTo
  <2>2. Goes(f, ins, p)
    BY <1>1, <1>4 DEF Goes, TurnsTo
  <2> QED BY <2>1, <2>2
<1>5. CASE ins.op = "JR"
  <2> DEFINE g == Push(e, 0, 0)
  <2>1. f = [g EXCEPT !.next = n, !.jump = TRUE]
    BY <1>1, <1>5 DEF Switch, SpecialOps, AluOps, ImmOps, Cop0Ops, Breaks, RegImmOps, BranchOps, LoadOps, StoreOps, Special, Multiplies
  <2>2. CpuWrites(d, ins) = << << 0, 0 >> >>
    BY <1>5 DEF CpuWrites, AluOps, ImmOps, LoadOps
  <2>3. Shows(g, e, 0, 0)
    BY <1>1, PutWrites
  <2> HIDE DEF g, n, f
  <2>4. TurnsTo(f, g, n)
    BY <2>1, <2>3, Turns DEF Shows
  <2>5. CpuRegs(d, ins) = d.r
    BY <1>3, <2>2, CpuWritten
  <2>6. g.r = [CpuRegs(d, ins) EXCEPT ![0] = g.r[0]] /\ g.regs = CpuWrites(d, ins)
    BY <1>1, <2>2, <2>3, <2>5, Same0 DEF Shows, Start
  <2> QED BY <1>4, <2>3, <2>4, <2>6 DEF Shows, Start, f, n
<1>6. CASE ins.op \in {"JALR", "JAL"}
  <2> DEFINE i == IF ins.op = "JAL" THEN Link ELSE ins.rd
             g == PutLink(e, i)
  <2>1. i \in GPR /\ p = d.pc
    BY <1>3, <1>6 DEF Links
  <2>2. Writes(g, e, i, Plus(p, 8))
    BY <2>1, LinkWrites
  <2>3. f = [g EXCEPT !.next = n, !.jump = TRUE]
    <3>1. CASE ins.op = "JAL"
      BY <3>1 DEF Switch, SpecialOps, AluOps, ImmOps, Cop0Ops, Breaks, RegImmOps, BranchOps, LoadOps, StoreOps, Branches
    <3>2. CASE ins.op = "JALR"
      <4>1. f = [PutLink(e, ins.rd) EXCEPT !.next = PutLink(e, ins.rd).r[ins.rs], !.jump = TRUE]
        BY <3>2 DEF Switch, SpecialOps, AluOps, ImmOps, Cop0Ops, Breaks, RegImmOps, BranchOps, LoadOps, StoreOps, Special, Multiplies
      <4>2. ins.rd # ins.rs /\ i = ins.rd /\ n = d.r[ins.rs]
        BY <3>2 DEF Followed, CauseOf
      <4>3. PutLink(e, ins.rd).r[ins.rs] = d.r[ins.rs]
        BY <1>1, <1>3, <2>2, <4>2 DEF Writes, CpuType
      <4> QED BY <4>1, <4>2, <4>3
    <3> QED BY <1>6, <3>1, <3>2
  <2>4. CpuWrites(d, ins) = << << i, Plus(p, 8) >> >>
    BY <1>6, <2>1 DEF CpuWrites, AluOps, ImmOps, LoadOps
  <2> HIDE DEF f, g, i, n
  <2>5. TurnsTo(f, g, n)
    BY <2>2, <2>3, Turns DEF Writes
  <2>6. g.r = [d.r EXCEPT ![i] = Plus(p, 8)] /\ g.regs = CpuWrites(d, ins)
    BY <1>1, <2>2, <2>4 DEF Writes, Start
  <2>7. g.r = [CpuRegs(d, ins) EXCEPT ![0] = g.r[0]]
    BY <2>1, <2>4, <2>6, CpuWritten
  <2>8. /\ g.lo = d.lo /\ g.hi = d.hi /\ g.branch = FALSE /\ g.lbranch = 2 /\ g.exc = FALSE
        /\ g.los = << >> /\ g.his = << >> /\ g.data = << >>
    BY <2>2 DEF Writes, Start
  <2>9. Computes(f, ins) /\ Pushes(f, ins) /\ Goes(f, ins, p) /\ f.data = << >>
    BY <1>4, <2>5, <2>6, <2>7, <2>8
  <2> QED BY <2>9 DEF f
<1>7. CASE ins.op = "J"
  <2>1. f = [e EXCEPT !.next = n, !.jump = TRUE]
    BY <1>7 DEF Switch, SpecialOps, AluOps, ImmOps, Cop0Ops, Breaks, RegImmOps, BranchOps, LoadOps, StoreOps, Branches
  <2>2. CpuWrites(d, ins) = << >>
    BY <1>7 DEF CpuWrites, AluOps, ImmOps, LoadOps
  <2> HIDE DEF f, n
  <2>3. TurnsTo(f, e, n)
    BY <1>1, <2>1, Turns
  <2>4. e.r = [CpuRegs(d, ins) EXCEPT ![0] = e.r[0]] /\ e.regs = CpuWrites(d, ins)
    BY <2>2, CpuKept, Same0 DEF Start
  <2> QED BY <1>4, <2>3, <2>4 DEF Start, f, n
<1> QED BY <1>5, <1>6, <1>7 DEF Jumps

\* The branches, and the instruction that does nothing.
LEMMA BranchFollows ==
    ASSUME CpuType, NEW p, NEW e, Start(e, p), NEW ins, Followed(ins),
           ins.op \in {"BEQ", "BLTZ", "BLTZAL", "NOP", "COP"},
           Links(ins) => p = d.pc, NEW ptr, NEW v
    PROVE  LET f == Switch(e, ins, p, ptr, v)
           IN /\ Computes(f, ins) /\ Pushes(f, ins) /\ Goes(f, ins, p) /\ f.data = << >>
<1> DEFINE f == Switch(e, ins, p, ptr, v)
           taken == CpuTaken(d, ins)
<1>1. ~Jumps(ins) /\ ~CpuTraps(d, ins) /\ DOMAIN e = EFields /\ e.r = d.r
  BY DEF Jumps, Followed, Start
<1>2. /\ CpuNext(d, ins).lo = d.lo /\ CpuNext(d, ins).hi = d.hi
      /\ CpuEvents(ins).lo = << >> /\ CpuEvents(ins).hi = << >>
      /\ CpuEvents(ins).reg = CpuWrites(d, ins)
  BY <1>1, CpuLoHi, CpuDoes
<1>3. ins.rs \in GPR /\ ins.rt \in GPR /\ Link \in GPR /\ 0 \in GPR
  BY Operands
<1>4. ASSUME NEW g, BranchesIf(f, g, taken),
             g.lo = d.lo /\ g.hi = d.hi /\ g.jump = FALSE /\ g.lbranch = 2 /\ g.exc = FALSE
               /\ g.next = Plus(p, 4) /\ g.los = << >> /\ g.his = << >> /\ g.data = << >>,
             g.r = [CpuRegs(d, ins) EXCEPT ![0] = g.r[0]], g.regs = CpuWrites(d, ins)
      PROVE  Computes(f, ins) /\ Pushes(f, ins) /\ Goes(f, ins, p) /\ f.data = << >>
  <2> HIDE DEF f
  <2>1. Computes(f, ins) /\ Pushes(f, ins) /\ f.data = << >>
    BY <1>2, <1>4 DEF Computes, Pushes, BranchesIf
  <2>2. Goes(f, ins, p)
    BY <1>1, <1>4 DEF Goes, BranchesIf
  <2> QED BY <2>1, <2>2
<1>5. CASE ins.op = "BEQ"
  <2>1. f = [e EXCEPT !.branch = (d.r[ins.rs] = d.r[ins.rt])]
    BY <1>1, <1>5 DEF Switch, SpecialOps, AluOps, ImmOps, Cop0Ops, Breaks, RegImmOps, BranchOps, LoadOps, StoreOps, Branches
  <2>2. CpuWrites(d, ins) = << >> /\ (taken <=> d.r[ins.rs] = d.r[ins.rt])
    BY <1>5 DEF CpuWrites, AluOps, ImmOps, LoadOps, CpuTaken
  <2> HIDE DEF f
  <2>3. BranchesIf(f, e, d.r[ins.rs] = d.r[ins.rt])
    BY <1>1, <2>1, BranchesOn
  <2>4. BranchesIf(f, e, taken)
    BY <2>2, <2>3 DEF BranchesIf
  <2>5. e.r = [CpuRegs(d, ins) EXCEPT ![0] = e.r[0]] /\ e.regs = CpuWrites(d, ins)
    BY <2>2, CpuKept, Same0 DEF Start
  <2> QED BY <1>4, <2>4, <2>5 DEF Start, f
<1>6. CASE ins.op = "BLTZ"
  <2>1. f = [e EXCEPT !.branch = Neg(d.r[ins.rs])]
    BY <1>1, <1>6 DEF Switch, SpecialOps, AluOps, ImmOps, Cop0Ops, Breaks, RegImmOps, BranchOps, LoadOps, StoreOps, RegImm
  <2>2. CpuWrites(d, ins) = << >> /\ (taken <=> Neg(d.r[ins.rs]))
    BY <1>6 DEF CpuWrites, AluOps, ImmOps, LoadOps, CpuTaken
  <2> HIDE DEF f
  <2>3. BranchesIf(f, e, Neg(d.r[ins.rs]))
    BY <1>1, <2>1, BranchesOn
  <2>4. BranchesIf(f, e, taken)
    BY <2>2, <2>3 DEF BranchesIf
  <2>5. e.r = [CpuRegs(d, ins) EXCEPT ![0] = e.r[0]] /\ e.regs = CpuWrites(d, ins)
    BY <2>2, CpuKept, Same0 DEF Start
  <2> QED BY <1>4, <2>4, <2>5 DEF Start, f
<1>7. CASE ins.op = "BLTZAL"
  <2> DEFINE g == PutLink(e, Link)
  <2>1. f = [g EXCEPT !.branch = Neg(g.r[ins.rs])]
    BY <1>7 DEF Switch, SpecialOps, AluOps, ImmOps, Cop0Ops, Breaks, RegImmOps, BranchOps, LoadOps, StoreOps, RegImm
  <2>2. /\ CpuWrites(d, ins) = << << Link, Plus(p, 8) >> >> /\ (taken <=> Neg(d.r[ins.rs]))
        /\ ins.rs # Link
    BY <1>7 DEF CpuWrites, AluOps, ImmOps, LoadOps, CpuTaken, Links, Followed, CauseOf
  <2>3. Writes(g, e, Link, Plus(p, 8))
    BY <1>3, <1>7, LinkWrites DEF Links
  <2> HIDE DEF f, g
  <2>4. g.r[ins.rs] = d.r[ins.rs]
    BY <1>1, <1>3, <2>2, <2>3 DEF Writes, CpuType
  <2>5. BranchesIf(f, g, Neg(d.r[ins.rs]))
    BY <2>1, <2>3, <2>4, BranchesOn DEF Writes
  <2>6. BranchesIf(f, g, taken)
    BY <2>2, <2>5 DEF BranchesIf
  <2>7. g.r = [d.r EXCEPT ![Link] = Plus(p, 8)] /\ g.regs = CpuWrites(d, ins)
    BY <1>1, <2>2, <2>3 DEF Writes, Start
  <2>8. g.r = [CpuRegs(d, ins) EXCEPT ![0] = g.r[0]]
    BY <1>3, <2>2, <2>7, CpuWritten
  <2>9. /\ g.lo = d.lo /\ g.hi = d.hi /\ g.jump = FALSE /\ g.lbranch = 2 /\ g.exc = FALSE
        /\ g.next = Plus(p, 4) /\ g.los = << >> /\ g.his = << >> /\ g.data = << >>
    BY <2>3 DEF Writes, Start
  <2>10. Computes(f, ins) /\ Pushes(f, ins) /\ Goes(f, ins, p) /\ f.data = << >>
    BY <1>4, <2>6, <2>7, <2>8, <2>9
  <2> QED BY <2>10 DEF f
<1>8. CASE ins.op \in {"NOP", "COP"}
  <2>1. f = e
    BY <1>8 DEF Switch, SpecialOps, AluOps, ImmOps, Cop0Ops, Breaks, RegImmOps, BranchOps, LoadOps, StoreOps
  <2>2. CpuWrites(d, ins) = << >> /\ ~taken
    BY <1>8 DEF CpuWrites, AluOps, ImmOps, LoadOps, CpuTaken
  <2> HIDE DEF f
  <2>3. BranchesIf(f, e, taken)
    BY <1>1, <2>1, <2>2 DEF BranchesIf, Start
  <2>4. e.r = [CpuRegs(d, ins) EXCEPT ![0] = e.r[0]] /\ e.regs = CpuWrites(d, ins)
    BY <2>2, CpuKept, Same0 DEF Start
  <2> QED BY <1>4, <2>3, <2>4 DEF Start, f
<1> QED BY <1>5, <1>6, <1>7, <1>8

AllFollow(f, ins, p) == Computes(f, ins) /\ Pushes(f, ins) /\ Goes(f, ins, p)

\* Whatever the instruction, accesses of the memory apart.
LEMMA SwitchFollows ==
    ASSUME CpuType, NEW p, NEW e, Start(e, p), NEW ins, Followed(ins), ~IsAccess(ins),
           Links(ins) => p = d.pc, NEW ptr, NEW v
    PROVE  LET f == Switch(e, ins, p, ptr, v) IN AllFollow(f, ins, p) /\ f.data = << >>
<1>1. CASE ins.op \in AluOps \cup ImmOps \cup {"MFLO"}
  BY <1>1, AluFollows DEF AllFollow
<1>2. CASE ins.op \in {"MTLO", "MULT", "MULTU"}
  BY <1>2, LoHiFollows DEF AllFollow
<1>3. CASE Jumps(ins)
  BY <1>3, JumpFollows DEF AllFollow
<1>4. CASE ins.op \in {"BEQ", "BLTZ", "BLTZAL", "NOP", "COP"}
  BY <1>4, BranchFollows DEF AllFollow
<1>5. \/ ins.op \in AluOps \cup ImmOps \cup {"MFLO"} \/ ins.op \in {"MTLO", "MULT", "MULTU"}
      \/ Jumps(ins) \/ ins.op \in {"BEQ", "BLTZ", "BLTZAL", "NOP", "COP"}
  <2>1. ins.op \in Ops /\ ins.op \notin LoadOps \cup StoreOps
    BY DEF Followed, Instr, IsAccess
  <2>2. ins.op \notin Cop0Ops /\ ins.op \notin Unsupported
    BY DEF Followed, CauseOf
  <2>3. ins.op \notin {"SYS", "BREAK", "MOV", "TRAP", "BEQL"}
    BY DEF Followed, CpuTraps, Breaks
  <2> QED BY <2>1, <2>2, <2>3 DEF Ops, SpecialOps, AluOps, ImmOps, Cop0Ops, RegImmOps, BranchOps, Jumps, Unsupported, LoadOps, StoreOps
<1> QED BY <1>1, <1>2, <1>3, <1>4, <1>5

----------------------------------------------------------------------------
\* The state of the CPU.

LEMMA AddressFacts ==
    ASSUME CpuType, NEW ins \in Instr, ~CpuTraps(d, ins), IsAccess(ins)
    PROVE  LET a == CpuAddress(d, ins) IN
           /\ a \in Word /\ a \in Nat /\ Align(a) \in Words /\ d.mem[Align(a)] \in Word
           /\ Size(ins.op) \in Sizes /\ a % Bytes(Size(ins.op)) = 0
<1> HIDE DEF W
<1> DEFINE a == CpuAddress(d, ins)
<1>1. a = Plus(d.r[ins.rs], ins.imm) /\ d.r[ins.rs] \in Int /\ ins.imm \in Int
  BY DEF CpuAddress, CpuType, Instr, Word
<1>2. a \in Word
  BY <1>1, PlusFacts
<1>3. a % Bytes(Size(ins.op)) = 0
  BY <1>1 DEF CpuTraps, IsAccess
<1> HIDE DEF a
<1>4. a \in Nat /\ Align(a) \in Words
  <2>1. a \in 0 .. W - 1 /\ W \in Nat
    BY <1>2, WordFacts DEF Word
  <2>2. a - (a % 4) \in 0 .. W - 1 /\ (a - (a % 4)) % 4 = 0
    BY <2>1
  <2> QED BY <2>1, <2>2 DEF Align, Words, Word
<1> QED BY <1>2, <1>3, <1>4, SizeFacts DEF CpuType, a

LEMMA LoadedWord ==
    ASSUME CpuType, NEW ins \in Instr, ~CpuTraps(d, ins), ins.op \in LoadOps
    PROVE  CpuLoaded(d, ins) \in Word
<1> DEFINE a == CpuAddress(d, ins)
           n == Size(ins.op)
           w == d.mem[Align(a)]
<1>1. a \in Nat /\ w \in Word /\ n \in Sizes /\ a % Bytes(n) = 0
  BY AddressFacts DEF IsAccess
<1>2. Field(w, a, n) \in 0 .. n - 1 /\ (n = W => Field(w, a, n) = w)
  <2> HIDE DEF a, n, w
  <2> QED BY <1>1, FieldFacts
<1>3. n \in {Byte, Half} \/ (n = W /\ ins.op \notin {"LB", "LH"})
  BY DEF Size, LoadOps
<1>4. CpuLoaded(d, ins) = IF ins.op \in {"LB", "LH"} THEN SignExt(Field(w, a, n), n) ELSE Field(w, a, n)
  BY DEF CpuLoaded
<1> HIDE DEF a, n, w
<1>5. CASE n \in {Byte, Half}
  <2>1. SignExt(Field(w, a, n), n) \in Word
    BY <1>2, <1>5, ExtensionFacts
  <2>2. 0 .. n - 1 \subseteq Word
    <3> HIDE DEF W, Half
    <3> QED BY <1>5, SizeFacts, WordFacts DEF Word
  <2> QED BY <1>2, <1>4, <2>1, <2>2
<1>6. CASE n = W /\ ins.op \notin {"LB", "LH"}
  BY <1>1, <1>2, <1>4, <1>6
<1> QED BY <1>3, <1>5, <1>6

LEMMA MinusType ==
    ASSUME NEW x \in Word, NEW y \in Word
    PROVE  Minus(x, y) \in Word
<1> HIDE DEF W
<1>1. W \in Nat /\ W > 0 /\ x - y \in Int
  BY WordFacts DEF Word
<1>2. (x - y) % W \in 0 .. W - 1
  BY <1>1
<1> QED BY <1>2 DEF Minus, Word

LEMMA CpuWritesType ==
    ASSUME CpuType, NEW ins \in Instr, ~CpuTraps(d, ins)
    PROVE  \/ CpuWrites(d, ins) = << >>
           \/ \E i \in GPR : \E v \in Word : CpuWrites(d, ins) = << << i, v >> >>
<1> HIDE DEF W
<1>1. /\ ins.rs \in GPR /\ ins.rt \in GPR /\ ins.rd \in GPR /\ 0 \in GPR /\ Link \in GPR
      /\ d.r[ins.rs] \in Word /\ d.r[ins.rt] \in Word /\ ins.imm \in Word /\ d.pc \in Word
      /\ d.lo \in Word
  BY RegAssumption DEF CpuType, Instr, Words
<1>0. 0 \in Word /\ Word \subseteq Int /\ 8 \in Int
  BY WordFacts DEF Word
<1>2. \A x \in Word, y \in Word : Plus(x, y) \in Word
  BY <1>0, PlusFacts
<1>3. Plus(d.pc, 8) \in Word
  <2>1. d.pc \in Int
    BY <1>0, <1>1
  <2> QED BY <1>0, <2>1, PlusFacts
<1>4. CASE ins.op \in LoadOps
  <2>1. CpuWrites(d, ins) = << << ins.rt, CpuLoaded(d, ins) >> >>
    BY <1>4 DEF CpuWrites, AluOps, ImmOps, LoadOps
  <2> QED BY <1>1, <1>4, <2>1, LoadedWord
<1>5. CASE ins.op \in AluOps \cup ImmOps
  <2>1. CpuOperand(d, ins) \in Word
    BY <1>1 DEF CpuOperand
  <2>2. Alu(ins, d.r[ins.rs], CpuOperand(d, ins)) \in Word
    BY <1>0, <1>1, <1>2, <2>1, MinusType DEF Alu
  <2> QED BY <1>1, <1>5, <2>2 DEF CpuWrites, AluOps, ImmOps, LoadOps
<1>8. CASE ins.op \in {"MFLO", "MTLO"}
  BY <1>0, <1>1, <1>2, <1>8 DEF CpuWrites, AluOps, ImmOps, LoadOps
<1>6. CASE ins.op \in {"JR", "MULT", "MULTU", "SYNC", "JALR", "JAL", "BLTZAL", "MFC0", "LWL", "LWR"}
  BY <1>0, <1>1, <1>3, <1>6 DEF CpuWrites, AluOps, ImmOps, LoadOps
<1>7. CASE ins.op \notin LoadOps \cup AluOps \cup ImmOps \cup {"MFLO", "MTLO", "JR", "MULT", "MULTU", "SYNC",
                                       "JALR", "JAL", "BLTZAL", "MFC0", "LWL", "LWR"}
  BY <1>7 DEF CpuWrites, AluOps, ImmOps
<1> QED BY <1>4, <1>5, <1>6, <1>7, <1>8

LEMMA RegionFacts ==
    ASSUME NEW x \in Word, NEW t \in Int
    PROVE  /\ Regional(x, t) \in Words
           /\ \A y \in Word : Regional(x, 0) = Regional(y, 0) => Regional(x, t) = Regional(y, t)
<1> HIDE DEF W
<1> DEFINE g == W \div 2
<1>1. PICK k \in Nat : W = 4 * (4 * k * k)
  BY WordFacts
<1> DEFINE j == 2 * (k * k)
<1>2. g = 4 * j /\ W = 2 * g /\ j \in Nat /\ g \in Nat \ {0} /\ x \in 0 .. W - 1
  <2>1. 4 * (4 * k * k) = 16 * (k * k) /\ k * k \in Nat
    OBVIOUS
  <2> QED BY <1>1, <2>1, WordFacts DEF Word
<1> HIDE DEF g, j
<1>3. \A y \in Int : y = g * (y \div g) + (y % g) /\ y % g \in 0 .. g - 1 /\ y \div g \in Int
  BY <1>2, DivMod
<1>4. \A y \in Word, i \in Int : Regional(y, i) = (y - (y % g)) + ((4 * i) % g)
  BY DEF Regional, g
<1>5. (4 * t) % g \in 0 .. g - 1 /\ ((4 * t) % g) % 4 = 0
  <2>1. 4 * t \in Int /\ 4 \in Nat \ {0} /\ (4 * t) % 4 = 0
    OBVIOUS
  <2>2. ((4 * t) % g) % 4 = (4 * t) % 4
    BY <1>2, <2>1, ModMod
  <2> QED BY <1>3, <2>1, <2>2
<1>6. x - (x % g) \in {0, g}
  <2> DEFINE q == x \div g
             r == x % g
  <2>1. x = g * q + r /\ r \in 0 .. g - 1 /\ q \in Int /\ x \in 0 .. (2 * g) - 1
    BY <1>2, <1>3
  <2> HIDE DEF q, r
  <2>2. q >= 0
    <3> SUFFICES ASSUME q <= -1 PROVE FALSE
      BY <2>1
    <3>1. g * q <= g * (-1)
      BY <1>2, <2>1
    <3> QED BY <3>1, <2>1, <1>2
  <2>3. q <= 1
    <3> SUFFICES ASSUME q >= 2 PROVE FALSE
      BY <2>1
    <3>1. g * q >= g * 2
      BY <1>2, <2>1
    <3> QED BY <3>1, <2>1, <1>2
  <2>4. q = 0 \/ q = 1
    BY <2>1, <2>2, <2>3
  <2>5. g * 0 = 0 /\ g * 1 = g
    BY <1>2
  <2> QED BY <2>1, <2>4, <2>5, <1>2 DEF r
<1>7. Regional(x, t) \in 0 .. W - 1 /\ Regional(x, t) % 4 = 0
  <2> DEFINE h == x - (x % g)
             o == (4 * t) % g
  <2>1. h \in {0, 4 * j} /\ o \in 0 .. g - 1 /\ o % 4 = 0 /\ Regional(x, t) = h + o
    BY <1>2, <1>4, <1>5, <1>6
  <2> HIDE DEF h, o
  <2> QED BY <2>1, <1>2
<1>8. ASSUME NEW y \in Word, Regional(x, 0) = Regional(y, 0)
      PROVE  Regional(x, t) = Regional(y, t)
  <2> DEFINE h == x - (x % g)
             i == y - (y % g)
             o == (4 * t) % g
             z == (4 * 0) % g
  <2>1. /\ Regional(x, 0) = h + z /\ Regional(y, 0) = i + z
        /\ Regional(x, t) = h + o /\ Regional(y, t) = i + o
    BY <1>4
  <2>2. h \in Int /\ i \in Int /\ z \in Int
    BY <1>2, <1>3 DEF Word
  <2> HIDE DEF h, i, o, z
  <2>3. h = i
    BY <1>8, <2>1, <2>2
  <2> QED BY <2>1, <2>3
<1> QED BY <1>7, <1>8 DEF Words, Word

LEMMA WordsPlus ==
    ASSUME NEW x \in Words, NEW y \in Word
    PROVE  Plus(x, 4) \in Words /\ Plus(x, 4 * y) \in Words /\ 4 * y \in Int /\ x \in Int
<1> HIDE DEF W
<1>1. x \in Int /\ x % 4 = 0 /\ 4 * y \in Int /\ (4 * y) % 4 = 0 /\ 4 \in Int /\ 4 % 4 = 0
  BY DEF Words, Word
<1>2. Plus(x, 4) \in Word /\ Plus(x, 4) % 4 = 0
  BY <1>1, PlusFacts
<1> DEFINE z == 4 * y
<1>3. z \in Int /\ z % 4 = 0
  BY <1>1
<1> HIDE DEF z
<1>4. Plus(x, z) \in Word /\ Plus(x, z) % 4 = 0
  BY <1>1, <1>3, PlusFacts
<1> QED BY <1>1, <1>2, <1>4 DEF Words, z

\* The target of a jump or a branch that is taken.
LEMMA TargetFacts ==
    ASSUME CpuType, NEW ins \in Instr, ~CpuTraps(d, ins)
    PROVE  CpuTarget(d, ins) \in Words
<1>1. d.pc \in Words /\ d.r[ins.rs] \in Word /\ ins.imm \in Word
  BY DEF CpuType, Instr
<1>2. Plus(d.pc, 4) \in Words
  BY <1>1, WordsPlus
<1>3. CASE ins.op \in {"JR", "JALR"}
  BY <1>1, <1>3 DEF CpuTarget, CpuTraps, Words
<1>4. CASE ins.op \in {"J", "JAL"}
  <2>1. Plus(d.pc, 4) \in Word /\ ins.imm \in Int
    BY <1>1, <1>2 DEF Words, Word
  <2> QED BY <1>4, <2>1, RegionFacts DEF CpuTarget
<1>5. CASE ins.op \notin {"JR", "JALR", "J", "JAL"}
  BY <1>1, <1>2, <1>5, WordsPlus DEF CpuTarget
<1> QED BY <1>3, <1>4, <1>5

LEMMA CpuLoHiType ==
    ASSUME CpuType, NEW ins \in Instr, ~CpuTraps(d, ins)
    PROVE  CpuNext(d, ins).lo \in Word /\ CpuNext(d, ins).hi \in Word
<1> DEFINE a == d.r[ins.rs]
           b == d.r[ins.rt]
           x == CpuProduct(d, ins)
<1>1. a \in Word /\ b \in Word /\ d.lo \in Word /\ d.hi \in Word
  BY DEF CpuType, Instr
<1>2. Multiplies(ins) => x % W \in Word /\ x \div W \in Word
  <2>1. CASE ins.op = "MULT"
    <3>1. x = (Signed(a) * Signed(b)) % (W * W)
      BY <2>1 DEF CpuProduct
    <3> HIDE DEF x, a, b
    <3> QED BY <1>1, <3>1, MultBigSigned
  <2>2. CASE ins.op = "MULTU"
    <3>1. x = a * b
      BY <2>2 DEF CpuProduct
    <3> HIDE DEF x, a, b
    <3>2. (a * b) % W \in Word /\ (a * b) \div W \in Word
      BY <1>1, MultBig
    <3> QED BY <3>1, <3>2
  <2> QED BY <2>1, <2>2 DEF Multiplies
<1>3. /\ CpuNext(d, ins).lo = CASE Multiplies(ins) -> x % W
                                [] ins.op = "MTLO" -> a
                                [] OTHER -> d.lo
      /\ CpuNext(d, ins).hi = IF Multiplies(ins) THEN x \div W ELSE d.hi
  BY DEF CpuNext
<1>4. CASE Multiplies(ins)
  <2>1. ins.op # "MTLO"
    BY <1>4 DEF Multiplies
  <2> HIDE DEF x, a
  <2> QED BY <1>2, <1>3, <1>4, <2>1
<1>5. CASE ~Multiplies(ins)
  <2> HIDE DEF x, a
  <2> QED BY <1>1, <1>3, <1>5
<1> QED BY <1>4, <1>5

LEMMA CpuMemType ==
    ASSUME CpuType, NEW ins \in Instr, ~CpuTraps(d, ins)
    PROVE  CpuMem(d, ins) \in [Words -> Word]
<1> DEFINE a == CpuAddress(d, ins)
           n == Size(ins.op)
           w == d.mem[Align(a)]
           v == d.r[ins.rt]
<1>1. CASE ins.op \in StoreOps
  <2>1. a \in Nat /\ w \in Word /\ n \in Sizes /\ a % Bytes(n) = 0 /\ Align(a) \in Words
    BY <1>1, AddressFacts DEF IsAccess
  <2>2. v \in Int
    <3>1. v \in Word
      BY DEF CpuType, Instr
    <3> HIDE DEF W, v
    <3> QED BY <3>1, WordFacts DEF Word
  <2>3. CpuMem(d, ins) = [d.mem EXCEPT ![Align(a)] = PutField(w, a, n, v)]
    BY <1>1 DEF CpuMem
  <2> HIDE DEF a, n, v
  <2>4. PutField(w, a, n, v) \in Word
    <3> HIDE DEF w
    <3> QED BY <2>1, <2>2, FieldFacts
  <2> QED BY <2>1, <2>3, <2>4 DEF CpuType
<1>2. CASE ins.op \notin StoreOps
  BY <1>2 DEF CpuMem, CpuType
<1> QED BY <1>1, <1>2

LEMMA CpuRegsType ==
    ASSUME CpuType, NEW ins \in Instr, ~CpuTraps(d, ins)
    PROVE  CpuRegs(d, ins) \in [GPR -> Word] /\ CpuRegs(d, ins)[0] = 0
<1>1. 0 \in GPR /\ 0 \in Word
  <2> HIDE DEF W
  <2> QED BY RegAssumption, WordFacts DEF Word
<1>2. CASE CpuWrites(d, ins) = << >>
  BY <1>2, CpuKept DEF CpuType
<1>3. ASSUME NEW i \in GPR, NEW v \in Word, CpuWrites(d, ins) = << << i, v >> >>
      PROVE  CpuRegs(d, ins) \in [GPR -> Word] /\ CpuRegs(d, ins)[0] = 0
  <2>1. CpuRegs(d, ins) = [[d.r EXCEPT ![i] = v] EXCEPT ![0] = 0]
    BY <1>3 DEF CpuRegs
  <2> QED BY <1>1, <2>1 DEF CpuType
<1> QED BY <1>2, <1>3, CpuWritesType

LEMMA Cop0Type ==
    ASSUME CpuType, NEW ins
    PROVE  Entered(d.cop0) \in Cop0State /\ CpuCop0(d, ins) \in Cop0State
<1>1. d.cop0 \in Cop0State
  BY DEF CpuType
<1>2. \A v : Cop0Status(v) \in Cop0State
  BY DEF Cop0Status, Cop0State, Neg
<1>3. Entered(d.cop0) \in Cop0State /\ Restored(d.cop0) \in Cop0State
  BY <1>1 DEF Entered, Restored, Cop0State
<1> QED BY <1>1, <1>2, <1>3 DEF CpuCop0

LEMMA CpuTypeStep ==
    ASSUME CpuType, NEW ins \in Instr, d' = CpuNext(d, ins)
    PROVE  CpuType'
<1>1. CASE CpuTraps(d, ins)
  <2>1. Vector \in Words /\ Plus(Vector, 4) \in Words
    <3>1. Vector \in Words
      BY VectorAssumption DEF Words
    <3>2. 0 \in Word
      <4> HIDE DEF W
      <4> QED BY WordFacts DEF Word
    <3> QED BY <3>1, <3>2, WordsPlus
  <2>2. d' = [d EXCEPT !.pc = Vector, !.npc = Plus(Vector, 4), !.slot = FALSE, !.cop0 = Entered(d.cop0)]
    BY <1>1 DEF CpuNext
  <2> QED BY <2>1, <2>2, Cop0Type DEF CpuType
<1>2. CASE ~CpuTraps(d, ins)
  <2> DEFINE n == CpuNext(d, ins)
  <2>1. /\ n.pc = d.npc /\ n.mem = CpuMem(d, ins) /\ n.slot = CpuTaken(d, ins) /\ n.r = CpuRegs(d, ins)
        /\ n.npc = IF CpuTaken(d, ins) THEN CpuTarget(d, ins) ELSE Plus(d.npc, 4)
    BY <1>2, CpuDoes
  <2>2. n = [pc |-> n.pc, slot |-> n.slot, npc |-> n.npc, r |-> n.r, lo |-> n.lo, hi |-> n.hi, mem |-> n.mem,
           cop0 |-> n.cop0]
    BY <1>2 DEF CpuNext
  <2>10. n.cop0 \in Cop0State
    BY <1>2, Cop0Type DEF CpuNext
  <2>3. n.lo \in Word /\ n.hi \in Word
    BY <1>2, CpuLoHiType
  <2> HIDE DEF n
  <2>4. d.npc \in Words /\ Plus(d.npc, 4) \in Words
    <3>1. 0 \in Word
      <4> HIDE DEF W
      <4> QED BY WordFacts DEF Word
    <3> QED BY <3>1, WordsPlus DEF CpuType
  <2>5. n.pc \in Words /\ n.npc \in Words
    BY <1>2, <2>1, <2>4, TargetFacts
  <2>6. n.mem \in [Words -> Word] /\ n.r \in [GPR -> Word] /\ n.r[0] = 0
    BY <1>2, <2>1, CpuMemType, CpuRegsType
  <2>7. n.slot \in BOOLEAN
    BY <2>1 DEF CpuTaken
  <2>8. ~n.slot => n.npc = Plus(n.pc, 4)
    BY <2>1
  <2>9. d' = n
    BY DEF n
  <2> QED BY <2>2, <2>3, <2>5, <2>6, <2>7, <2>8, <2>9, <2>10 DEF CpuType
<1> QED BY <1>1, <1>2

\* Where a model goes is where the CPU goes, out of a delay slot.
LEMMA NextFollows ==
    ASSUME CpuType, NEW ins, Followed(ins), NEW f, Goes(f, ins, d.pc),
           ~CauseOf(ins).region
    PROVE  /\ NextPc(f, ins) = IF CpuTaken(d, ins) THEN CpuTarget(d, ins) ELSE Plus(d.pc, 4)
           /\ (Taken(f) \/ f.jump) <=> CpuTaken(d, ins)
<1>1. /\ ins \in Instr /\ ~CpuTraps(d, ins) /\ d.pc \in Words /\ d.pc \in Word
      /\ ins.imm \in Word /\ d.r[ins.rs] \in Word
  BY Operands DEF Followed, CpuType, Words
<1>2. Plus(d.pc, 4) \in Words /\ CpuTarget(d, ins) \in Words
  BY <1>1, WordsPlus, TargetFacts
<1>3. \A x \in Words : Align(x) = x
  <2> HIDE DEF W
  <2> QED BY DEF Words, Word, Align
<1>4. Taken(f) <=> (CpuTaken(d, ins) /\ ~Jumps(ins))
  BY DEF Goes, Taken
<1>5. Jumps(ins) => CpuTaken(d, ins)
  BY DEF Jumps, CpuTaken
<1>6. CASE Jumps(ins)
  <2>1. f.next = CpuTarget(d, ins)
    <3>1. CASE ins.op \in {"J", "JAL"}
      <4>1. Regional(d.pc, 0) = Regional(Plus(d.pc, 4), 0)
        BY <3>1 DEF CauseOf, Absolute
      <4>2. ins.imm \in Int /\ Plus(d.pc, 4) \in Word
        <5> HIDE DEF W
        <5> QED BY <1>1, <1>2 DEF Words, Word
      <4>3. Regional(d.pc, ins.imm) = Regional(Plus(d.pc, 4), ins.imm)
        BY <1>1, <4>1, <4>2, RegionFacts
      <4> QED BY <1>6, <3>1, <4>3 DEF Goes, CpuTarget
    <3>2. CASE ins.op \in {"JR", "JALR"}
      BY <1>6, <3>2 DEF Goes, CpuTarget
    <3> QED BY <1>6, <3>1, <3>2 DEF Jumps
  <2>2. NextPc(f, ins) = Align(f.next)
    BY <1>4, <1>6 DEF NextPc
  <2> QED BY <1>2, <1>3, <1>4, <1>5, <1>6, <2>1, <2>2 DEF Goes
<1>7. CASE ~Jumps(ins)
  <2>1. f.next = Plus(d.pc, 4)
    BY <1>7 DEF Goes
  <2>2. CASE CpuTaken(d, ins)
    <3>1. NextPc(f, ins) = Align(Plus(Plus(d.pc, 4), 4 * ins.imm))
      BY <1>4, <1>7, <2>1, <2>2 DEF NextPc
    <3>2. CpuTarget(d, ins) = Plus(Plus(d.pc, 4), 4 * ins.imm)
      BY <1>7 DEF CpuTarget, Jumps
    <3> QED BY <1>2, <1>3, <1>4, <1>7, <2>2, <3>1, <3>2 DEF Goes
  <2>3. CASE ~CpuTaken(d, ins)
    <3>1. NextPc(f, ins) = Align(Plus(d.pc, 4))
      BY <1>4, <2>1, <2>3 DEF NextPc
    <3> QED BY <1>2, <1>3, <1>4, <1>7, <2>3, <3>1 DEF Goes
  <2> QED BY <2>2, <2>3
<1> QED BY <1>6, <1>7

----------------------------------------------------------------------------
\* The loads and stores.

\* What logging an access changes.
Logs(f, e, a) ==
    /\ DOMAIN f = EFields /\ f.data = Append(e.data, a)
    /\ f.r = e.r /\ f.lo = e.lo /\ f.hi = e.hi /\ f.next = e.next /\ f.branch = e.branch
    /\ f.lbranch = e.lbranch /\ f.jump = e.jump /\ f.exc = e.exc
    /\ f.regs = e.regs /\ f.los = e.los /\ f.his = e.his

LEMMA PushLogs ==
    ASSUME NEW e, DOMAIN e = EFields, NEW a
    PROVE  Logs(PushData(e, a), e, a)
BY DEF PushData, EFields, Logs

Reads(f, e, ins, a) == f = Put(PushData(e, a), ins.rt, CpuLoaded(d, ins))

LEMMA LoadFollows ==
    ASSUME CpuType, NEW p, NEW e, Start(e, p), NEW ins, Followed(ins), ins.op \in LoadOps,
           NEW a, NEW f, Reads(f, e, ins, a)
    PROVE  AllFollow(f, ins, p) /\ f.data = << a >>
<1> DEFINE g == PushData(e, a)
           i == ins.rt
           v == CpuLoaded(d, ins)
<1>1. /\ ~Jumps(ins) /\ ~CpuTaken(d, ins) /\ ~CpuTraps(d, ins)
      /\ ins.op \notin {"MULT", "MULTU", "MTLO"}
  BY DEF Jumps, CpuTaken, Followed, LoadOps
<1>2. CpuWrites(d, ins) = << << i, v >> >>
  BY DEF CpuWrites, AluOps, ImmOps, LoadOps
<1>3. i \in GPR /\ DOMAIN e = EFields
  BY Operands DEF Start
<1> HIDE DEF v, i
<1>4. Logs(g, e, a)
  BY <1>3, PushLogs
<1>5. f = Put(g, i, v)
  BY DEF i, v, Reads
<1> HIDE DEF g
<1>6. Writes(f, g, i, v)
  BY <1>4, <1>5, PutWrites DEF Logs
<1>7. /\ f.r = [d.r EXCEPT ![i] = v] /\ f.lo = d.lo /\ f.hi = d.hi
      /\ f.regs = << << i, v >> >> /\ f.los = << >> /\ f.his = << >> /\ f.data = << a >>
  BY <1>4, <1>6 DEF Writes, Logs, Start
<1>8. Computes(f, ins)
  BY <1>1, <1>2, <1>3, <1>7, CpuLoHi, CpuWritten DEF Computes
<1>9. Pushes(f, ins)
  BY <1>1, <1>2, <1>7, CpuLoHi, CpuDoes DEF Pushes
<1>10. Goes(f, ins, p)
  BY <1>1, <1>4, <1>6 DEF Goes, Writes, Logs, Start
<1> QED BY <1>7, <1>8, <1>9, <1>10 DEF AllFollow

LEMMA StoreFollows ==
    ASSUME CpuType, NEW p, NEW e, Start(e, p), NEW ins, Followed(ins), ins.op \in StoreOps,
           NEW a, NEW f, f = PushData(e, a)
    PROVE  AllFollow(f, ins, p) /\ f.data = << a >>
<1>1. /\ ~Jumps(ins) /\ ~CpuTaken(d, ins) /\ ~CpuTraps(d, ins) /\ CpuWrites(d, ins) = << >>
      /\ ins.op \notin {"MULT", "MULTU", "MTLO"} /\ DOMAIN e = EFields
  BY DEF Jumps, CpuTaken, Followed, CpuWrites, AluOps, ImmOps, LoadOps, StoreOps, Start
<1>2. Logs(f, e, a)
  BY <1>1, PushLogs
<1>3. /\ f.r = d.r /\ f.lo = d.lo /\ f.hi = d.hi
      /\ f.regs = << >> /\ f.los = << >> /\ f.his = << >> /\ f.data = << a >>
  BY <1>2 DEF Logs, Start
<1>4. Computes(f, ins)
  BY <1>1, <1>3, CpuLoHi, CpuKept, Same0 DEF Computes
<1>5. Pushes(f, ins)
  BY <1>1, <1>3, CpuLoHi, CpuDoes DEF Pushes
<1>6. Goes(f, ins, p)
  BY <1>1, <1>2 DEF Goes, Logs, Start
<1> QED BY <1>3, <1>4, <1>5, <1>6 DEF AllFollow

\* The data of a load, as the model of PSX_TOP is given them, are what the CPU
\* loads, if they need no sign and are not the upper half word.
LEMMA DataFollow ==
    ASSUME CpuType, NEW ins, Followed(ins), ins.op \in LoadOps,
           ~CauseOf(ins).sign, ~CauseOf(ins).half
    PROVE  /\ RdData(ins) = CpuLoaded(d, ins)
           /\ ins.op \in {"LBU", "LHU"} => RdData(ins) % Size(ins.op) = CpuLoaded(d, ins)
<1> DEFINE a == CpuAddress(d, ins)
           n == Size(ins.op)
           w == d.mem[Align(a)]
           v == Field(w, a, n)
<1>1. ins \in Instr /\ ~CpuTraps(d, ins)
  BY DEF Followed
<1>2. a \in Nat /\ w \in Word /\ n \in Sizes /\ a % Bytes(n) = 0
  BY <1>1, AddressFacts DEF IsAccess
<1>3. RdData(ins) = v
  <2>1. ~(n = Half /\ a % 4 = 2)
    BY DEF CauseOf
  <2> QED BY <1>1, <2>1 DEF RdData
<1>4. CpuLoaded(d, ins) = IF ins.op \in {"LB", "LH"} THEN SignExt(v, n) ELSE v
  BY DEF CpuLoaded
<1>5. ins.op \in {"LB", "LH"} => ~Neg(CpuLoaded(d, ins)) /\ n \in {Byte, Half}
  BY DEF CauseOf, Size
<1>6. v \in 0 .. n - 1 /\ v % n = v
  <2> HIDE DEF a, n, w
  <2> QED BY <1>2, FieldFacts
<1> HIDE DEF v, n
<1>7. CASE ins.op \in {"LB", "LH"}
  BY <1>3, <1>4, <1>5, <1>6, <1>7, ExtensionFacts
<1>8. CASE ins.op \notin {"LB", "LH"}
  BY <1>3, <1>4, <1>6, <1>8 DEF n
<1>9. ins.op \in {"LBU", "LHU"} => ins.op \notin {"LB", "LH"}
  OBVIOUS
<1> QED BY <1>7, <1>8, <1>9

\* One access is logged; it is the CPU's if the addresses agree.
LEMMA PsxAccessFollows ==
    ASSUME CpuType, NEW p, NEW e, Start(e, p), NEW ins, Followed(ins), IsAccess(ins),
           ~CauseOf(ins).sign, ~CauseOf(ins).half, NEW ptr
    PROVE  LET f == Switch(e, ins, p, ptr, RdData(ins)) IN
           /\ AllFollow(f, ins, p)
           /\ (\E y, z : f.data = << y >> /\ CpuData(d, ins) = << z >>)
           /\ (ptr = CpuAddress(d, ins) => f.data = CpuData(d, ins))
<1> DEFINE f == Switch(e, ins, p, ptr, RdData(ins))
<1>1. CASE ins.op \in LoadOps
  <2> DEFINE a == Access(TRUE, Size(ins.op), ptr, 0)
  <2>1. f = Loads(e, ins, ptr, RdData(ins))
    BY <1>1 DEF Switch, SpecialOps, AluOps, ImmOps, Cop0Ops, Breaks, RegImmOps, BranchOps, LoadOps, StoreOps
  <2>2. f = Put(PushData(e, a), ins.rt, IF ins.op \in {"LBU", "LHU"} THEN RdData(ins) % Size(ins.op) ELSE RdData(ins))
    BY <1>1, <2>1 DEF Loads, LoadOps
  <2>3. Reads(f, e, ins, a)
    BY <1>1, <2>2, DataFollow DEF Reads
  <2>4. CpuData(d, ins) = << Access(TRUE, Size(ins.op), CpuAddress(d, ins), 0) >>
    BY <1>1 DEF CpuData, LoadOps, StoreOps
  <2> HIDE DEF f, a
  <2>5. AllFollow(f, ins, p) /\ f.data = << a >>
    BY <1>1, <2>3, LoadFollows
  <2> QED BY <2>4, <2>5 DEF f, a
<1>2. CASE ins.op \in StoreOps
  <2> DEFINE a == Access(FALSE, Size(ins.op), ptr, d.r[ins.rt])
  <2>1. f = Stores(e, ins, ptr)
    BY <1>2 DEF Switch, SpecialOps, AluOps, ImmOps, Cop0Ops, Breaks, RegImmOps, BranchOps, LoadOps, StoreOps
  <2>2. f = PushData(e, a)
    BY <2>1 DEF Stores, Start
  <2>3. CpuData(d, ins) = << Access(FALSE, Size(ins.op), CpuAddress(d, ins), d.r[ins.rt]) >>
    BY <1>2 DEF CpuData, LoadOps, StoreOps
  <2> HIDE DEF f, a
  <2>4. AllFollow(f, ins, p) /\ f.data = << a >>
    BY <1>2, <2>2, StoreFollows
  <2> QED BY <2>3, <2>4 DEF f, a
<1> QED BY <1>1, <1>2 DEF IsAccess

\* The address of an access: a model reads its register 0 before it clears it.
LEMMA PointerFollows ==
    ASSUME CpuType, NEW ins \in Instr, NEW x, Holds(x), ins.rs = 0 => x.r[0] = 0
    PROVE  Ptr(x, ins) = CpuAddress(d, ins)
<1> HIDE DEF W
<1>1. x.r[ins.rs] = d.r[ins.rs] /\ d.r[ins.rs] \in Int /\ ins.imm \in Int
  BY DEF CpuType, Instr, Holds, Word
<1> QED BY <1>1, PlusFacts DEF Ptr, CpuAddress

----------------------------------------------------------------------------
(***************************************************************************)
(* The memory of the model of MIPS1_CORE: it agrees with the CPU's where   *)
(* the CPU's was zero at first, as the model's is.                         *)
(***************************************************************************)

MemWords == {a \in 0 .. MemSize - 1 : a % 4 = 0}

MemHolds(x) ==
    /\ x \in [MemWords -> Word]
    /\ \A a \in MemWords : image[a] = 0 => x[a] = d.mem[a]

LEMMA MemorySizes ==
    /\ MemSize \in Nat \ {0} /\ MemSize % 4 = 0 /\ MemSize <= W /\ WinBase >= MemSize
    /\ WinBase \in Nat /\ 0 \in MemWords /\ MemWords \subseteq Words
<1> HIDE DEF W
<1>1. W \in Nat \ {0} /\ MemSize \in 1 .. W /\ MemSize % 8 = 0 /\ WinBase \in Nat \ {0}
  BY WordFacts, MemAssumption
<1>2. MemSize \in Nat \ {0} /\ MemSize % 4 = 0 /\ MemSize <= W
  <2>1. MemSize \in Nat \ {0} /\ MemSize <= W
    BY <1>1
  <2>2. MemSize % 4 = 0
    BY <2>1, <1>1
  <2> QED BY <2>1, <2>2
<1>3. WinBase >= MemSize
  <2> DEFINE k == WinBase \div MemSize
  <2>1. WinBase = MemSize * k + 0 /\ k \in Int
    BY <1>1, <1>2, DivMod, MemAssumption
  <2> HIDE DEF k
  <2> SUFFICES ASSUME k <= 0 PROVE FALSE
    <3>1. CASE k <= 0
      BY <3>1
    <3>2. CASE k >= 1
      <4>1. MemSize * k >= MemSize * 1
        BY <1>2, <2>1, <3>2
      <4> QED BY <4>1, <1>1, <1>2, <2>1
    <3> QED BY <3>1, <3>2, <2>1
  <2>2. MemSize * k <= MemSize * 0
    BY <1>2, <2>1
  <2> QED BY <2>1, <2>2, <1>1, <1>2
<1> QED BY <1>1, <1>2, <1>3 DEF MemWords, Words, Word

\* Below the size of the memory an address is that of the memory.
LEMMA PhysicalFacts ==
    ASSUME NEW a \in Nat, a < MemSize
    PROVE  /\ Physical(a) = a /\ Align(a) \in MemWords
           /\ (Align(a) + 4) % MemSize \in MemWords
<1> HIDE DEF W
<1>1. /\ MemSize \in Nat \ {0} /\ MemSize % 4 = 0 /\ WinBase >= MemSize /\ WinBase \in Nat
  BY MemorySizes
<1>2. a % MemSize = a
  BY <1>1, ModSmall
<1>3. ~(a \in WinBase .. WinBase + (MemSize \div 2) - 1)
  BY <1>1
<1>4. Physical(a) = a
  BY <1>2, <1>3 DEF Physical
<1>5. Align(a) \in 0 .. MemSize - 1 /\ Align(a) % 4 = 0
  BY <1>1 DEF Align
<1> DEFINE i == Align(a) + 4
<1>6. i \in Int /\ i % 4 = 0
  BY <1>5
<1> HIDE DEF i
<1>7. i % MemSize \in 0 .. MemSize - 1
  BY <1>1, <1>6, DivMod
<1>8. (i % MemSize) % 4 = 0
  <2>1. 4 \in Nat \ {0}
    OBVIOUS
  <2>2. (i % MemSize) % 4 = i % 4
    <3>1. MemSize = 4 * (MemSize \div 4) /\ MemSize \div 4 \in Nat
      BY <1>1
    <3> QED BY <3>1, <2>1, <1>1, <1>6, ModMod, Zenon
  <2> QED BY <2>2, <1>6
<1> QED BY <1>4, <1>5, <1>7, <1>8 DEF MemWords, i

\* What a load of the model reads is what the CPU reads.
LEMMA MemoryRead ==
    ASSUME CpuType, NEW ins, Followed(ins), ins.op \in LoadOps,
           ~CauseOf(ins).alias, ~CauseOf(ins).image, NEW x, MemHolds(x)
    PROVE  LET a == CpuAddress(d, ins)
               n == Size(ins.op)
           IN /\ mem_read(x, n, a) = Field(d.mem[Align(a)], a, n)
              /\ n = W => mem_read(x, n, a) = d.mem[Align(a)]
<1> DEFINE a == CpuAddress(d, ins)
           n == Size(ins.op)
           w == d.mem[Align(a)]
<1>1. ins \in Instr /\ ~CpuTraps(d, ins)
  BY DEF Followed
<1>2. a \in Nat /\ w \in Word /\ n \in Sizes /\ a % Bytes(n) = 0
  BY <1>1, AddressFacts DEF IsAccess
<1>3. ~(a >= MemSize) /\ image[Align(a)] = 0
  BY DEF CauseOf, IsAccess
<1> HIDE DEF a, n
<1>4. a < MemSize
  BY <1>2, <1>3, MemorySizes
<1>5. Physical(a) = a /\ Align(a) \in MemWords /\ (Align(a) + 4) % MemSize \in MemWords
  BY <1>2, <1>4, PhysicalFacts
<1> DEFINE y == x[(Align(a) + 4) % MemSize]
<1>6. x[Align(a)] = w /\ y \in Int
  <2>1. x[Align(a)] = w /\ y \in Word
    BY <1>3, <1>5 DEF MemHolds
  <2> HIDE DEF W, y
  <2> QED BY <2>1, WordFacts DEF Word
<1>7. mem_read(x, n, a) = ((w + W * y) \div Lane(a)) % n
  BY <1>5, <1>6 DEF mem_read
<1> HIDE DEF W, y, w
<1>8. mem_read(x, n, a) = Field(w, a, n) /\ (n = W => Field(w, a, n) = w)
  BY <1>2, <1>6, <1>7, FieldFacts
<1> QED BY <1>8 DEF a, n, w

\* After a store the memories agree as before.
LEMMA MemoryWritten ==
    ASSUME CpuType, NEW ins, Followed(ins), ~CauseOf(ins).alias, NEW x, MemHolds(x),
           d' = CpuNext(d, ins),
           NEW y, y = IF ins.op \in StoreOps
                      THEN mem_write(x, Size(ins.op), CpuAddress(d, ins), d.r[ins.rt]) ELSE x
    PROVE  y \in [MemWords -> Word] /\ \A i \in MemWords : image[i] = 0 => y[i] = d'.mem[i]
<1> DEFINE a == CpuAddress(d, ins)
           n == Size(ins.op)
           v == d.r[ins.rt]
<1>1. ins \in Instr /\ ~CpuTraps(d, ins) /\ v \in Word
  BY Operands DEF Followed
<1>2. d'.mem = CpuMem(d, ins)
  BY <1>1, CpuDoes
<1>3. CASE ins.op \in StoreOps
  <2>1. a \in Nat /\ n \in Sizes /\ a % Bytes(n) = 0 /\ Align(a) \in Words
    BY <1>1, <1>3, AddressFacts DEF IsAccess
  <2>2. ~(a >= MemSize)
    BY <1>3 DEF CauseOf, IsAccess
  <2>3. CpuMem(d, ins) = [d.mem EXCEPT ![Align(a)] = PutField(d.mem[Align(a)], a, n, v)]
    BY <1>3 DEF CpuMem
  <2>4. y = mem_write(x, n, a, v)
    BY <1>3
  <2> HIDE DEF a, n, v
  <2>5. a < MemSize
    BY <2>1, <2>2, MemorySizes
  <2>6. Physical(a) = a /\ Align(a) \in MemWords
    BY <2>1, <2>5, PhysicalFacts
  <2>7. y = [x EXCEPT ![Align(a)] = PutField(x[Align(a)], a, n, v)]
    BY <2>4, <2>6 DEF mem_write
  <2>8. PutField(x[Align(a)], a, n, v) \in Word
    <3>1. v \in Int
      <4> HIDE DEF W
      <4> QED BY <1>1, WordFacts DEF Word
    <3>2. x[Align(a)] \in Word
      BY <2>6 DEF MemHolds
    <3> QED BY <3>1, <3>2, <2>1, FieldFacts
  <2>9. y \in [MemWords -> Word]
    BY <2>6, <2>7, <2>8 DEF MemHolds
  <2>10. ASSUME NEW i \in MemWords, image[i] = 0 PROVE y[i] = d'.mem[i]
    <3>1. x[i] = d.mem[i] /\ DOMAIN x = MemWords /\ DOMAIN d.mem = Words /\ i \in Words
      BY <2>10, MemorySizes DEF MemHolds, CpuType
    <3>2. CASE i = Align(a)
      BY <1>2, <2>1, <2>3, <2>6, <2>7, <3>1, <3>2
    <3>3. CASE i # Align(a)
      BY <1>2, <2>1, <2>3, <2>6, <2>7, <3>1, <3>3
    <3> QED BY <3>2, <3>3
  <2> QED BY <2>9, <2>10
<1>4. CASE ins.op \notin StoreOps
  BY <1>2, <1>4 DEF CpuMem, MemHolds
<1> QED BY <1>3, <1>4

\* An entry of the queue of accesses, and the value in it replaced.
Entry(r, n, a, w) == r = [rdWrB |-> TRUE, size |-> n, address |-> a, value |-> w]
Amended(r, w, o)     == o = [r EXCEPT !.value = w]
Revalued(q, w, v)    == v = [q EXCEPT !.data[1].value = w]
OneRead(v, q, n, a, w) ==
    /\ DOMAIN v = Streams
    /\ \E o : Entry(o, n, a, w) /\ v.data = << o >>
    /\ \A k \in Streams \ {"data"} : v[k] = q[k]

LEMMA ValueChanged ==
    ASSUME NEW n, NEW a, NEW z, NEW w, NEW r, Entry(r, n, a, z),
           NEW o, Amended(r, w, o)
    PROVE  Entry(o, n, a, w)
<1>1. DOMAIN r = {"rdWrB", "size", "address", "value"} /\ r.rdWrB = TRUE /\ r.size = n /\ r.address = a
  BY DEF Entry
<1>2. o = [i \in DOMAIN r |-> IF i = "value" THEN w ELSE r[i]]
  BY DEF Amended
<1>3. o \in [rdWrB : {TRUE}, size : {n}, address : {a}, value : {w}]
  BY <1>1, <1>2
<1> QED BY <1>3 DEF Entry

LEMMA StreamValued ==
    ASSUME NEW q, DOMAIN q = Streams, NEW n, NEW a, NEW z, NEW w,
           NEW y, Entry(y, n, a, z), q.data = << y >>, NEW v, Revalued(q, w, v)
    PROVE  OneRead(v, q, n, a, w)
<1> DEFINE o == [y EXCEPT !.value = w]
           l == [q.data EXCEPT ![1] = [q.data[1] EXCEPT !.value = w]]
<1>1. Amended(y, w, o)
  BY DEF Amended
<1>2. v = [q EXCEPT !.data = l]
  BY DEF Revalued
<1>3. l = [<< y >> EXCEPT ![1] = o]
  OBVIOUS
<1> HIDE DEF o, l
<1>4. Entry(o, n, a, w)
  BY <1>1, ValueChanged
<1>5. l = << o >>
  BY <1>3
<1>6. DOMAIN v = Streams /\ v.data = l /\ \A k \in Streams \ {"data"} : v[k] = q[k]
  BY <1>2 DEF Streams
<1> QED BY <1>4, <1>5, <1>6 DEF OneRead

\* The access the monitor of MIPS1_CORE sees: of a load, with the word read.
LEMMA ValuedAccess ==
    ASSUME CpuType, NEW ins, Followed(ins)
    PROVE  LET v == Valued(CpuEvents(ins), ins)
               a == CpuAddress(d, ins)
           IN /\ DOMAIN v = Streams
              /\ \A k \in Streams \ {"data"} : v[k] = CpuEvents(ins)[k]
              /\ ins.op \in LoadOps =>
                   \E z : Entry(z, Size(ins.op), a, d.mem[Align(a)]) /\ v.data = << z >>
              /\ ins.op \notin LoadOps => v.data = CpuData(d, ins)
<1> DEFINE q == CpuEvents(ins)
           a == CpuAddress(d, ins)
           n == Size(ins.op)
           w == d.mem[Align(a)]
<1>1. ~CpuTraps(d, ins) /\ q.data = CpuData(d, ins)
  BY CpuDoes DEF Followed
<1>2. DOMAIN q = Streams
  BY DEF CpuEvents, Streams
<1>3. CASE ins.op \in LoadOps
  <2> DEFINE y == Access(TRUE, n, a, 0)
  <2>1. q.data = << y >>
    BY <1>1, <1>3 DEF CpuData, LoadOps, StoreOps
  <2>2. PICK z : Entry(y, n, a, z)
    BY DEF Entry, Access
  <2> DEFINE v == Valued(q, ins)
  <2>3. Revalued(q, w, v)
    BY <1>1, <1>3 DEF Valued, Revalued
  <2> HIDE DEF q, w, a, n, y, v
  <2>4. OneRead(v, q, n, a, w)
    BY <1>2, <2>1, <2>2, <2>3, StreamValued
  <2> QED BY <1>3, <2>4 DEF OneRead, q, w, a, n, v
<1>4. CASE ins.op \notin LoadOps
  <2>1. Valued(q, ins) = q
    BY <1>4 DEF Valued
  <2> QED BY <1>1, <1>2, <1>4, <2>1
<1> QED BY <1>3, <1>4

\* The model of MIPS1_CORE reads and writes as the CPU does; where the lanes of
\* the access are the whole word, it logs the access the monitor sees.
LEMMA MliteAccessFollows ==
    ASSUME CpuType, NEW p, NEW e, Start(e, p), NEW ins, Followed(ins), IsAccess(ins),
           ~CauseOf(ins).alias, ~CauseOf(ins).image,
           NEW x, MemHolds(x.mem), Ptr(x.cpu, ins) = CpuAddress(d, ins)
    PROVE  LET f == SimSwitch(e, ins, p, x)
               v == Valued(CpuEvents(ins), ins)
           IN /\ AllFollow(f, ins, p)
              /\ (\E y, z : f.data = << y >> /\ v.data = << z >>)
              /\ (~CauseOf(ins).lane => f.data = v.data)
<1> DEFINE f == SimSwitch(e, ins, p, x)
           a == CpuAddress(d, ins)
           n == Size(ins.op)
           v == Valued(CpuEvents(ins), ins)
<1>1. ~CauseOf(ins).lane => n = W
  BY DEF CauseOf
<1>2. CASE ins.op \in LoadOps
  <2> DEFINE r == mem_read(x.mem, n, a)
             w == d.mem[Align(a)]
             l == Access(TRUE, n, a, r)
  <2>1. f = MliteLoads(e, ins, a, x.mem)
    BY <1>2 DEF SimSwitch, IsLoad, IsStore, LoadOps, StoreOps, Cop0Ops
  <2>2. f = Put(PushData(e, l), ins.rt, IF ins.op \in {"LB", "LH"} THEN SignExt(r, n) ELSE r)
    BY <1>2, <2>1 DEF MliteLoads, LoadOps
  <2>3. r = Field(w, a, n) /\ (n = W => r = w)
    BY <1>2, MemoryRead
  <2>4. Reads(f, e, ins, l)
    BY <2>2, <2>3 DEF CpuLoaded, Reads
  <2>5. PICK z : Entry(z, n, a, w) /\ v.data = << z >>
    BY <1>2, ValuedAccess
  <2>6. n = W => w % n = w
    <3>1. w \in Word
      BY AddressFacts DEF Followed
    <3> HIDE DEF W, w, n
    <3> QED BY <3>1, WordFacts, ModSmall DEF Word
  <2> HIDE DEF f, l, v
  <2>7. AllFollow(f, ins, p) /\ f.data = << l >>
    <3> HIDE DEF r, w, n, a
    <3> QED BY <1>2, <2>4, LoadFollows
  <2>8. n = W => Entry(l, n, a, w)
    <3> HIDE DEF r, w, n, a
    <3> QED BY <2>3, <2>6 DEF l, Access, Entry
  <2>9. n = W => l = z
    <3> HIDE DEF r, w, n, a
    <3> QED BY <2>5, <2>8 DEF Entry
  <2> HIDE DEF r, w, n, a
  <2> QED BY <1>1, <2>5, <2>7, <2>9 DEF f, v, n
<1>3. CASE ins.op \in StoreOps
  <2> DEFINE l == Access(FALSE, n, a, d.r[ins.rt])
  <2>1. f = MliteStores(e, ins, a)
    BY <1>3 DEF SimSwitch, IsLoad, IsStore, LoadOps, StoreOps, Cop0Ops
  <2>2. f = PushData(e, l)
    BY <1>3, <2>1 DEF MliteStores, StoreOps, Start
  <2>3. v.data = << l >>
    <3>1. ins.op \notin LoadOps
      BY <1>3 DEF LoadOps, StoreOps
    <3>2. v.data = CpuData(d, ins)
      BY <3>1, ValuedAccess
    <3> QED BY <1>3, <3>1, <3>2 DEF CpuData
  <2> HIDE DEF f, l, v
  <2>4. AllFollow(f, ins, p) /\ f.data = << l >>
    BY <1>3, <2>2, StoreFollows
  <2> QED BY <2>3, <2>4 DEF f, v
<1> QED BY <1>2, <1>3 DEF IsAccess

=============================================================================
