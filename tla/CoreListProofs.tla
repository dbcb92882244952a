--------------------------- MODULE CoreListProofs ---------------------------
(***************************************************************************)
(* Proofs about CoreMark's list, for every list: first about its cells,    *)
(* then about their order and the data of the items.                       *)
(***************************************************************************)
EXTENDS CoreBenchListProps, FiniteSetTheorems, SequenceTheorems, WellFoundedInduction, TLAPS

LEMMA NatMin ==
    ASSUME NEW T, T \subseteq Nat, T # {}
    PROVE  \E n \in T : \A k \in T : n <= k
<1>1. PICK n \in T : \A k \in T : ~(<< k, n >> \in OpToRel(<, Nat))
  BY NatLessThanWellFounded, WFMin
<1>2. \A k \in T : ~(k < n)
  BY <1>1 DEF OpToRel
<1> QED BY <1>2

----------------------------------------------------------------------------
\* Chains.

N == Cardinality(Cells)

Pointers(g) == g.next \in [Cells -> Cells \cup {Nil}]

\* What Chain counts: the cells met from l on, and Nil after the last.
Walk(f, g, l) ==
    f = [k \in 1 .. N + 1 |->
            IF k = 1 THEN l ELSE IF f[k - 1] = Nil THEN Nil ELSE g.next[f[k - 1]]]

\* A walk of n steps.
Steps(f, n, g, l) ==
    /\ f \in [1 .. n -> Cells \cup {Nil}]
    /\ \A k \in 1 .. n :
         f[k] = IF k = 1 THEN l ELSE IF f[k - 1] = Nil THEN Nil ELSE g.next[f[k - 1]]

LEMMA StepsExist ==
    ASSUME NEW g, Pointers(g), NEW l \in Cells \cup {Nil}, NEW n \in Nat
    PROVE  \E f : Steps(f, n, g, l)
<1> DEFINE T == {k \in Nat : ~ \E f : Steps(f, k, g, l)}
<1> SUFFICES ASSUME T # {} PROVE FALSE
  OBVIOUS
<1>1. PICK k \in T : \A j \in T : k <= j
  BY NatMin
<1>2. CASE k = 0
  <2>1. Steps([x \in 1 .. 0 |-> l], 0, g, l)
    BY DEF Steps
  <2> QED BY <1>1, <1>2, <2>1
<1>3. CASE k # 0
  <2>1. k - 1 \in Nat /\ k - 1 \notin T
    BY <1>1, <1>3
  <2>2. PICK f : Steps(f, k - 1, g, l)
    BY <2>1
  <2> DEFINE e == IF k = 1 THEN l ELSE IF f[k - 1] = Nil THEN Nil ELSE g.next[f[k - 1]]
             u == [x \in 1 .. k |-> IF x < k THEN f[x] ELSE e]
  <2>3. e \in Cells \cup {Nil}
    BY <1>1, <1>3, <2>1, <2>2 DEF Steps, Pointers
  <2>4. Steps(u, k, g, l)
    <3> HIDE DEF e
    <3>1. u \in [1 .. k -> Cells \cup {Nil}]
      BY <2>1, <2>2, <2>3 DEF Steps
    <3>2. ASSUME NEW x \in 1 .. k
          PROVE  u[x] = IF x = 1 THEN l ELSE IF u[x - 1] = Nil THEN Nil ELSE g.next[u[x - 1]]
      <4>1. CASE x < k
        BY <2>1, <2>2, <4>1 DEF Steps
      <4>2. CASE x = k
        BY <2>1, <4>2 DEF e
      <4> QED BY <2>1, <4>1, <4>2
    <3> QED BY <3>1, <3>2 DEF Steps
  <2> QED BY <1>1, <2>4
<1> QED BY <1>2, <1>3

LEMMA WalkExists ==
    ASSUME NEW g, Pointers(g), NEW l \in Cells \cup {Nil}, N \in Nat
    PROVE  \E f : Walk(f, g, l)
<1> HIDE DEF N
<1>1. PICK f : Steps(f, N + 1, g, l)
  BY StepsExist
<1>2. Walk(f, g, l)
  BY <1>1 DEF Steps, Walk
<1> QED BY <1>2

LEMMA WalkSteps ==
    ASSUME NEW g, Pointers(g), NEW l \in Cells \cup {Nil}, N \in Nat,
           NEW f, Walk(f, g, l)
    PROVE  Steps(f, N + 1, g, l)
<1> HIDE DEF N
<1>1. \A k \in 1 .. N + 1 :
        f[k] = IF k = 1 THEN l ELSE IF f[k - 1] = Nil THEN Nil ELSE g.next[f[k - 1]]
  BY DEF Walk
<1> DEFINE T == {k \in 1 .. N + 1 : f[k] \notin Cells \cup {Nil}}
<1>2. T = {}
  <2> SUFFICES ASSUME T # {} PROVE FALSE
    OBVIOUS
  <2>1. PICK k \in T : \A j \in T : k <= j
    <3>1. T \subseteq Nat
      OBVIOUS
    <3> HIDE DEF T
    <3> QED BY <3>1, NatMin
  <2>2. k # 1
    BY <1>1
  <2> DEFINE y == f[k - 1]
  <2>3. k - 1 \in 1 .. N + 1 /\ k - 1 \notin T
    BY <2>1, <2>2
  <2>4. y \in Cells \cup {Nil} /\ f[k] = IF y = Nil THEN Nil ELSE g.next[y]
    BY <1>1, <2>2, <2>3
  <2> HIDE DEF y
  <2>5. f[k] \in Cells \cup {Nil}
    BY <2>4 DEF Pointers
  <2> QED BY <2>5
<1>3. f \in [1 .. N + 1 -> Cells \cup {Nil}]
  BY <1>2 DEF Walk
<1> QED BY <1>1, <1>3 DEF Steps

\* The cells of a walk are met before the first Nil.
LEMMA WalkFacts ==
    ASSUME NEW g, Pointers(g), NEW l \in Cells \cup {Nil}, N \in Nat,
           NEW f, Steps(f, N + 1, g, l)
    PROVE  \E z \in 0 .. N + 1 :
             /\ \A k \in 1 .. z : f[k] \in Cells
             /\ \A k \in z + 1 .. N + 1 : f[k] = Nil
             /\ {k \in 1 .. N + 1 : f[k] # Nil} = 1 .. z
<1> HIDE DEF N
<1> DEFINE T == {k \in Nat : k = N + 2 \/ (k \in 1 .. N + 1 /\ f[k] = Nil)}
<1>1. PICK z \in T : \A j \in T : z <= j
  <2>1. N + 2 \in T
    OBVIOUS
  <2> QED BY <2>1, NatMin
<1>2. z \in 1 .. N + 2 /\ \A k \in 1 .. z - 1 : f[k] # Nil
  BY <1>1
<1>3. \A k \in 1 .. z - 1 : f[k] \in Cells
  BY <1>2 DEF Steps
<1> DEFINE V == {k \in z .. N + 1 : f[k] # Nil}
<1>4. V = {}
  <2> SUFFICES ASSUME V # {} PROVE FALSE
    OBVIOUS
  <2>1. PICK k \in V : \A j \in V : k <= j
    <3>1. V \subseteq Nat
      BY <1>2
    <3> HIDE DEF V
    <3> QED BY <3>1, NatMin
  <2>2. k # z /\ k > z
    BY <1>1, <1>2
  <2>3. k - 1 \in z .. N + 1 /\ k - 1 \notin V
    BY <1>2, <2>1, <2>2
  <2>4. f[k - 1] = Nil
    BY <2>3
  <2>5. k \in 1 .. N + 1 /\ k # 1
    BY <1>2, <2>2
  <2>6. f[k] = Nil
    BY <2>4, <2>5 DEF Steps
  <2> QED BY <2>6
<1>5. \A k \in z .. N + 1 : f[k] = Nil
  BY <1>4
<1>6. {k \in 1 .. N + 1 : f[k] # Nil} = 1 .. z - 1
  BY <1>2, <1>5
<1>7. z - 1 \in 0 .. N + 1 /\ (z - 1) + 1 = z
  BY <1>2
<1> QED BY <1>3, <1>5, <1>6, <1>7

\* The walk f meets z cells, and these are the chain.
Walks(f, z, g, l) ==
    /\ Steps(f, N + 1, g, l) /\ z \in 0 .. N + 1
    /\ \A k \in z + 1 .. N + 1 : f[k] = Nil
    /\ Chain(g, l) \in Seq(Cells) /\ Len(Chain(g, l)) = z
    /\ \A k \in 1 .. z : Chain(g, l)[k] = f[k] /\ f[k] \in Cells

LEMMA ChainFacts ==
    ASSUME NEW g, Pointers(g), NEW l \in Cells \cup {Nil}, N \in Nat
    PROVE  \E f, z : Walks(f, z, g, l)
<1> HIDE DEF N
<1> DEFINE f == CHOOSE e : Walk(e, g, l)
           S == {k \in 1 .. N + 1 : f[k] # Nil}
<1>1. Walk(f, g, l)
  BY WalkExists
<1>2. Chain(g, l) = [k \in 1 .. Cardinality(S) |-> f[k]]
  BY DEF Chain, Walk, N
<1> HIDE DEF f
<1>3. Steps(f, N + 1, g, l)
  BY <1>1, WalkSteps
<1>4. PICK z \in 0 .. N + 1 :
         /\ \A k \in 1 .. z : f[k] \in Cells
         /\ \A k \in z + 1 .. N + 1 : f[k] = Nil
         /\ S = 1 .. z
  BY <1>3, WalkFacts
<1> HIDE DEF S
<1>5. Cardinality(S) = z
  <2>1. Cardinality(1 .. z) = z
    BY <1>4, FS_Interval
  <2> QED BY <1>4, <2>1
<1>6. Chain(g, l) = [k \in 1 .. z |-> f[k]]
  BY <1>2, <1>5
<1>7. Chain(g, l) \in Seq(Cells) /\ Len(Chain(g, l)) = z
  <2>1. [k \in 1 .. z |-> f[k]] \in Seq(Cells)
    BY <1>4
  <2> QED BY <1>4, <1>6, <2>1
<1>8. \A k \in 1 .. z : Chain(g, l)[k] = f[k]
  BY <1>6
<1> QED BY <1>3, <1>4, <1>7, <1>8 DEF Walks

\* Cells that are linked one to the next are the first of the chain, and all
\* of it if the last is not linked to another.
Begins(g, l, u, n) ==
    /\ Chain(g, l) \in Seq(Cells) /\ n <= Len(Chain(g, l))
    /\ \A k \in 1 .. n : Chain(g, l)[k] = u[k]
    /\ (n > 0 => g.next[u[n]] = Nil) => Len(Chain(g, l)) = n

LEMMA ChainPrefix ==
    ASSUME NEW g, Pointers(g), NEW l \in Cells \cup {Nil}, N \in Nat,
           NEW n \in 0 .. N, NEW u \in [1 .. n -> Cells],
           l = IF n = 0 THEN Nil ELSE u[1],
           \A k \in 1 .. n - 1 : g.next[u[k]] = u[k + 1]
    PROVE  Begins(g, l, u, n)
<1> HIDE DEF N
<1>1. PICK f, z : Walks(f, z, g, l)
  BY ChainFacts
<1>10. /\ Steps(f, N + 1, g, l) /\ z \in 0 .. N + 1
       /\ \A k \in z + 1 .. N + 1 : f[k] = Nil
       /\ Chain(g, l) \in Seq(Cells) /\ Len(Chain(g, l)) = z
       /\ \A k \in 1 .. z : Chain(g, l)[k] = f[k] /\ f[k] \in Cells
  BY <1>1 DEF Walks
<1>2. \A k \in 1 .. N + 1 :
        f[k] = IF k = 1 THEN l ELSE IF f[k - 1] = Nil THEN Nil ELSE g.next[f[k - 1]]
  BY <1>10 DEF Steps
<1>3. \A k \in 1 .. n : u[k] \in Cells /\ u[k] # Nil
  BY NilAssumption
<1> DEFINE T == {k \in 1 .. n : f[k] # u[k]}
<1>4. T = {}
  <2> SUFFICES ASSUME T # {} PROVE FALSE
    OBVIOUS
  <2>1. PICK k \in T : \A j \in T : k <= j
    <3>1. T \subseteq Nat
      OBVIOUS
    <3> HIDE DEF T
    <3> QED BY <3>1, NatMin
  <2>2. k # 1
    BY <1>2
  <2>3. k - 1 \in 1 .. n - 1 /\ k - 1 \notin T
    BY <2>1, <2>2
  <2>4. f[k - 1] = u[k - 1] /\ f[k] = IF f[k - 1] = Nil THEN Nil ELSE g.next[f[k - 1]]
    BY <1>2, <2>2, <2>3
  <2>5. f[k] = g.next[u[k - 1]]
    BY <1>3, <2>3, <2>4
  <2>6. g.next[u[k - 1]] = u[(k - 1) + 1]
    BY <2>3
  <2> QED BY <2>3, <2>5, <2>6
<1>5. \A k \in 1 .. n : f[k] = u[k]
  BY <1>4
<1>6. n <= z
  <2> SUFFICES ASSUME z < n PROVE FALSE
    BY <1>10
  <2>1. f[z + 1] = Nil /\ f[z + 1] = u[z + 1] /\ z + 1 \in 1 .. n
    BY <1>10, <1>5
  <2> QED BY <1>3, <2>1
<1>7. ASSUME n > 0 => g.next[u[n]] = Nil PROVE z = n
  <2> SUFFICES ASSUME n < z PROVE FALSE
    BY <1>10, <1>6
  <2>1. f[n + 1] = Nil
    <3>1. CASE n = 0
      BY <1>2, <3>1
    <3>2. CASE n # 0
      <4>1. f[n] = u[n] /\ u[n] # Nil /\ g.next[u[n]] = Nil
        BY <1>3, <1>5, <1>7, <3>2
      <4>2. n + 1 \in 1 .. N + 1 /\ n + 1 # 1 /\ (n + 1) - 1 = n
        BY <3>2
      <4> QED BY <1>2, <4>1, <4>2
    <3> QED BY <3>1, <3>2
  <2>2. f[n + 1] \in Cells
    BY <1>10
  <2> QED BY <2>1, <2>2, NilAssumption
<1> QED BY <1>10, <1>5, <1>6, <1>7 DEF Begins

----------------------------------------------------------------------------
\* The list of core_bench_list.

\* u lists the cells of S, each once.
Lists(u, n, S) ==
    /\ n \in Nat /\ u \in [1 .. n -> S]
    /\ \A j, k \in 1 .. n : u[j] = u[k] => j = k
    /\ \A x \in S : \E k \in 1 .. n : u[k] = x

\* u is the list.
Whole(u, n) ==
    /\ n > 0 /\ list = u[1]
    /\ \A k \in 1 .. n - 1 : h.next[u[k]] = u[k + 1]
    /\ h.next[u[n]] = Nil

\* u is the list in the middle of a pass: a cells are merged, the next psize
\* are left of p's run, and from q on it is as before the merge.  What the
\* last cells of the two runs before q point to does not matter.
Split(u, n, a) ==
    LET b == a + srt.psize IN
    /\ a \in Nat /\ b <= n
    /\ list = IF a = 0 THEN Nil ELSE u[1]
    /\ srt.tail = IF a = 0 THEN Nil ELSE u[a]
    /\ \A k \in 1 .. n - 1 : k # a /\ k # b => h.next[u[k]] = u[k + 1]
    /\ b < n => h.next[u[n]] = Nil
    /\ srt.at = "pass" => srt.psize = 0 /\ srt.p = IF a < n THEN u[a + 1] ELSE Nil
    /\ srt.at = "merge" =>
         /\ srt.psize > 0 => srt.p = u[a + 1]
         /\ srt.q = IF b < n THEN u[b + 1] ELSE Nil

Sorts == [at : {"off", "pass", "merge"}, p : Cells \cup {Nil}, q : Cells \cup {Nil},
          tail : Cells \cup {Nil}, insize : Nat \ {0}, nmerges : Nat, psize : Nat, qsize : Nat]

ListType ==
    /\ h \in Heaps /\ list \in Cells \cup {Nil} /\ srt \in Sorts
    /\ at \in {"init", "ready", "find", "sort", "remove", "undo", "index", "return"}
    /\ srt.at # "off" => at \in {"init", "sort", "index"}
    /\ IF at = "undo" THEN remover \in Cells ELSE remover = Nil

ItemsOnce == \A x, y \in Cells : h.info[x] = h.info[y] => x = y

\* The inductive invariant.
ListInv ==
    /\ ListType /\ ItemsOnce
    /\ IF srt.at = "off" THEN \E u, n : Lists(u, n, Cells \ {remover}) /\ Whole(u, n)
                         ELSE \E u, n, a : Lists(u, n, Cells) /\ Split(u, n, a)

LEMMA SizeFacts ==
    /\ Size \in Nat /\ Size >= 4 /\ Cells = 1 .. Size - 1 /\ Items = Cells
    /\ N = Size - 1 /\ N \in Nat /\ IsFiniteSet(Cells) /\ Nil \notin Cells
<1>1. Size \in Nat /\ Size >= 4 /\ Cells = 1 .. Size - 1 /\ Items = Cells
  BY SizeAssumption
<1>2. IsFiniteSet(1 .. Size - 1) /\ Cardinality(1 .. Size - 1) = Size - 1
  BY <1>1, FS_Interval
<1> QED BY <1>1, <1>2, NilAssumption DEF N

\* As many places as cells.
LEMMA ListLength ==
    ASSUME NEW S, IsFiniteSet(S), NEW u, NEW n, Lists(u, n, S)
    PROVE  n = Cardinality(S)
<1>1. n \in Nat /\ u \in Bijection(1 .. n, S)
  BY DEF Lists, Bijection, Injection, Surjection, IsInjective
<1>2. ExistsBijection(1 .. n, S)
  BY <1>1 DEF ExistsBijection
<1> QED BY <1>1, <1>2, FS_CountingElements

\* The cell at b + 1 comes to the front of those behind the first a.
Rotated(u, n, a, b) ==
    [k \in 1 .. n |-> IF k = a + 1 THEN u[b + 1]
                      ELSE IF k > a + 1 /\ k <= b + 1 THEN u[k - 1] ELSE u[k]]

LEMMA RotateLists ==
    ASSUME NEW S, NEW u, NEW n, Lists(u, n, S), NEW a \in 0 .. n - 1, NEW b \in a .. n - 1,
           NEW v, v = Rotated(u, n, a, b)
    PROVE  Lists(v, n, S)
<1>0. n \in Nat /\ a \in 0 .. n - 1 /\ b \in a .. n - 1
  BY DEF Lists
<1>1. \A k \in 1 .. n : u[k] \in S
  BY DEF Lists
<1>2. v \in [1 .. n -> S]
  BY <1>0, <1>1 DEF Rotated
<1>3. \A j, k \in 1 .. n : u[j] = u[k] => j = k
  BY DEF Lists
<1> DEFINE from(k) == IF k = a + 1 THEN b + 1 ELSE IF k > a + 1 /\ k <= b + 1 THEN k - 1 ELSE k
<1>4. \A k \in 1 .. n : from(k) \in 1 .. n /\ v[k] = u[from(k)]
  BY <1>0 DEF Rotated
<1>5. \A j, k \in 1 .. n : from(j) = from(k) => j = k
  BY <1>0
<1>6. \A k \in 1 .. n : \E j \in 1 .. n : from(j) = k
  <2> SUFFICES ASSUME NEW k \in 1 .. n PROVE \E j \in 1 .. n : from(j) = k
    OBVIOUS
  <2>1. CASE k = b + 1
    <3>1. from(a + 1) = k /\ a + 1 \in 1 .. n
      BY <1>0, <2>1
    <3> QED BY <3>1
  <2>2. CASE k > a /\ k < b + 1
    <3>1. from(k + 1) = k /\ k + 1 \in 1 .. n
      BY <1>0, <2>2
    <3> QED BY <3>1
  <2>3. CASE k <= a \/ k > b + 1
    <3>1. from(k) = k
      BY <1>0, <2>3
    <3> QED BY <3>1
  <2> QED BY <1>0, <2>1, <2>2, <2>3
<1> HIDE DEF from
<1>7. \A j, k \in 1 .. n : v[j] = v[k] => j = k
  BY <1>3, <1>4, <1>5
<1>8. \A x \in S : \E k \in 1 .. n : v[k] = x
  <2> SUFFICES ASSUME NEW x \in S PROVE \E k \in 1 .. n : v[k] = x
    OBVIOUS
  <2>1. PICK k \in 1 .. n : u[k] = x
    BY DEF Lists
  <2>2. PICK j \in 1 .. n : from(j) = k
    BY <1>6
  <2> QED BY <1>4, <2>1, <2>2
<1> QED BY <1>0, <1>2, <1>7, <1>8 DEF Lists

LEMMA InitList == Init => ListInv
<1> SUFFICES ASSUME Init PROVE ListInv
  OBVIOUS
<1> DEFINE n == Size - 1
           u == [k \in 1 .. n |-> IF k = 1 THEN 1 ELSE Size + 1 - k]
<1>1. \A k \in Cells : InitNext(k) = IF k = 1 THEN n ELSE IF k = 2 THEN Nil ELSE k - 1
  BY SizeFacts DEF InitNext
<1>2. h.next = [k \in Cells |-> InitNext(k)] /\ h.info = [k \in Cells |-> k] /\ list = 1
      /\ h = [next |-> h.next, info |-> h.info]
      /\ srt = Off /\ at = "init" /\ remover = Nil
  BY DEF Init
<1>3. h \in Heaps
  <2>1. h.next \in [Cells -> Cells \cup {Nil}] /\ h.info \in [Cells -> Items]
    BY <1>1, <1>2, SizeFacts
  <2> QED BY <1>2, <2>1 DEF Heaps
<1>4. srt \in Sorts /\ srt.at = "off"
  BY <1>2 DEF Sorts, Off
<1>5. ListType
  BY <1>2, <1>3, <1>4, SizeFacts DEF ListType
<1>6. ItemsOnce
  BY <1>2 DEF ItemsOnce
<1>7. Lists(u, n, Cells \ {remover})
  <2>1. Cells \ {remover} = Cells
    BY <1>2, SizeFacts
  <2>2. n \in Nat /\ u \in [1 .. n -> Cells]
    BY SizeFacts
  <2>3. \A j, k \in 1 .. n : u[j] = u[k] => j = k
    BY SizeFacts
  <2>4. \A x \in Cells : \E k \in 1 .. n : u[k] = x
    <3> SUFFICES ASSUME NEW x \in Cells PROVE \E k \in 1 .. n : u[k] = x
      OBVIOUS
    <3>1. CASE x = 1
      BY <3>1, SizeFacts
    <3>2. CASE x # 1
      <4>1. Size + 1 - x \in 1 .. n /\ u[Size + 1 - x] = x
        BY <3>2, SizeFacts
      <4> QED BY <4>1
    <3> QED BY <3>1, <3>2
  <2> QED BY <2>1, <2>2, <2>3, <2>4 DEF Lists
<1>8. Whole(u, n)
  <2>1. ASSUME NEW k \in 1 .. n - 1 PROVE h.next[u[k]] = u[k + 1]
    <3> DEFINE x == u[k]
    <3>1. x = (IF k = 1 THEN 1 ELSE Size + 1 - k) /\ u[k + 1] = Size - k
      BY SizeFacts
    <3>2. x \in Cells /\ InitNext(x) = Size - k
      BY <1>1, <3>1, SizeFacts
    <3> HIDE DEF x
    <3>3. h.next[x] = InitNext(x)
      BY <1>2, <3>2
    <3> QED BY <3>1, <3>2, <3>3 DEF x
  <2>2. h.next[u[n]] = Nil
    <3>1. u[n] = 2 /\ 2 \in Cells /\ InitNext(2) = Nil
      BY <1>1, SizeFacts
    <3>2. h.next[2] = InitNext(2)
      BY <1>2, <3>1
    <3> QED BY <3>1, <3>2
  <2>3. n > 0 /\ list = u[1]
    BY <1>2, SizeFacts
  <2> HIDE DEF n, u
  <2> QED BY <2>1, <2>2, <2>3 DEF Whole
<1> QED BY <1>4, <1>5, <1>6, <1>7, <1>8 DEF ListInv

\* One pointer of the heap changes.
OneNext(g, f, x, y) ==
    /\ g \in Heaps /\ g.info = f.info /\ g.next[x] = y
    /\ \A k \in Cells \ {x} : g.next[k] = f.next[k]

LEMMA NextSet ==
    ASSUME NEW f \in Heaps, NEW x \in Cells, NEW y \in Cells \cup {Nil}, NEW g,
           g = [f EXCEPT !.next[x] = y]
    PROVE  OneNext(g, f, x, y)
<1>1. /\ f = [next |-> f.next, info |-> f.info]
      /\ f.next \in [Cells -> Cells \cup {Nil}] /\ f.info \in [Cells -> Items]
  BY DEF Heaps
<1>2. g = [next |-> [f.next EXCEPT ![x] = y], info |-> f.info]
  BY <1>1
<1>3. g.next = [f.next EXCEPT ![x] = y] /\ g.info = f.info
  BY <1>2
<1> QED BY <1>1, <1>2, <1>3 DEF Heaps, OneNext

\* What stays when the sort goes on.
LEMMA SameItems ==
    ASSUME ItemsOnce, h'.info = h.info
    PROVE  ItemsOnce'
BY DEF ItemsOnce

\* e goes behind the a cells that are merged, of which u[a + 1] is the next.
LEMMA Linked ==
    ASSUME ListType, NEW n, NEW u, Lists(u, n, Cells), NEW a \in 0 .. n - 1,
           list = IF a = 0 THEN Nil ELSE u[1], srt.tail = IF a = 0 THEN Nil ELSE u[a],
           Link(u[a + 1])
    PROVE  /\ h' \in Heaps /\ h'.info = h.info /\ list' = u[1]
           /\ a > 0 => h'.next[u[a]] = u[a + 1]
           /\ \A k \in 1 .. n : k # a => h'.next[u[k]] = h.next[u[k]]
<1>1. n \in Nat /\ \A k \in 1 .. n : u[k] \in Cells /\ u[k] # Nil
  BY SizeFacts DEF Lists
<1>2. CASE a = 0
  BY <1>1, <1>2 DEF Link, ListType
<1>3. CASE a # 0
  <2>1. a \in 1 .. n /\ srt.tail = u[a] /\ srt.tail # Nil /\ srt.tail \in Cells /\ u[a + 1] \in Cells
    BY <1>1, <1>3
  <2>2. h' = [h EXCEPT !.next[srt.tail] = u[a + 1]] /\ list' = list
    BY <2>1 DEF Link
  <2>3. /\ h' \in Heaps /\ h'.info = h.info /\ h'.next[srt.tail] = u[a + 1]
        /\ \A k \in Cells \ {srt.tail} : h'.next[k] = h.next[k]
    <3>1. h \in Heaps
      BY DEF ListType
    <3>2. OneNext(h', h, srt.tail, u[a + 1])
      BY <2>1, <2>2, <3>1, NextSet
    <3> QED BY <3>2 DEF OneNext
  <2>4. ASSUME NEW k \in 1 .. n, k # a PROVE h'.next[u[k]] = h.next[u[k]]
    <3>1. u[k] # u[a]
      BY <2>1, <2>4 DEF Lists
    <3> QED BY <1>1, <2>1, <2>3, <3>1
  <2> QED BY <1>3, <2>1, <2>2, <2>3, <2>4
<1> QED BY <1>2, <1>3

----------------------------------------------------------------------------
\* The steps of the sort.

\* A pass or a merge goes on with the cells in the order u.
LEMMA SplitInv ==
    ASSUME ListInv, srt.at # "off", UNCHANGED << at, remover >>,
           h' \in Heaps, h'.info = h.info, list' \in Cells \cup {Nil},
           srt' \in Sorts, srt'.at # "off",
           NEW u, NEW n, NEW a, Lists(u, n, Cells), Split(u, n, a)'
    PROVE  ListInv'
<1>1. ListType'
  BY DEF ListInv, ListType
<1>2. ItemsOnce'
  BY SameItems DEF ListInv
<1> QED BY <1>1, <1>2 DEF ListInv

LEMMA TakePSplit ==
    ASSUME ListInv, TakeP, UNCHANGED << at, remover >>,
           NEW u, NEW n, NEW a, Lists(u, n, Cells), Split(u, n, a)
    PROVE  Split(u, n, a + 1)' /\ ListInv'
<1>1. Lists(u, n, Cells) /\ Split(u, n, a)
  OBVIOUS
<1>2. /\ srt \in Sorts /\ srt.at = "merge" /\ srt.psize \in Nat /\ srt.psize > 0
      /\ h \in Heaps /\ ListType
  BY DEF TakeP, PEmpty, ListInv, ListType, Sorts
<1> DEFINE b == a + srt.psize
<1>3. /\ a \in Nat /\ b <= n /\ n \in Nat /\ a \in 0 .. n - 1
      /\ list = (IF a = 0 THEN Nil ELSE u[1]) /\ srt.tail = (IF a = 0 THEN Nil ELSE u[a])
      /\ \A k \in 1 .. n - 1 : k # a /\ k # b => h.next[u[k]] = u[k + 1]
      /\ b < n => h.next[u[n]] = Nil
      /\ srt.p = u[a + 1] /\ srt.q = IF b < n THEN u[b + 1] ELSE Nil
  BY <1>1, <1>2 DEF Split, Lists
<1>4. \A k \in 1 .. n : u[k] \in Cells
  BY <1>1 DEF Lists
<1>5. /\ h' \in Heaps /\ h'.info = h.info /\ list' = u[1]
      /\ a > 0 => h'.next[u[a]] = u[a + 1]
      /\ \A k \in 1 .. n : k # a => h'.next[u[k]] = h.next[u[k]]
  <2>1. Link(u[a + 1])
    BY <1>3 DEF TakeP
  <2> QED BY <1>1, <1>2, <1>3, <2>1, Linked
<1>6. h.next[srt.p] \in Cells \cup {Nil} /\ srt.p \in Cells
  BY <1>2, <1>3, <1>4 DEF Heaps
<1>7. srt' = [srt EXCEPT !.p = h.next[srt.p], !.psize = @ - 1, !.tail = srt.p]
  BY DEF TakeP
<1>8. /\ srt'.at = "merge" /\ srt'.p = h.next[u[a + 1]] /\ srt'.psize = srt.psize - 1
      /\ srt'.tail = u[a + 1] /\ srt'.q = srt.q /\ srt' \in Sorts
  <2>1. srt.psize - 1 \in Nat
    BY <1>2
  <2>2. srt' = [at |-> srt.at, p |-> h.next[srt.p], q |-> srt.q, tail |-> srt.p, insize |-> srt.insize,
                nmerges |-> srt.nmerges, psize |-> srt.psize - 1, qsize |-> srt.qsize]
    BY <1>2, <1>7 DEF Sorts
  <2>3. srt' \in Sorts
    BY <1>2, <1>6, <2>1, <2>2 DEF Sorts
  <2> QED BY <1>2, <1>3, <2>2, <2>3
<1>9. Split(u, n, a + 1)'
  <2>1. (a + 1) + srt'.psize = b
    BY <1>2, <1>3, <1>8
  <2>2. \A k \in 1 .. n - 1 : k # a + 1 /\ k # b => h'.next[u[k]] = u[k + 1]
    BY <1>3, <1>5
  <2>3. b < n => h'.next[u[n]] = Nil
    BY <1>2, <1>3, <1>5
  <2>4. srt'.psize > 0 => srt'.p = u[(a + 1) + 1]
    BY <1>2, <1>3, <1>8
  <2> HIDE DEF b
  <2> QED BY <1>3, <1>5, <1>8, <2>1, <2>2, <2>3, <2>4 DEF Split
<1>10. ListInv'
  BY <1>1, <1>2, <1>3, <1>4, <1>5, <1>8, <1>9, SplitInv
<1> QED BY <1>9, <1>10

LEMMA TakeQSplit ==
    ASSUME ListInv, TakeQ, UNCHANGED << at, remover >>,
           NEW u, NEW n, NEW a, Lists(u, n, Cells), Split(u, n, a)
    PROVE  \E v : /\ v = Rotated(u, n, a, a + srt.psize)
                  /\ Lists(v, n, Cells) /\ Split(v, n, a + 1)' /\ ListInv'
<1>1. Lists(u, n, Cells) /\ Split(u, n, a)
  OBVIOUS
<1>2. /\ srt \in Sorts /\ srt.at = "merge" /\ srt.psize \in Nat /\ srt.qsize \in Nat
      /\ srt.q # Nil /\ srt.qsize > 0 /\ h \in Heaps /\ ListType
  BY DEF TakeQ, QEmpty, ListInv, ListType, Sorts
<1> DEFINE b == a + srt.psize
<1>v. PICK v : v = Rotated(u, n, a, b)
  OBVIOUS
<1>3. /\ a \in Nat /\ b <= n /\ n \in Nat
      /\ list = (IF a = 0 THEN Nil ELSE u[1]) /\ srt.tail = (IF a = 0 THEN Nil ELSE u[a])
      /\ \A k \in 1 .. n - 1 : k # a /\ k # b => h.next[u[k]] = u[k + 1]
      /\ b < n => h.next[u[n]] = Nil
      /\ srt.psize > 0 => srt.p = u[a + 1]
      /\ srt.q = IF b < n THEN u[b + 1] ELSE Nil
  BY <1>1, <1>2 DEF Split, Lists
<1>4. a \in 0 .. n - 1 /\ b \in a .. n - 1 /\ srt.q = u[b + 1] /\ h.next[u[n]] = Nil
  BY <1>2, <1>3
<1>5. Lists(v, n, Cells)
  BY <1>1, <1>v, <1>3, <1>4, RotateLists
<1>6. /\ v[a + 1] = u[b + 1]
      /\ \A k \in 1 .. n : k <= a \/ k > b + 1 => v[k] = u[k]
      /\ \A k \in 1 .. n : k > a + 1 /\ k <= b + 1 => v[k] = u[k - 1]
  BY <1>v, <1>3, <1>4 DEF Rotated
<1>7. /\ h' \in Heaps /\ h'.info = h.info /\ list' = v[1]
      /\ a > 0 => h'.next[v[a]] = v[a + 1]
      /\ \A k \in 1 .. n : k # a => h'.next[v[k]] = h.next[v[k]]
  <2>1. Link(v[a + 1])
    BY <1>4, <1>6 DEF TakeQ
  <2>2. list = (IF a = 0 THEN Nil ELSE v[1]) /\ srt.tail = (IF a = 0 THEN Nil ELSE v[a])
    BY <1>3, <1>4, <1>6
  <2> QED BY <1>2, <1>4, <1>5, <2>1, <2>2, Linked
<1>8. \A k \in 1 .. n : v[k] \in Cells
  BY <1>5 DEF Lists
<1>9. h.next[srt.q] \in Cells \cup {Nil} /\ srt.q \in Cells
  BY <1>2, <1>3, <1>4, <1>6, <1>8 DEF Heaps
<1>10. srt' = [srt EXCEPT !.q = h.next[srt.q], !.qsize = @ - 1, !.tail = srt.q]
  BY DEF TakeQ
<1>11. /\ srt'.at = "merge" /\ srt'.q = h.next[u[b + 1]] /\ srt'.psize = srt.psize
       /\ srt'.tail = v[a + 1] /\ srt'.p = srt.p /\ srt' \in Sorts
  <2>1. srt.qsize - 1 \in Nat
    BY <1>2
  <2>2. srt' = [at |-> srt.at, p |-> srt.p, q |-> h.next[srt.q], tail |-> srt.q, insize |-> srt.insize,
                nmerges |-> srt.nmerges, psize |-> srt.psize, qsize |-> srt.qsize - 1]
    BY <1>2, <1>10 DEF Sorts
  <2>3. srt' \in Sorts
    BY <1>2, <1>9, <2>1, <2>2 DEF Sorts
  <2> QED BY <1>2, <1>4, <1>6, <2>2, <2>3
<1>12. Split(v, n, a + 1)'
  <2>1. (a + 1) + srt'.psize = b + 1 /\ b + 1 <= n /\ srt.psize = b - a
    BY <1>2, <1>3, <1>4, <1>11
  <2>2. ASSUME NEW k \in 1 .. n - 1, k # a + 1, k # b + 1
        PROVE  h'.next[v[k]] = v[k + 1]
    <3>1. CASE k = a
      BY <1>7, <3>1
    <3>2. CASE k < a
      BY <1>3, <1>4, <1>6, <1>7, <3>2
    <3>3. CASE k > a /\ k < b + 1
      <4>1. v[k] = u[k - 1] /\ v[k + 1] = u[k] /\ k - 1 \in 1 .. n - 1 /\ k - 1 # a /\ k - 1 # b
        BY <1>3, <1>4, <1>6, <2>2, <3>3
      <4>2. h.next[u[k - 1]] = u[(k - 1) + 1]
        BY <1>3, <4>1
      <4>3. h'.next[v[k]] = h.next[v[k]]
        BY <1>3, <1>4, <1>7, <3>3
      <4> QED BY <4>1, <4>2, <4>3
    <3>4. CASE k > b + 1
      BY <1>3, <1>4, <1>6, <1>7, <3>4
    <3> QED BY <1>4, <2>2, <3>1, <3>2, <3>3, <3>4
  <2>3. b + 1 < n => h'.next[v[n]] = Nil
    BY <1>3, <1>4, <1>6, <1>7
  <2>4. srt'.psize > 0 => srt'.p = v[(a + 1) + 1]
    BY <1>2, <1>3, <1>4, <1>6, <1>11
  <2>5. srt'.q = IF b + 1 < n THEN v[(b + 1) + 1] ELSE Nil
    <3>1. CASE b + 1 < n
      <4>1. b + 1 \in 1 .. n - 1 /\ b + 1 # a /\ b + 1 # b /\ v[(b + 1) + 1] = u[(b + 1) + 1]
        BY <1>3, <1>4, <1>6, <3>1
      <4>2. h.next[u[b + 1]] = u[(b + 1) + 1]
        BY <1>3, <4>1
      <4> QED BY <1>11, <3>1, <4>1, <4>2
    <3>2. CASE b + 1 = n
      BY <1>4, <1>11, <3>2
    <3> QED BY <1>3, <1>4, <3>1, <3>2
  <2>6. a + 1 \in Nat /\ a + 1 # 0 /\ list' = v[1]
    BY <1>3, <1>4, <1>7
  <2>7. /\ (IF a + 1 = 0 THEN Nil ELSE v[1]) = v[1]
        /\ (IF a + 1 = 0 THEN Nil ELSE v[a + 1]) = v[a + 1]
    BY <2>6
  <2> DEFINE t == b + 1
  <2>8. t = (a + 1) + srt'.psize /\ t \in Int
    BY <1>2, <1>3, <2>1
  <2> HIDE DEF b
  <2>9. /\ t <= n /\ \A k \in 1 .. n - 1 : k # a + 1 /\ k # t => h'.next[v[k]] = v[k + 1]
        /\ t < n => h'.next[v[n]] = Nil
        /\ srt'.q = IF t < n THEN v[t + 1] ELSE Nil
    BY <2>1, <2>2, <2>3, <2>5
  <2> HIDE DEF t
  <2> QED BY <1>11, <2>4, <2>6, <2>7, <2>8, <2>9 DEF Split
<1>13. list' \in Cells \cup {Nil}
  BY <1>3, <1>4, <1>7, <1>8
<1>14. srt.at # "off" /\ srt'.at # "off"
  BY <1>2, <1>11
<1> DEFINE e == a + 1
<1>15. Split(v, n, e)'
  BY <1>12
<1>16. ListInv'
  <2> HIDE DEF e, b
  <2> QED BY <1>5, <1>7, <1>11, <1>13, <1>14, <1>15, SplitInv
<1> QED BY <1>v, <1>5, <1>12, <1>16

\* The run of p ends with the list or after insize cells.
LEMMA MergeStartSplit ==
    ASSUME ListInv, MergeStart, UNCHANGED << at, remover >>,
           NEW u, NEW n, NEW a, Lists(u, n, Cells), Split(u, n, a)
    PROVE  /\ Split(u, n, a)' /\ ListInv'
           /\ srt'.psize = IF n - a < srt.insize THEN n - a ELSE srt.insize
<1>1. Lists(u, n, Cells) /\ Split(u, n, a)
  OBVIOUS
<1>2. /\ srt \in Sorts /\ srt.at = "pass" /\ srt.p # Nil /\ srt.psize = 0 /\ srt.insize \in Nat \ {0}
      /\ h \in Heaps /\ ListType /\ list \in Cells \cup {Nil}
  BY <1>1 DEF MergeStart, ListInv, ListType, Sorts, Split
<1>3. /\ a \in Nat /\ n \in Nat /\ a < n /\ srt.p = u[a + 1]
      /\ list = (IF a = 0 THEN Nil ELSE u[1]) /\ srt.tail = (IF a = 0 THEN Nil ELSE u[a])
      /\ \A k \in 1 .. n - 1 : k # a => h.next[u[k]] = u[k + 1]
      /\ h.next[u[n]] = Nil
  BY <1>1, <1>2 DEF Split, Lists
<1>4. \A k \in 1 .. n : u[k] \in Cells
  BY <1>1 DEF Lists
<1> DEFINE c == Chain(h, srt.p)
           t == IF Len(c) < srt.insize THEN Len(c) ELSE srt.insize
<1>5. c \in Seq(Cells) /\ Len(c) = n - a /\ \A k \in 1 .. n - a : c[k] = u[a + k]
  <2>1. PICK w : w = [k \in 1 .. n - a |-> u[a + k]]
    OBVIOUS
  <2>2. n - a \in 0 .. N
    <3>1. n = N
      BY <1>1, ListLength, SizeFacts DEF N
    <3> QED BY <1>3, <3>1
  <2>3. w \in [1 .. n - a -> Cells] /\ \A k \in 1 .. n - a : w[k] = u[a + k]
    BY <1>3, <1>4, <2>1
  <2>4. srt.p = IF n - a = 0 THEN Nil ELSE w[1]
    BY <1>3, <2>3
  <2>5. \A k \in 1 .. (n - a) - 1 : h.next[w[k]] = w[k + 1]
    <3> SUFFICES ASSUME NEW k \in 1 .. (n - a) - 1 PROVE h.next[w[k]] = w[k + 1]
      OBVIOUS
    <3>1. w[k] = u[a + k] /\ w[k + 1] = u[(a + k) + 1] /\ a + k \in 1 .. n - 1 /\ a + k # a
      BY <1>3, <2>3
    <3> QED BY <1>3, <3>1
  <2>6. h.next[w[n - a]] = Nil
    <3>1. n - a \in 1 .. n - a /\ a + (n - a) = n
      BY <1>3
    <3>2. w[n - a] = u[n]
      BY <2>3, <3>1
    <3> QED BY <1>3, <3>2
  <2>7. Pointers(h) /\ srt.p \in Cells \cup {Nil} /\ N \in Nat
    BY <1>2, SizeFacts DEF Pointers, Heaps, Sorts
  <2> HIDE DEF N
  <2>8. Begins(h, srt.p, w, n - a)
    BY <2>2, <2>3, <2>4, <2>5, <2>7, ChainPrefix
  <2> QED BY <2>3, <2>6, <2>8 DEF Begins
<1>6. t \in 1 .. n - a /\ c[t] = u[a + t]
  BY <1>2, <1>3, <1>5
<1>7. srt' = [srt EXCEPT !.at = "merge", !.nmerges = @ + 1, !.psize = t,
                         !.q = h.next[c[t]], !.qsize = srt.insize]
      /\ h' = h /\ list' = list
  BY DEF MergeStart
<1> HIDE DEF c, t
<1>8. h.next[c[t]] = IF a + t < n THEN u[(a + t) + 1] ELSE Nil
  <2>1. CASE a + t < n
    <3>1. a + t \in 1 .. n - 1 /\ a + t # a
      BY <1>3, <1>6, <2>1
    <3> QED BY <1>3, <1>6, <2>1, <3>1
  <2>2. CASE a + t = n
    BY <1>3, <1>6, <2>2
  <2> QED BY <1>3, <1>6, <2>1, <2>2
<1>9. /\ srt' = [at |-> "merge", p |-> srt.p, q |-> h.next[c[t]], tail |-> srt.tail,
                 insize |-> srt.insize, nmerges |-> srt.nmerges + 1, psize |-> t, qsize |-> srt.insize]
      /\ h.next[c[t]] \in Cells \cup {Nil}
  <2>1. h.next[c[t]] \in Cells \cup {Nil}
    BY <1>2, <1>3, <1>4, <1>6 DEF Heaps
  <2> QED BY <1>2, <1>7, <2>1 DEF Sorts
<1>10. srt' \in Sorts
  <2>1. srt.nmerges + 1 \in Nat /\ t \in Nat
    BY <1>2, <1>6 DEF Sorts
  <2> QED BY <1>2, <1>9, <2>1 DEF Sorts
<1>11. /\ srt'.at = "merge" /\ srt'.psize = t /\ srt'.p = u[a + 1] /\ srt'.tail = srt.tail
       /\ srt'.q = IF a + t < n THEN u[(a + t) + 1] ELSE Nil
  BY <1>3, <1>8, <1>9
<1>12. Split(u, n, a)'
  <2>1. a + srt'.psize <= n /\ a + srt'.psize = a + t
    BY <1>3, <1>6, <1>11
  <2>2. \A k \in 1 .. n - 1 : k # a => h'.next[u[k]] = u[k + 1]
    BY <1>3, <1>7
  <2>3. h'.next[u[n]] = Nil /\ list' = list
    BY <1>3, <1>7
  <2> QED BY <1>3, <1>11, <2>1, <2>2, <2>3 DEF Split
<1>13. h' \in Heaps /\ h'.info = h.info /\ list' \in Cells \cup {Nil} /\ srt.at # "off" /\ srt'.at # "off"
  BY <1>2, <1>7, <1>11
<1>14. ListInv'
  BY <1>1, <1>10, <1>12, <1>13, SplitInv
<1>15. t = IF n - a < srt.insize THEN n - a ELSE srt.insize
  BY <1>5 DEF t, c
<1> QED BY <1>11, <1>12, <1>14, <1>15

LEMMA MergeEndSplit ==
    ASSUME ListInv, MergeEnd, UNCHANGED << at, remover >>,
           NEW u, NEW n, NEW a, Lists(u, n, Cells), Split(u, n, a)
    PROVE  Split(u, n, a)' /\ ListInv'
<1>1. Lists(u, n, Cells) /\ Split(u, n, a)
  OBVIOUS
<1>2. /\ srt \in Sorts /\ srt.at = "merge" /\ srt.psize = 0
      /\ h \in Heaps /\ ListType /\ list \in Cells \cup {Nil}
  BY DEF MergeEnd, PEmpty, ListInv, ListType
<1>3. a \in Nat /\ n \in Nat /\ a + srt.psize = a /\ srt.q = IF a < n THEN u[a + 1] ELSE Nil
  BY <1>1, <1>2 DEF Split, Lists
<1>4. srt' = [srt EXCEPT !.at = "pass", !.p = srt.q] /\ h' = h /\ list' = list
  BY DEF MergeEnd
<1>5. srt' = [at |-> "pass", p |-> srt.q, q |-> srt.q, tail |-> srt.tail, insize |-> srt.insize,
              nmerges |-> srt.nmerges, psize |-> srt.psize, qsize |-> srt.qsize]
  BY <1>2, <1>4 DEF Sorts
<1>6. srt' \in Sorts
  BY <1>2, <1>5 DEF Sorts
<1>7. srt'.at = "pass" /\ srt'.psize = 0 /\ srt'.tail = srt.tail
      /\ srt'.p = IF a < n THEN u[a + 1] ELSE Nil
  BY <1>2, <1>3, <1>5
<1>8. Split(u, n, a)'
  BY <1>1, <1>2, <1>3, <1>4, <1>7 DEF Split
<1>9. h' \in Heaps /\ h'.info = h.info /\ list' \in Cells \cup {Nil} /\ srt.at # "off" /\ srt'.at # "off"
  BY <1>2, <1>4, <1>7
<1>10. ListInv'
  BY <1>1, <1>6, <1>8, <1>9, SplitInv
<1> QED BY <1>8, <1>10

\* u is linked in its order, in the heap g.
Linear(g, u, n) ==
    /\ n > 0 /\ g \in Heaps
    /\ \A k \in 1 .. n - 1 : g.next[u[k]] = u[k + 1]
    /\ g.next[u[n]] = Nil

LEMMA SortCallSplit ==
    ASSUME ListInv, SortCall, NEW u, NEW n, Lists(u, n, Cells \ {remover}), Whole(u, n)
    PROVE  Lists(u, n, Cells) /\ Split(u, n, 0)' /\ ListInv'
<1>1. /\ srt.at = "off" /\ at \in {"init", "sort", "index"} /\ ListType /\ ItemsOnce /\ remover = Nil
      /\ srt' = [Off EXCEPT !.at = "pass", !.p = list] /\ list' = Nil /\ h' = h
      /\ at' = at /\ remover' = remover /\ h \in Heaps /\ list \in Cells \cup {Nil}
  BY DEF SortCall, SortStart, ListInv, ListType, bench
<1>2. Lists(u, n, Cells \ {remover}) /\ Whole(u, n)
  OBVIOUS
<1>3. Lists(u, n, Cells)
  <2>1. Cells \ {remover} = Cells
    BY <1>1, SizeFacts
  <2> QED BY <1>2, <2>1
<1>4. srt' = [at |-> "pass", p |-> list, q |-> Nil, tail |-> Nil,
              insize |-> 1, nmerges |-> 0, psize |-> 0, qsize |-> 0]
  BY <1>1 DEF Off
<1>5. srt' \in Sorts
  BY <1>1, <1>4 DEF Sorts
<1>6. Split(u, n, 0)'
  <2>1. n \in Nat /\ n > 0 /\ list = u[1] /\ h.next[u[n]] = Nil
        /\ \A k \in 1 .. n - 1 : h.next[u[k]] = u[k + 1]
    BY <1>2, <1>3 DEF Whole, Lists
  <2>2. srt'.at = "pass" /\ srt'.p = u[0 + 1] /\ srt'.psize = 0 /\ srt'.tail = Nil /\ 0 + srt'.psize = 0
    BY <1>4, <2>1
  <2> QED BY <1>1, <2>1, <2>2 DEF Split
<1>7. ListType' /\ ItemsOnce'
  BY <1>1, <1>4, <1>5 DEF ListType, ItemsOnce
<1>8. srt'.at # "off"
  BY <1>4
<1>9. ListInv'
  BY <1>3, <1>6, <1>7, <1>8 DEF ListInv
<1> QED BY <1>3, <1>6, <1>9

LEMMA SortPassSplit ==
    ASSUME ListInv, SortPass, NEW u, NEW n, NEW a, Lists(u, n, Cells), Split(u, n, a)
    PROVE  /\ ListInv' /\ n \in Nat /\ a = n
           /\ IF srt'.at = "off" THEN Linear(h', u, n) /\ list' = u[1] ELSE Split(u, n, 0)'
<1>1. /\ srt.at = "pass" /\ srt.p = Nil /\ at \in {"init", "sort", "index"}
      /\ ListType /\ ItemsOnce /\ remover = Nil /\ remover' = remover
      /\ h' = [h EXCEPT !.next[srt.tail] = Nil] /\ h \in Heaps /\ list \in Cells \cup {Nil}
      /\ srt \in Sorts
  BY DEF SortPass, PassEnd, ListInv, ListType
<1>2. Lists(u, n, Cells) /\ Split(u, n, a)
  OBVIOUS
<1>3. n \in Nat /\ n > 0 /\ \A k \in 1 .. n : u[k] \in Cells /\ u[k] # Nil
  <2>1. n = Size - 1
    BY <1>2, ListLength, SizeFacts DEF N
  <2>2. n \in Nat /\ n > 0
    BY <2>1, SizeFacts
  <2>3. \A k \in 1 .. n : u[k] \in Cells /\ u[k] # Nil
    BY <1>2, NilAssumption DEF Lists
  <2> QED BY <2>2, <2>3
<1>4. a = n /\ list = u[1] /\ srt.tail = u[n]
      /\ \A k \in 1 .. n - 1 : h.next[u[k]] = u[k + 1]
  <2>1. a \in Nat /\ a <= n /\ srt.psize = 0 /\ srt.p = IF a < n THEN u[a + 1] ELSE Nil
    BY <1>1, <1>2, <1>3 DEF Split
  <2>2. a = n
    <3>1. a < n => a + 1 \in 1 .. n
      BY <1>3, <2>1
    <3> QED BY <1>1, <1>3, <2>1, <3>1
  <2>3. \A k \in 1 .. n - 1 : k # a /\ k # a + srt.psize
    BY <1>3, <2>1, <2>2
  <2> QED BY <1>2, <1>3, <2>2, <2>3 DEF Split
<1>5. h' \in Heaps /\ h'.info = h.info /\ h'.next[u[n]] = Nil
      /\ \A k \in 1 .. n - 1 : h'.next[u[k]] = u[k + 1]
  <2>1. u[n] \in Cells
    BY <1>3
  <2>2. OneNext(h', h, u[n], Nil)
    BY <1>1, <1>4, <2>1, NextSet
  <2>3. \A k \in 1 .. n - 1 : u[k] # u[n] /\ u[k] \in Cells
    BY <1>2, <1>3 DEF Lists
  <2> QED BY <1>4, <2>2, <2>3 DEF OneNext
<1>6. ItemsOnce'
  BY <1>1, <1>5, SameItems
<1>7. CASE srt.nmerges <= 1
  <2>1. srt' = Off /\ list' = list /\ srt'.at = "off" /\ at' \in {"ready", "remove", "return"}
    BY <1>1, <1>7 DEF SortPass, PassEnd, Off
  <2>2. srt' \in Sorts
    BY <2>1 DEF Off, Sorts
  <2>3. ListType'
    BY <1>1, <1>5, <2>1, <2>2 DEF ListType
  <2>4. Whole(u, n)'
    BY <1>3, <1>4, <1>5, <2>1 DEF Whole
  <2>5. Lists(u, n, Cells \ {remover'})
    <3>1. Cells \ {remover'} = Cells
      BY <1>1, SizeFacts
    <3> QED BY <1>2, <3>1
  <2>6. ListInv'
    BY <1>6, <2>1, <2>3, <2>4, <2>5 DEF ListInv
  <2>7. Linear(h', u, n) /\ list' = u[1]
    BY <1>3, <1>4, <1>5, <2>1 DEF Linear
  <2> QED BY <1>3, <1>4, <2>1, <2>6, <2>7
<1>8. CASE ~(srt.nmerges <= 1)
  <2>1. srt' = [Off EXCEPT !.at = "pass", !.p = list, !.insize = NextSize(srt.insize)] /\ list' = Nil
    BY <1>8 DEF SortPass, PassEnd
  <2>2. srt' = [at |-> "pass", p |-> list, q |-> Nil, tail |-> Nil,
                insize |-> NextSize(srt.insize), nmerges |-> 0, psize |-> 0, qsize |-> 0]
    BY <2>1 DEF Off
  <2>3. NextSize(srt.insize) \in Nat \ {0}
    BY <1>1 DEF NextSize, Sorts
  <2>4. srt' \in Sorts
    BY <1>1, <2>2, <2>3 DEF Sorts
  <2>5. srt'.at = "pass" /\ srt'.p = u[0 + 1] /\ srt'.psize = 0 /\ srt'.tail = Nil /\ 0 + srt'.psize = 0
    BY <1>4, <2>2
  <2>6. at' = at
    BY <2>5 DEF SortPass
  <2>7. ListType'
    BY <1>1, <1>5, <2>1, <2>4, <2>6 DEF ListType
  <2>8. Split(u, n, 0)'
    BY <1>3, <1>5, <2>1, <2>5 DEF Split
  <2>9. ListInv'
    BY <1>2, <1>6, <2>5, <2>7, <2>8 DEF ListInv
  <2> QED BY <1>3, <1>4, <2>5, <2>8, <2>9
<1> QED BY <1>7, <1>8

----------------------------------------------------------------------------
\* The calls between the sorts.

\* The chain of a list, and its last cell.
LEMMA ChainOfList ==
    ASSUME NEW g, NEW u, NEW n, NEW S, S \subseteq Cells, Lists(u, n, S), Linear(g, u, n),
           NEW l, l = u[1]
    PROVE  /\ Chain(g, l) \in Seq(Cells) /\ Len(Chain(g, l)) = n
           /\ \A k \in 1 .. n : Chain(g, l)[k] = u[k]
           /\ LastCell(g, l) = u[n]
<1>1. n \in Nat /\ n > 0 /\ u \in [1 .. n -> Cells] /\ l \in Cells
  BY DEF Lists, Linear
<1>2. n \in 0 .. N /\ N \in Nat
  <2>1. IsFiniteSet(S) /\ Cardinality(S) <= Cardinality(Cells)
    BY SizeFacts, FS_Subset
  <2>2. n = Cardinality(S)
    BY <2>1, ListLength
  <2> QED BY <1>1, <2>1, <2>2, SizeFacts DEF N
<1>3. Pointers(g) /\ g.next[u[n]] = Nil
  BY DEF Pointers, Linear, Heaps
<1> HIDE DEF N
<1>4. Begins(g, l, u, n)
  <2>1. \A k \in 1 .. n - 1 : g.next[u[k]] = u[k + 1]
    BY DEF Linear
  <2>2. l = IF n = 0 THEN Nil ELSE u[1]
    BY <1>1
  <2>3. l \in Cells \cup {Nil}
    BY <1>1
  <2> QED BY <1>1, <1>2, <1>3, <2>1, <2>2, <2>3, ChainPrefix
<1>5. Chain(g, l) \in Seq(Cells) /\ Len(Chain(g, l)) = n /\ \A k \in 1 .. n : Chain(g, l)[k] = u[k]
  BY <1>1, <1>3, <1>4 DEF Begins
<1> QED BY <1>1, <1>5 DEF LastCell

\* The cell found is one of the list.
LEMMA FoundCell ==
    ASSUME NEW g, NEW l, Chain(g, l) \in Seq(Cells), NEW w
    PROVE  core_list_find(g, l, data16, idx, w) \in Cells \cup {Nil}
<1> DEFINE c == Chain(g, l)
           T == {k \in DOMAIN c : Wanted(data16[g.info[c[k]]], idx[g.info[c[k]]], w)}
<1>1. core_list_find(g, l, data16, idx, w) =
        IF T = {} THEN Nil ELSE c[CHOOSE k \in T : \A j \in T : k <= j]
  BY DEF core_list_find
<1>2. T \subseteq 1 .. Len(c) /\ \A k \in 1 .. Len(c) : c[k] \in Cells
  OBVIOUS
<1> HIDE DEF c, T
<1>3. CASE T # {}
  <2>1. \E k \in T : \A j \in T : k <= j
    <3>1. T \subseteq Nat
      BY <1>2
    <3> QED BY <1>3, <3>1, NatMin
  <2>2. (CHOOSE k \in T : \A j \in T : k <= j) \in T
    BY <2>1
  <2> QED BY <1>1, <1>2, <1>3, <2>2
<1> QED BY <1>1, <1>3

\* Reversing the list.
LEMMA Reversed ==
    ASSUME NEW g, NEW u, NEW n, Lists(u, n, Cells), Linear(g, u, n),
           NEW b, b = core_list_reverse(g, u[1]),
           NEW v, v = [k \in 1 .. n |-> u[n + 1 - k]]
    PROVE  Lists(v, n, Cells) /\ Linear(b, v, n) /\ b.info = g.info
<1> DEFINE c == Chain(g, u[1])
           place(x) == CHOOSE k \in DOMAIN c : c[k] = x
           f == [x \in Cells |-> IF \E k \in DOMAIN c : c[k] = x
                                 THEN IF place(x) = 1 THEN Nil ELSE c[place(x) - 1]
                                 ELSE g.next[x]]
<1>1. n \in Nat /\ n > 0 /\ u \in [1 .. n -> Cells] /\ g \in Heaps
  BY DEF Lists, Linear
<1>2. c \in Seq(Cells) /\ Len(c) = n /\ \A k \in 1 .. n : c[k] = u[k]
  BY ChainOfList
<1>3. b = [g EXCEPT !.next = f]
  BY DEF core_list_reverse
<1>4. DOMAIN c = 1 .. n
  BY <1>2
<1> HIDE DEF c
<1>5. ASSUME NEW k \in 1 .. n PROVE f[u[k]] = IF k = 1 THEN Nil ELSE u[k - 1]
  <2>1. u[k] \in Cells /\ c[k] = u[k]
    BY <1>1, <1>2
  <2>2. place(u[k]) = k
    <3>1. place(u[k]) \in DOMAIN c /\ c[place(u[k])] = u[k]
      BY <1>4, <2>1
    <3> HIDE DEF place
    <3>2. place(u[k]) \in 1 .. n /\ u[place(u[k])] = u[k]
      BY <1>2, <1>4, <3>1
    <3> QED BY <3>2 DEF Lists
  <2>3. \E j \in DOMAIN c : c[j] = u[k]
    BY <1>4, <2>1
  <2> HIDE DEF place
  <2>4. f[u[k]] = IF k = 1 THEN Nil ELSE c[k - 1]
    BY <2>1, <2>2, <2>3
  <2> QED BY <1>1, <1>2, <2>4
<1>6. f \in [Cells -> Cells \cup {Nil}]
  <2> SUFFICES ASSUME NEW x \in Cells PROVE f[x] \in Cells \cup {Nil}
    BY DEF f
  <2>1. PICK k \in 1 .. n : u[k] = x
    BY DEF Lists
  <2> HIDE DEF f
  <2> QED BY <1>1, <1>5, <2>1
<1> HIDE DEF f
<1>7. b = [next |-> f, info |-> g.info] /\ b \in Heaps
  BY <1>1, <1>3, <1>6 DEF Heaps
<1>8. Lists(v, n, Cells)
  <2>1. v \in [1 .. n -> Cells] /\ \A k \in 1 .. n : v[k] = u[n + 1 - k] /\ n + 1 - k \in 1 .. n
    BY <1>1
  <2>2. \A j, k \in 1 .. n : v[j] = v[k] => j = k
    <3> SUFFICES ASSUME NEW j \in 1 .. n, NEW k \in 1 .. n, v[j] = v[k] PROVE j = k
      OBVIOUS
    <3>1. n + 1 - j = n + 1 - k
      BY <2>1 DEF Lists
    <3> QED BY <1>1, <3>1
  <2>3. \A x \in Cells : \E k \in 1 .. n : v[k] = x
    <3> SUFFICES ASSUME NEW x \in Cells PROVE \E k \in 1 .. n : v[k] = x
      OBVIOUS
    <3>1. PICK k \in 1 .. n : u[k] = x
      BY DEF Lists
    <3>2. n + 1 - k \in 1 .. n /\ n + 1 - (n + 1 - k) = k
      BY <1>1
    <3> QED BY <2>1, <3>1, <3>2
  <2> QED BY <1>1, <2>1, <2>2, <2>3 DEF Lists
<1>9. Linear(b, v, n)
  <2>1. \A k \in 1 .. n - 1 : b.next[v[k]] = v[k + 1]
    <3> SUFFICES ASSUME NEW k \in 1 .. n - 1 PROVE b.next[v[k]] = v[k + 1]
      OBVIOUS
    <3> DEFINE j == n + 1 - k
    <3>1. j \in 1 .. n /\ j # 1 /\ v[k] = u[j] /\ v[k + 1] = u[j - 1]
      BY <1>1
    <3> HIDE DEF j
    <3> QED BY <1>5, <1>7, <3>1
  <2>2. b.next[v[n]] = Nil
    <3>1. v[n] = u[1] /\ 1 \in 1 .. n
      BY <1>1
    <3> QED BY <1>5, <1>7, <3>1
  <2> QED BY <1>1, <1>7, <2>1, <2>2 DEF Linear
<1> QED BY <1>7, <1>8, <1>9

\* The cell after the found one comes behind the head.
LEMMA Hoisted ==
    ASSUME NEW g, NEW v, NEW n, Lists(v, n, Cells), Linear(g, v, n), NEW this \in Cells \cup {Nil},
           NEW b, b = Hoist(g, v[1], this)
    PROVE  \E w : Lists(w, n, Cells) /\ Linear(b, w, n) /\ w[1] = v[1] /\ b.info = g.info
<1> DEFINE finder == g.next[this]
<1>1. n \in Nat /\ n > 0 /\ v \in [1 .. n -> Cells] /\ g \in Heaps /\ Nil \notin Cells
  BY NilAssumption DEF Lists, Linear
<1>2. CASE this = Nil \/ finder = Nil
  <2>1. b = g
    BY <1>2 DEF Hoist
  <2> QED BY <2>1
<1>3. CASE this # Nil /\ finder # Nil
  <2>1. PICK j \in 1 .. n : v[j] = this
    BY <1>3 DEF Lists
  <2>2. j < n /\ j + 1 \in 1 .. n /\ finder = v[j + 1]
    BY <1>1, <1>3, <2>1 DEF Linear
  <2>3. PICK w : w = Rotated(v, n, 1, j)
    OBVIOUS
  <2>4. Lists(w, n, Cells)
    <3>1. 1 \in 0 .. n - 1 /\ j \in 1 .. n - 1
      BY <1>1, <2>2
    <3> QED BY <2>3, <3>1, RotateLists
  <2>5. /\ w[1] = v[1] /\ w[2] = v[j + 1]
        /\ \A k \in 1 .. n : k > 2 /\ k <= j + 1 => w[k] = v[k - 1]
        /\ \A k \in 1 .. n : k > j + 1 => w[k] = v[k]
    BY <1>1, <2>2, <2>3 DEF Rotated
  <2> DEFINE after == g.next[finder]
             cut  == [g EXCEPT !.next[this] = after]
             cut2 == [cut EXCEPT !.next[finder] = cut.next[v[1]]]
  <2>6. b = [cut2 EXCEPT !.next[v[1]] = finder]
    BY <1>3 DEF Hoist
  <2>7. /\ finder \in Cells /\ this \in Cells /\ v[1] \in Cells
        /\ finder # this /\ finder # v[1] /\ (this = v[1] => j = 1)
    BY <1>1, <1>3, <2>1, <2>2 DEF Lists
  <2>8. after = IF j + 1 = n THEN Nil ELSE v[j + 2]
    BY <1>1, <2>2 DEF Linear
  <2>9. after \in Cells \cup {Nil}
    BY <1>1, <2>2, <2>8
  <2> HIDE DEF finder, after
  <2>10. OneNext(cut, g, this, after)
    BY <1>1, <2>7, <2>9, NextSet
  <2>11. OneNext(cut2, cut, finder, cut.next[v[1]])
    <3>1. cut \in Heaps
      BY <2>10 DEF OneNext
    <3> HIDE DEF cut
    <3>2. cut.next[v[1]] \in Cells \cup {Nil}
      BY <2>7, <3>1 DEF Heaps
    <3> QED BY <2>7, <3>1, <3>2, NextSet
  <2>12. OneNext(b, cut2, v[1], finder)
    <3>1. cut2 \in Heaps
      BY <2>11 DEF OneNext
    <3> HIDE DEF cut2
    <3> QED BY <2>6, <2>7, <3>1, NextSet
  <2> HIDE DEF cut, cut2
  <2>13. /\ b \in Heaps /\ b.info = g.info /\ b.next[v[1]] = finder
         /\ b.next[finder] = IF j = 1 THEN after ELSE g.next[v[1]]
         /\ j # 1 => b.next[this] = after
         /\ \A x \in Cells \ {v[1], finder, this} : b.next[x] = g.next[x]
    <3>1. cut.next[v[1]] = IF j = 1 THEN after ELSE g.next[v[1]]
      BY <2>1, <2>7, <2>10 DEF OneNext
    <3>2. this # v[1] => cut2.next[this] = after
      BY <2>7, <2>10, <2>11 DEF OneNext
    <3>3. cut2.next[finder] = cut.next[v[1]] /\ b.next[finder] = cut2.next[finder]
      BY <2>7, <2>11, <2>12 DEF OneNext
    <3>4. j # 1 => this # v[1]
      BY <2>7
    <3>5. j # 1 => b.next[this] = after
      BY <2>7, <2>12, <3>2, <3>4 DEF OneNext
    <3>6. \A x \in Cells \ {v[1], finder, this} : b.next[x] = g.next[x]
      BY <2>10, <2>11, <2>12 DEF OneNext
    <3>7. b \in Heaps /\ b.info = g.info /\ b.next[v[1]] = finder
      BY <2>10, <2>11, <2>12 DEF OneNext
    <3> QED BY <3>1, <3>3, <3>5, <3>6, <3>7
  <2>14. Linear(b, w, n)
    <3>1. \A k \in 1 .. n : k # 1 /\ k # j /\ k # j + 1 =>
             /\ v[k] \in Cells \ {v[1], finder, this}
             /\ b.next[v[k]] = IF k = n THEN Nil ELSE v[k + 1]
      <4> SUFFICES ASSUME NEW k \in 1 .. n, k # 1 /\ k # j /\ k # j + 1
                   PROVE  /\ v[k] \in Cells \ {v[1], finder, this}
                          /\ b.next[v[k]] = IF k = n THEN Nil ELSE v[k + 1]
        OBVIOUS
      <4>1. v[k] \in Cells \ {v[1], finder, this}
        BY <1>1, <2>1, <2>2 DEF Lists
      <4>2. g.next[v[k]] = IF k = n THEN Nil ELSE v[k + 1]
        BY <1>1 DEF Linear
      <4> QED BY <2>13, <4>1, <4>2
    <3>2. ASSUME NEW k \in 1 .. n PROVE b.next[w[k]] = IF k = n THEN Nil ELSE w[k + 1]
      <4>1. CASE k = 1
        BY <1>1, <2>2, <2>5, <2>13, <4>1
      <4>2. CASE k = 2 /\ j = 1
        <5>1. w[2] = finder /\ b.next[finder] = after /\ j + 2 = 3
          BY <2>2, <2>5, <2>13, <4>2
        <5>2. 2 # n => w[3] = v[3]
          BY <1>1, <2>2, <2>5, <4>2
        <5> QED BY <2>8, <4>2, <5>1, <5>2
      <4>3. CASE k = 2 /\ j # 1
        <5>1. w[2] = finder /\ b.next[finder] = g.next[v[1]] /\ g.next[v[1]] = v[2]
          BY <1>1, <2>2, <2>5, <2>13, <4>3 DEF Linear
        <5>2. 2 # n /\ w[3] = v[2]
          BY <1>1, <2>2, <2>5, <4>3
        <5> QED BY <4>3, <5>1, <5>2
      <4>4. CASE k > 2 /\ k < j + 1
        <5>1. k - 1 \in 1 .. n /\ k - 1 # 1 /\ k - 1 # j /\ k - 1 # j + 1 /\ k # n /\ (k - 1) + 1 = k
          BY <1>1, <2>2, <4>4
        <5>2. w[k] = v[k - 1] /\ w[k + 1] = v[k]
          <6>1. k + 1 \in 1 .. n /\ k + 1 > 2 /\ k + 1 <= j + 1 /\ (k + 1) - 1 = k
            BY <1>1, <2>2, <4>4
          <6> QED BY <2>5, <4>4, <6>1
        <5>3. b.next[v[k - 1]] = v[(k - 1) + 1]
          <6>1. k - 1 # n
            BY <1>1, <4>4
          <6> QED BY <3>1, <5>1, <6>1
        <5> QED BY <5>1, <5>2, <5>3
      <4>5. CASE k > 2 /\ k = j + 1
        <5>1. w[k] = this /\ j # 1 /\ b.next[this] = after
          BY <1>1, <2>1, <2>2, <2>5, <2>13, <4>5
        <5>2. k # n => w[k + 1] = v[k + 1]
          BY <1>1, <2>2, <2>5, <4>5
        <5>3. k + 1 = j + 2
          BY <4>5
        <5> QED BY <2>8, <4>5, <5>1, <5>2, <5>3
      <4>6. CASE k > 2 /\ k > j + 1
        <5>1. w[k] = v[k] /\ (k # n => w[k + 1] = v[k + 1])
          BY <1>1, <2>2, <2>5, <4>6
        <5>2. k # 1 /\ k # j /\ k # j + 1
          BY <2>2, <4>6
        <5> QED BY <3>1, <5>1, <5>2
      <4> QED BY <2>2, <4>1, <4>2, <4>3, <4>4, <4>5, <4>6
    <3>3. \A k \in 1 .. n - 1 : k \in 1 .. n /\ k # n
      BY <1>1
    <3>4. n \in 1 .. n
      BY <1>1
    <3> QED BY <1>1, <2>13, <3>2, <3>3, <3>4 DEF Linear
  <2> QED BY <2>4, <2>5, <2>13, <2>14
<1> QED BY <1>2, <1>3

\* Outside the sort the list is linear, and that is enough.
LEMMA LinearList ==
    ASSUME ListInv, srt.at = "off"
    PROVE  \E u, n : Lists(u, n, Cells \ {remover}) /\ Linear(h, u, n) /\ list = u[1]
<1>1. PICK u, n : Lists(u, n, Cells \ {remover}) /\ Whole(u, n)
  BY DEF ListInv
<1>2. h \in Heaps
  BY DEF ListInv, ListType
<1>3. Linear(h, u, n) /\ list = u[1]
  BY <1>1, <1>2 DEF Whole, Linear
<1> QED BY <1>1, <1>3

LEMMA OffInv ==
    ASSUME ListInv, srt.at = "off", srt' = srt, ItemsOnce',
           NEW S, S = Cells \ {remover'}, NEW g, g = h',
           NEW u, NEW n, Lists(u, n, S), Linear(g, u, n), list' = u[1],
           at' \in {"init", "ready", "find", "sort", "remove", "undo", "index", "return"},
           IF at' = "undo" THEN remover' \in Cells ELSE remover' = Nil
    PROVE  ListInv'
<1>1. n \in Nat /\ n > 0 /\ u[1] \in Cells /\ g \in Heaps
  BY DEF Lists, Linear
<1>2. srt \in Sorts
  BY DEF ListInv, ListType
<1>3. ListType'
  BY <1>1, <1>2 DEF ListType
<1>4. Whole(u, n)'
  BY <1>1 DEF Whole, Linear
<1> QED BY <1>3, <1>4 DEF ListInv

LEMMA FindInv ==
    ASSUME ListInv, Find
    PROVE  ListInv'
<1>1. /\ at = "find" /\ at' = at /\ srt' = srt /\ remover' = remover
      /\ ListType /\ ItemsOnce /\ remover = Nil /\ srt.at = "off"
  BY DEF Find, ListInv, ListType
<1>2. Cells \ {remover} = Cells
  BY <1>1, SizeFacts
<1>3. PICK u, n : Lists(u, n, Cells) /\ Linear(h, u, n) /\ list = u[1]
  BY <1>1, <1>2, LinearList
<1>4. PICK w : /\ h' = IF core_list_find(h, list, data16, idx, w) = Nil THEN core_list_reverse(h, list)
                       ELSE Hoist(core_list_reverse(h, list), LastCell(h, list),
                                  core_list_find(h, list, data16, idx, w))
               /\ list' = LastCell(h, list)
  BY DEF Find
<1>5. PICK this : this = core_list_find(h, list, data16, idx, w)
  OBVIOUS
<1>6. Chain(h, list) \in Seq(Cells) /\ LastCell(h, list) = u[n]
  BY <1>3, ChainOfList
<1>7. this \in Cells \cup {Nil}
  BY <1>5, <1>6, FoundCell
<1>8. PICK v : v = [k \in 1 .. n |-> u[n + 1 - k]]
  OBVIOUS
<1>9. PICK back : back = core_list_reverse(h, u[1])
  OBVIOUS
<1>10. Lists(v, n, Cells) /\ Linear(back, v, n) /\ back.info = h.info
  BY <1>3, <1>8, <1>9, Reversed
<1>11. v[1] = u[n]
  BY <1>3, <1>8 DEF Lists, Linear
<1>12. h' = (IF this = Nil THEN back ELSE Hoist(back, v[1], this)) /\ list' = v[1]
  BY <1>3, <1>4, <1>5, <1>6, <1>9, <1>11
<1>13. PICK b : b = Hoist(back, v[1], this)
  OBVIOUS
<1>14. PICK e : Lists(e, n, Cells) /\ Linear(b, e, n) /\ e[1] = v[1] /\ b.info = back.info
  BY <1>7, <1>10, <1>13, Hoisted
<1>15. PICK g, t : Lists(t, n, Cells) /\ Linear(g, t, n) /\ g = h' /\ list' = t[1] /\ h'.info = h.info
  BY <1>10, <1>12, <1>13, <1>14
<1>16. ItemsOnce'
  BY <1>1, <1>15, SameItems
<1>17. Cells = Cells \ {remover'}
  BY <1>1, <1>2
<1>18. at' \in {"init", "ready", "find", "sort", "remove", "undo", "index", "return"}
       /\ IF at' = "undo" THEN remover' \in Cells ELSE remover' = Nil
  BY <1>1
<1> QED BY <1>1, <1>15, <1>16, <1>17, <1>18, OffInv

\* The pointers and items after a removal, and after its undoing.
LEMMA RemoveFields ==
    ASSUME NEW f \in Heaps, NEW item \in Cells, NEW ret \in Cells \ {item}, ret = f.next[item],
           NEW g, g = core_list_remove(f, item)
    PROVE  /\ g \in Heaps
           /\ g.next[item] = f.next[ret] /\ g.next[ret] = Nil
           /\ g.info[item] = f.info[ret] /\ g.info[ret] = f.info[item]
           /\ \A x \in Cells \ {item, ret} : g.next[x] = f.next[x] /\ g.info[x] = f.info[x]
<1>1. /\ f = [next |-> f.next, info |-> f.info]
      /\ f.next \in [Cells -> Cells \cup {Nil}] /\ f.info \in [Cells -> Items]
  BY DEF Heaps
<1> DEFINE h1 == [f EXCEPT !.info[item] = f.info[ret]]
           h2 == [h1 EXCEPT !.info[ret] = f.info[item]]
           h3 == [h2 EXCEPT !.next[item] = f.next[ret]]
           h4 == [h3 EXCEPT !.next[ret] = Nil]
<1>2. h1 = [next |-> f.next, info |-> [f.info EXCEPT ![item] = f.info[ret]]]
  BY <1>1
<1> HIDE DEF h1
<1>3. h2 = [next |-> h1.next, info |-> [h1.info EXCEPT ![ret] = f.info[item]]]
  BY <1>2
<1> HIDE DEF h2
<1>4. h3 = [next |-> [h2.next EXCEPT ![item] = f.next[ret]], info |-> h2.info]
  BY <1>3
<1> HIDE DEF h3
<1>5. h4 = [next |-> [h3.next EXCEPT ![ret] = Nil], info |-> h3.info]
  BY <1>4
<1>6. g = h4
  BY DEF core_list_remove, h1, h2, h3
<1> HIDE DEF h4
<1>7. /\ g = [next |-> g.next, info |-> g.info]
      /\ g.next = [f.next EXCEPT ![item] = f.next[ret], ![ret] = Nil]
      /\ g.info = [f.info EXCEPT ![item] = f.info[ret], ![ret] = f.info[item]]
  BY <1>2, <1>3, <1>4, <1>5, <1>6
<1>8. g.next \in [Cells -> Cells \cup {Nil}] /\ g.info \in [Cells -> Items]
  BY <1>1, <1>7
<1>9. g \in Heaps
  BY <1>7, <1>8 DEF Heaps
<1> QED BY <1>1, <1>7, <1>9

Undone(f, g, item, ret) ==
    /\ f \in Heaps
    /\ f.next[ret] = g.next[item] /\ f.next[item] = ret
    /\ f.info[ret] = g.info[item] /\ f.info[item] = g.info[ret]
    /\ \A x \in Cells \ {item, ret} : f.next[x] = g.next[x] /\ f.info[x] = g.info[x]

LEMMA UndoFields ==
    ASSUME NEW g \in Heaps, NEW item \in Cells, NEW ret \in Cells \ {item},
           NEW f, f = core_list_undo_remove(g, ret, item)
    PROVE  Undone(f, g, item, ret)
<1>1. /\ g = [next |-> g.next, info |-> g.info]
      /\ g.next \in [Cells -> Cells \cup {Nil}] /\ g.info \in [Cells -> Items]
  BY DEF Heaps
<1> DEFINE g1 == [g EXCEPT !.info[ret] = g.info[item]]
           g2 == [g1 EXCEPT !.info[item] = g.info[ret]]
           g3 == [g2 EXCEPT !.next[ret] = g.next[item]]
           g4 == [g3 EXCEPT !.next[item] = ret]
<1>2. g1 = [next |-> g.next, info |-> [g.info EXCEPT ![ret] = g.info[item]]]
  BY <1>1
<1> HIDE DEF g1
<1>3. g2 = [next |-> g1.next, info |-> [g1.info EXCEPT ![item] = g.info[ret]]]
  BY <1>2
<1> HIDE DEF g2
<1>4. g3 = [next |-> [g2.next EXCEPT ![ret] = g.next[item]], info |-> g2.info]
  BY <1>3
<1> HIDE DEF g3
<1>5. g4 = [next |-> [g3.next EXCEPT ![item] = ret], info |-> g3.info]
  BY <1>4
<1>6. f = g4
  BY DEF core_list_undo_remove, g1, g2, g3
<1> HIDE DEF g4
<1>7. /\ f = [next |-> f.next, info |-> f.info]
      /\ f.next = [g.next EXCEPT ![ret] = g.next[item], ![item] = ret]
      /\ f.info = [g.info EXCEPT ![ret] = g.info[item], ![item] = g.info[ret]]
  BY <1>2, <1>3, <1>4, <1>5, <1>6
<1>8. f.next \in [Cells -> Cells \cup {Nil}] /\ f.info \in [Cells -> Items]
  BY <1>1, <1>7
<1>9. f \in Heaps
  BY <1>7, <1>8 DEF Heaps
<1> QED BY <1>1, <1>7, <1>9 DEF Undone

\* "Since we want each iteration of the benchmark to be exactly the same, we
\* need to be able to undo a remove" (core_list_join.c:333-334): undoing it
\* right away gives back every pointer and every item, whatever the list and
\* wherever the cell is, provided another cell follows it (for which the code
\* relies on the fake item at the end of the list).
THEOREM UndoRemoveCorrect ==
    ASSUME NEW f \in Heaps, NEW item \in Cells, f.next[item] \in Cells \ {item}
    PROVE  core_list_undo_remove(core_list_remove(f, item), Removed(f, item), item) = f
<1>1. PICK ret \in Cells \ {item} : ret = f.next[item]
  OBVIOUS
<1>2. PICK g : g = core_list_remove(f, item)
  OBVIOUS
<1>3. PICK e : e = core_list_undo_remove(g, ret, item)
  OBVIOUS
<1>4. /\ g \in Heaps
      /\ g.next[item] = f.next[ret] /\ g.info[item] = f.info[ret] /\ g.info[ret] = f.info[item]
      /\ \A x \in Cells \ {item, ret} : g.next[x] = f.next[x] /\ g.info[x] = f.info[x]
  BY <1>1, <1>2, RemoveFields
<1>5. Undone(e, g, item, ret)
  <2>1. g \in Heaps /\ ret \in Cells \ {item}
    BY <1>4
  <2> QED BY <1>3, <2>1, UndoFields
<1>6. \A x \in Cells : e.next[x] = f.next[x] /\ e.info[x] = f.info[x]
  BY <1>1, <1>4, <1>5 DEF Undone
<1>7. e = [next |-> e.next, info |-> e.info] /\ f = [next |-> f.next, info |-> f.info]
      /\ e.next \in [Cells -> Cells \cup {Nil}] /\ f.next \in [Cells -> Cells \cup {Nil}]
      /\ e.info \in [Cells -> Items] /\ f.info \in [Cells -> Items]
  BY <1>5 DEF Heaps, Undone
<1>8. e.next = f.next /\ e.info = f.info
  BY <1>6, <1>7
<1>9. e = f
  BY <1>7, <1>8
<1> QED BY <1>1, <1>2, <1>3, <1>9 DEF Removed

\* Swapping the items of two cells loses none.
LEMMA Swapped ==
    ASSUME ItemsOnce, NEW item \in Cells, NEW ret \in Cells \ {item},
           h'.info[item] = h.info[ret], h'.info[ret] = h.info[item],
           \A x \in Cells \ {item, ret} : h'.info[x] = h.info[x]
    PROVE  ItemsOnce'
<1>1. \A x, y \in Cells : h.info[x] = h.info[y] => x = y
  BY DEF ItemsOnce
<1>2. \A x, y \in Cells : h'.info[x] = h'.info[y] => x = y
  BY <1>1
<1> QED BY <1>2 DEF ItemsOnce

\* The cell behind the second is unlinked.
LEMMA RemoveInv ==
    ASSUME ListInv, Remove
    PROVE  ListInv'
<1>1. /\ at = "remove" /\ at' = "undo" /\ srt' = srt /\ list' = list
      /\ ListType /\ ItemsOnce /\ remover = Nil /\ srt.at = "off" /\ h \in Heaps
  BY DEF Remove, ListInv, ListType
<1>2. Cells \ {remover} = Cells
  BY <1>1, SizeFacts
<1>3. PICK u, n : Lists(u, n, Cells) /\ Linear(h, u, n) /\ list = u[1]
  BY <1>1, <1>2, LinearList
<1>4. n \in Nat /\ n >= 3 /\ u \in [1 .. n -> Cells]
  <2>1. n = Size - 1
    BY <1>3, ListLength, SizeFacts DEF N
  <2>2. n \in Nat /\ n >= 3
    BY <2>1, SizeFacts
  <2> QED BY <1>3, <2>2 DEF Lists
<1>5. /\ h.next[list] = u[2] /\ h.next[u[2]] = u[3] /\ h.next[u[3]] = (IF n = 3 THEN Nil ELSE u[4])
      /\ u[1] # u[2] /\ u[2] # u[3] /\ u[1] # u[3] /\ u[1] \in Cells /\ u[2] \in Cells /\ u[3] \in Cells
  <2>1. h.next[u[1]] = u[1 + 1] /\ h.next[u[2]] = u[2 + 1]
    BY <1>3, <1>4 DEF Linear
  <2>2. h.next[u[3]] = (IF n = 3 THEN Nil ELSE u[3 + 1])
    BY <1>3, <1>4 DEF Linear
  <2>3. 1 \in 1 .. n /\ 2 \in 1 .. n /\ 3 \in 1 .. n
    BY <1>4
  <2>4. u[1] # u[2] /\ u[2] # u[3] /\ u[1] # u[3] /\ u[1] \in Cells /\ u[2] \in Cells /\ u[3] \in Cells
    BY <1>3, <1>4, <2>3 DEF Lists
  <2> QED BY <1>3, <2>1, <2>2, <2>4
<1>6. PICK g : g = h'
  OBVIOUS
<1>7. g = core_list_remove(h, u[2]) /\ remover' = u[3]
  BY <1>5, <1>6 DEF Remove, Removed
<1>8. /\ g \in Heaps
      /\ g.next[u[2]] = h.next[u[3]] /\ g.next[u[3]] = Nil
      /\ g.info[u[2]] = h.info[u[3]] /\ g.info[u[3]] = h.info[u[2]]
      /\ \A x \in Cells \ {u[2], u[3]} : g.next[x] = h.next[x] /\ g.info[x] = h.info[x]
  <2>1. u[3] \in Cells \ {u[2]}
    BY <1>5
  <2> QED BY <1>1, <1>5, <1>7, <2>1, RemoveFields
<1>9. ItemsOnce'
  <2>1. u[3] \in Cells \ {u[2]}
    BY <1>5
  <2> QED BY <1>1, <1>5, <1>6, <1>8, <2>1, Swapped
<1>10. PICK v : v = [k \in 1 .. n - 1 |-> IF k <= 2 THEN u[k] ELSE u[k + 1]]
  OBVIOUS
<1>11. \A k \in 1 .. n - 1 : v[k] = IF k <= 2 THEN u[k] ELSE u[k + 1]
  BY <1>10
<1>12. PICK S : S = Cells \ {remover'}
  OBVIOUS
<1>13. Lists(v, n - 1, S)
  <2>1. \A j, k \in 1 .. n : u[j] = u[k] => j = k
    BY <1>3 DEF Lists
  <2>2. S = Cells \ {u[3]}
    BY <1>7, <1>12
  <2>3. ASSUME NEW k \in 1 .. n - 1 PROVE v[k] \in S
    <3>1. k \in 1 .. n /\ k + 1 \in 1 .. n /\ 3 \in 1 .. n
      BY <1>4
    <3>2. k + 1 = 3 => k <= 2
      OBVIOUS
    <3>3. k <= 2 => u[k] # u[3]
      BY <2>1, <3>1
    <3>4. ~(k <= 2) => u[k + 1] # u[3]
      BY <2>1, <3>1, <3>2
    <3> QED BY <1>4, <1>11, <2>2, <3>1, <3>3, <3>4
  <2>4. v \in [1 .. n - 1 -> S]
    BY <1>10, <1>11, <2>3
  <2>5. ASSUME NEW j \in 1 .. n - 1, NEW k \in 1 .. n - 1, v[j] = v[k] PROVE j = k
    <3>1. (IF j <= 2 THEN j ELSE j + 1) = (IF k <= 2 THEN k ELSE k + 1)
      BY <1>4, <1>11, <2>1, <2>5
    <3> QED BY <3>1
  <2>6. ASSUME NEW x \in S PROVE \E k \in 1 .. n - 1 : v[k] = x
    <3>1. PICK k \in 1 .. n : u[k] = x
      BY <1>3, <2>2 DEF Lists
    <3>2. k # 3
      BY <2>2, <3>1
    <3>3. CASE k <= 2
      <4>1. k \in 1 .. n - 1
        BY <1>4, <3>3
      <4> QED BY <1>11, <3>1, <3>3, <4>1
    <3>4. CASE k > 3
      <4>1. k - 1 \in 1 .. n - 1 /\ ~(k - 1 <= 2) /\ (k - 1) + 1 = k
        BY <1>4, <3>4
      <4> QED BY <1>11, <3>1, <4>1
    <3> QED BY <3>2, <3>3, <3>4
  <2> QED BY <1>4, <2>4, <2>5, <2>6 DEF Lists
<1>14. Linear(g, v, n - 1)
  <2>1. \A k \in 1 .. n : k # 2 /\ k # 3 => g.next[u[k]] = IF k = n THEN Nil ELSE u[k + 1]
    <3> SUFFICES ASSUME NEW k \in 1 .. n, k # 2 /\ k # 3
                 PROVE  g.next[u[k]] = IF k = n THEN Nil ELSE u[k + 1]
      OBVIOUS
    <3>1. u[k] \in Cells \ {u[2], u[3]}
      <4>1. 2 \in 1 .. n /\ 3 \in 1 .. n
        BY <1>4
      <4> QED BY <1>3, <1>4, <4>1 DEF Lists
    <3>2. h.next[u[k]] = IF k = n THEN Nil ELSE u[k + 1]
      BY <1>3, <1>4 DEF Linear
    <3> QED BY <1>8, <3>1, <3>2
  <2>2. ASSUME NEW k \in 1 .. n - 1 PROVE g.next[v[k]] = IF k = n - 1 THEN Nil ELSE v[k + 1]
    <3>1. CASE k = 1
      <4>1. g.next[u[1]] = u[2] /\ v[1] = u[1] /\ v[2] = u[2] /\ n - 1 # 1
        BY <1>4, <1>11, <2>1
      <4> QED BY <3>1, <4>1
    <3>2. CASE k = 2
      <4>1. v[2] = u[2] /\ g.next[u[2]] = IF n = 3 THEN Nil ELSE u[4]
        BY <1>5, <1>8, <1>11, <3>2
      <4>2. n - 1 # 2 => v[3] = u[4]
        BY <1>4, <1>11
      <4> QED BY <1>4, <3>2, <4>1, <4>2
    <3>3. CASE k > 2
      <4>1. k + 1 \in 1 .. n /\ k + 1 # 2 /\ k + 1 # 3 /\ v[k] = u[k + 1]
        BY <1>4, <1>11, <3>3
      <4>2. k # n - 1 => v[k + 1] = u[(k + 1) + 1]
        BY <1>4, <1>11, <3>3
      <4>3. k + 1 = n <=> k = n - 1
        BY <1>4
      <4> QED BY <2>1, <4>1, <4>2, <4>3
    <3> QED BY <3>1, <3>2, <3>3
  <2>3. \A k \in 1 .. (n - 1) - 1 : k \in 1 .. n - 1 /\ k # n - 1
    BY <1>4
  <2>4. n - 1 \in 1 .. n - 1 /\ n - 1 > 0
    BY <1>4
  <2> QED BY <1>8, <2>2, <2>3, <2>4 DEF Linear
<1>15. list' = v[1]
  BY <1>1, <1>3, <1>4, <1>11
<1>16. PICK p : p = n - 1
  OBVIOUS
<1>17. Lists(v, p, S) /\ Linear(g, v, p)
  BY <1>13, <1>14, <1>16
<1>18. at' \in {"init", "ready", "find", "sort", "remove", "undo", "index", "return"}
       /\ IF at' = "undo" THEN remover' \in Cells ELSE remover' = Nil
  BY <1>1, <1>5, <1>7
<1> QED BY <1>1, <1>6, <1>9, <1>12, <1>15, <1>17, <1>18, OffInv

\* The removed cell comes back behind the second.
LEMMA UndoInv ==
    ASSUME ListInv, Undo
    PROVE  ListInv'
<1>1. /\ at = "undo" /\ at' = "index" /\ srt' = srt /\ list' = list
      /\ ListType /\ ItemsOnce /\ remover \in Cells /\ remover' = Nil /\ srt.at = "off" /\ h \in Heaps
  BY DEF Undo, ListInv, ListType
<1>2. PICK S : S = Cells \ {remover}
  OBVIOUS
<1>3. PICK u, n : Lists(u, n, S) /\ Linear(h, u, n) /\ list = u[1]
  BY <1>1, <1>2, LinearList
<1>4. n \in Nat /\ n >= 2 /\ u \in [1 .. n -> S]
  <2>1. IsFiniteSet(S) /\ Cardinality(S) = Cardinality(Cells) - 1
    BY <1>1, <1>2, SizeFacts, FS_RemoveElement
  <2>2. n = Cardinality(S)
    BY <1>3, <2>1, ListLength
  <2>3. Cardinality(Cells) = Size - 1
    BY SizeFacts DEF N
  <2>4. n \in Nat /\ n >= 2
    BY <2>1, <2>2, <2>3, SizeFacts
  <2> QED BY <1>3, <2>4 DEF Lists
<1>5. /\ h.next[list] = u[2] /\ h.next[u[2]] = (IF n = 2 THEN Nil ELSE u[3])
      /\ u[2] \in Cells /\ u[2] # remover
  <2>1. h.next[u[1]] = u[1 + 1] /\ h.next[u[2]] = (IF n = 2 THEN Nil ELSE u[2 + 1])
    BY <1>3, <1>4 DEF Linear
  <2>2. u[2] \in S
    BY <1>4
  <2> QED BY <1>2, <1>3, <2>1, <2>2
<1>6. PICK g : g = h'
  OBVIOUS
<1>7. Undone(g, h, u[2], remover)
  <2>1. g = core_list_undo_remove(h, remover, u[2])
    BY <1>5, <1>6 DEF Undo
  <2>2. remover \in Cells \ {u[2]}
    BY <1>1, <1>5
  <2> QED BY <1>1, <1>5, <2>1, <2>2, UndoFields
<1>8. ItemsOnce'
  <2>1. remover \in Cells \ {u[2]}
    BY <1>1, <1>5
  <2> QED BY <1>1, <1>5, <1>6, <1>7, <2>1, Swapped DEF Undone
<1>9. PICK v : v = [k \in 1 .. n + 1 |-> IF k <= 2 THEN u[k] ELSE IF k = 3 THEN remover ELSE u[k - 1]]
  OBVIOUS
<1>10. \A k \in 1 .. n + 1 : v[k] = IF k <= 2 THEN u[k] ELSE IF k = 3 THEN remover ELSE u[k - 1]
  BY <1>9
<1>11. \A k \in 1 .. n : u[k] \in Cells /\ u[k] # remover
  BY <1>2, <1>4
<1>12. Lists(v, n + 1, Cells)
  <2>1. \A j, k \in 1 .. n : u[j] = u[k] => j = k
    BY <1>3 DEF Lists
  <2>2. ASSUME NEW k \in 1 .. n + 1 PROVE v[k] \in Cells
    <3>1. k <= 2 => k \in 1 .. n
      BY <1>4
    <3>2. ~(k <= 2) => k - 1 \in 1 .. n
      BY <1>4
    <3> QED BY <1>1, <1>10, <1>11, <3>1, <3>2
  <2>3. v \in [1 .. n + 1 -> Cells]
    BY <1>9, <1>10, <2>2
  <2>4. ASSUME NEW j \in 1 .. n + 1, NEW k \in 1 .. n + 1, v[j] = v[k] PROVE j = k
    <3> DEFINE from(x) == IF x <= 2 THEN x ELSE x - 1
    <3>1. from(j) \in 1 .. n /\ from(k) \in 1 .. n
      BY <1>4
    <3>2. j # 3 => v[j] = u[from(j)] /\ v[j] # remover
      BY <1>10, <1>11, <3>1
    <3>3. k # 3 => v[k] = u[from(k)] /\ v[k] # remover
      BY <1>10, <1>11, <3>1
    <3>4. (j = 3 => v[j] = remover) /\ (k = 3 => v[k] = remover)
      BY <1>10
    <3>5. CASE j = 3 \/ k = 3
      BY <2>4, <3>2, <3>3, <3>4, <3>5
    <3>6. CASE j # 3 /\ k # 3
      <4>1. from(j) = from(k)
        <5> HIDE DEF from
        <5> QED BY <2>1, <2>4, <3>1, <3>2, <3>3, <3>6
      <4> QED BY <3>6, <4>1
    <3> QED BY <3>5, <3>6
  <2>5. ASSUME NEW x \in Cells PROVE \E k \in 1 .. n + 1 : v[k] = x
    <3>1. CASE x = remover
      <4>1. 3 \in 1 .. n + 1 /\ v[3] = remover
        BY <1>4, <1>10
      <4> QED BY <3>1, <4>1
    <3>2. CASE x # remover
      <4>1. PICK k \in 1 .. n : u[k] = x
        BY <1>2, <1>3, <3>2 DEF Lists
      <4>2. CASE k <= 2
        <5>1. k \in 1 .. n + 1
          BY <1>4
        <5> QED BY <1>10, <4>1, <4>2, <5>1
      <4>3. CASE k > 2
        <5>1. k + 1 \in 1 .. n + 1 /\ ~(k + 1 <= 2) /\ k + 1 # 3 /\ (k + 1) - 1 = k
          BY <1>4, <4>3
        <5> QED BY <1>10, <4>1, <5>1
      <4> QED BY <4>2, <4>3
    <3> QED BY <3>1, <3>2
  <2> QED BY <1>4, <2>3, <2>4, <2>5 DEF Lists
<1>13. Linear(g, v, n + 1)
  <2>1. \A k \in 1 .. n : k # 2 => g.next[u[k]] = IF k = n THEN Nil ELSE u[k + 1]
    <3> SUFFICES ASSUME NEW k \in 1 .. n, k # 2
                 PROVE  g.next[u[k]] = IF k = n THEN Nil ELSE u[k + 1]
      OBVIOUS
    <3>1. u[k] \in Cells \ {u[2], remover}
      <4>1. 2 \in 1 .. n
        BY <1>4
      <4> QED BY <1>3, <1>11, <4>1 DEF Lists
    <3>2. h.next[u[k]] = IF k = n THEN Nil ELSE u[k + 1]
      BY <1>3, <1>4 DEF Linear
    <3> QED BY <1>7, <3>1, <3>2 DEF Undone
  <2>2. g.next[u[2]] = remover /\ g.next[remover] = (IF n = 2 THEN Nil ELSE u[3])
    BY <1>5, <1>7 DEF Undone
  <2>3. ASSUME NEW k \in 1 .. n + 1 PROVE g.next[v[k]] = IF k = n + 1 THEN Nil ELSE v[k + 1]
    <3>1. CASE k = 1
      <4>1. g.next[u[1]] = u[2] /\ v[1] = u[1] /\ v[2] = u[2] /\ n + 1 # 1
        BY <1>4, <1>10, <2>1
      <4> QED BY <3>1, <4>1
    <3>2. CASE k = 2
      <4>1. v[2] = u[2] /\ v[3] = remover /\ n + 1 # 2
        BY <1>4, <1>10
      <4> QED BY <2>2, <3>2, <4>1
    <3>3. CASE k = 3
      <4>1. v[3] = remover /\ (n # 2 => v[4] = u[3])
        BY <1>4, <1>10
      <4>2. n + 1 = 3 <=> n = 2
        BY <1>4
      <4> QED BY <2>2, <3>3, <4>1, <4>2
    <3>4. CASE k > 3
      <4>1. k - 1 \in 1 .. n /\ k - 1 # 2 /\ v[k] = u[k - 1]
        BY <1>4, <1>10, <3>4
      <4>2. k # n + 1 => v[k + 1] = u[(k - 1) + 1]
        BY <1>4, <1>10, <3>4
      <4>3. k - 1 = n <=> k = n + 1
        BY <1>4
      <4> QED BY <2>1, <4>1, <4>2, <4>3
    <3> QED BY <3>1, <3>2, <3>3, <3>4
  <2>4. \A k \in 1 .. (n + 1) - 1 : k \in 1 .. n + 1 /\ k # n + 1
    BY <1>4
  <2>5. n + 1 \in 1 .. n + 1 /\ n + 1 > 0
    BY <1>4
  <2>6. g \in Heaps
    BY <1>7 DEF Undone
  <2> QED BY <2>3, <2>4, <2>5, <2>6 DEF Linear
<1>14. list' = v[1]
  BY <1>1, <1>3, <1>4, <1>10
<1>15. PICK p : p = n + 1
  OBVIOUS
<1>16. Lists(v, p, Cells) /\ Linear(g, v, p)
  BY <1>12, <1>13, <1>15
<1>17. at' \in {"init", "ready", "find", "sort", "remove", "undo", "index", "return"}
       /\ IF at' = "undo" THEN remover' \in Cells ELSE remover' = Nil
  BY <1>1
<1>18. Cells = Cells \ {remover'}
  BY <1>1, SizeFacts
<1> QED BY <1>1, <1>6, <1>8, <1>14, <1>16, <1>17, <1>18, OffInv

\* What goes on without the list.
LEMMA SameList ==
    ASSUME ListInv, UNCHANGED << h, list, srt, remover >>, srt.at # "off" => at' = at, at # "undo",
           at' \in {"init", "ready", "find", "sort", "remove", "index", "return"}
    PROVE  ListInv'
<1>1. ListType' /\ ItemsOnce'
  BY DEF ListInv, ListType, ItemsOnce
<1>2. CASE srt.at = "off"
  <2>1. PICK u, n : Lists(u, n, Cells \ {remover}) /\ Whole(u, n)
    BY <1>2 DEF ListInv
  <2>2. Whole(u, n)'
    BY <2>1 DEF Whole
  <2> QED BY <1>1, <1>2, <2>1, <2>2 DEF ListInv
<1>3. CASE srt.at # "off"
  <2>1. PICK u, n, a : Lists(u, n, Cells) /\ Split(u, n, a)
    BY <1>3 DEF ListInv
  <2>2. Split(u, n, a)'
    BY <2>1 DEF Split
  <2> QED BY <1>1, <1>3, <2>1, <2>2 DEF ListInv
<1> QED BY <1>2, <1>3

\* No step of the benchmark loses a cell.
LEMMA ListStep == ListInv /\ [Next]_vars => ListInv'
<1> SUFFICES ASSUME ListInv, [Next]_vars PROVE ListInv'
  OBVIOUS
<1>0. ASSUME srt.at # "off" PROVE \E u, n, a : Lists(u, n, Cells) /\ Split(u, n, a)
  BY <1>0 DEF ListInv
<1>1. CASE Merge
  <2>1. UNCHANGED << at, remover >> /\ (TakeP \/ TakeQ)
    BY <1>1 DEF Merge, Sorting, bench
  <2>2. PICK u, n, a : Lists(u, n, Cells) /\ Split(u, n, a)
    BY <1>0, <2>1 DEF TakeP, TakeQ
  <2> QED BY <2>1, <2>2, TakePSplit, TakeQSplit
<1>2. CASE Loops
  <2>1. UNCHANGED << at, remover >> /\ (MergeStart \/ MergeEnd)
    BY <1>2 DEF Loops, bench
  <2>2. PICK u, n, a : Lists(u, n, Cells) /\ Split(u, n, a)
    BY <1>0, <2>1 DEF MergeStart, MergeEnd
  <2> QED BY <2>1, <2>2, MergeStartSplit, MergeEndSplit
<1>3. CASE Begin
  <2>1. /\ UNCHANGED << h, list, srt, remover >> /\ at = "ready" /\ at' = "find" /\ srt.at = "off"
    BY <1>3 DEF Begin, ListInv, ListType
  <2> QED BY <2>1, SameList
<1>4. CASE FindsDone
  <2>1. /\ UNCHANGED << h, list, srt, remover >> /\ at = "find" /\ at' \in {"sort", "remove"} /\ srt.at = "off"
    BY <1>4 DEF FindsDone, ListInv, ListType
  <2> QED BY <2>1, SameList
<1>5. CASE Return
  <2>1. /\ UNCHANGED << h, list, srt, remover >> /\ at = "return" /\ at' = "ready" /\ srt.at = "off"
    BY <1>5 DEF Return, ListInv, ListType
  <2> QED BY <2>1, SameList
<1>6. CASE UNCHANGED vars
  <2>1. UNCHANGED << h, list, srt, at, remover >>
    BY <1>6 DEF vars, bench
  <2>2. ListType' /\ ItemsOnce'
    BY <2>1 DEF ListInv, ListType, ItemsOnce
  <2>3. ASSUME NEW u, NEW n, NEW a
        PROVE  Whole(u, n)' = Whole(u, n) /\ Split(u, n, a)' = Split(u, n, a)
    BY <2>1 DEF Whole, Split
  <2> QED BY <2>1, <2>2, <2>3 DEF ListInv
<1>7. CASE SortCall
  <2>1. PICK u, n : Lists(u, n, Cells \ {remover}) /\ Whole(u, n)
    BY <1>7 DEF SortCall, SortStart, ListInv
  <2> QED BY <1>7, <2>1, SortCallSplit
<1>8. CASE SortPass
  <2>1. PICK u, n, a : Lists(u, n, Cells) /\ Split(u, n, a)
    BY <1>0, <1>8 DEF SortPass, PassEnd
  <2> QED BY <1>8, <2>1, SortPassSplit
<1> QED BY <1>1, <1>2, <1>3, <1>4, <1>5, <1>6, <1>7, <1>8, FindInv, RemoveInv, UndoInv DEF Next

\* From core_list_init on, at every step of core_bench_list, the cells are in
\* one order and linked as such, but for the two ends that a merge has still
\* to link.
THEOREM ListInvariant == Spec => []ListInv
BY InitList, ListStep, PTL DEF Spec

----------------------------------------------------------------------------
\* What is linked is all of the list.

\* s holds the z cells of u behind the first o.
Piece(s, u, o, z) ==
    s \in Seq(Cells) /\ Len(s) = z /\ \A k \in 1 .. z : s[k] = u[o + k]

LEMMA JoinPieces ==
    ASSUME NEW u, NEW o \in Nat, NEW y \in Nat, NEW z \in Nat, NEW p, p = o + z,
           NEW s, NEW t, Piece(s, u, o, z), Piece(t, u, p, y)
    PROVE  Piece(s \o t, u, o, z + y)
<1>1. /\ s \in Seq(Cells) /\ Len(s) = z /\ \A k \in 1 .. z : s[k] = u[o + k]
      /\ t \in Seq(Cells) /\ Len(t) = y /\ \A k \in 1 .. y : t[k] = u[p + k]
  BY DEF Piece
<1>2. /\ s \o t \in Seq(Cells) /\ Len(s \o t) = z + y
      /\ \A k \in 1 .. z + y : (s \o t)[k] = IF k <= z THEN s[k] ELSE t[k - z]
  <2>1. s \in Seq(Cells) /\ t \in Seq(Cells)
    BY <1>1
  <2>2. /\ s \o t \in Seq(Cells) /\ Len(s \o t) = Len(s) + Len(t)
        /\ \A k \in 1 .. Len(s) + Len(t) :
              (s \o t)[k] = IF k <= Len(s) THEN s[k] ELSE t[k - Len(s)]
    BY <2>1, ConcatProperties, Zenon
  <2> QED BY <1>1, <2>2
<1>3. ASSUME NEW k \in 1 .. z + y PROVE (s \o t)[k] = u[o + k]
  <2>1. CASE k <= z
    BY <1>1, <1>2, <2>1
  <2>2. CASE k > z
    <3>1. k - z \in 1 .. y /\ p + (k - z) = o + k /\ ~(k <= z)
      BY <2>2
    <3>2. (s \o t)[k] = t[k - z] /\ t[k - z] = u[p + (k - z)]
      BY <1>1, <1>2, <3>1
    <3> QED BY <3>1, <3>2
  <2>3. k <= z \/ k > z
    BY <1>3
  <2> QED BY <2>1, <2>2, <2>3
<1> QED BY <1>2, <1>3 DEF Piece

\* The cells met first from l on.
LEMMA FirstCells ==
    ASSUME h \in Heaps, NEW u, NEW n, Lists(u, n, Cells), NEW o \in Nat, NEW z \in Nat, o + z <= n,
           NEW l \in Cells \cup {Nil}, z > 0 => l = u[o + 1],
           \A k \in o + 1 .. o + z - 1 : h.next[u[k]] = u[k + 1]
    PROVE  /\ Chain(h, l) \in Seq(Cells) /\ z <= Len(Chain(h, l))
           /\ \A k \in 1 .. z : Chain(h, l)[k] = u[o + k]
           /\ Piece(SubSeq(Chain(h, l), 1, z), u, o, z)
<1>1. n \in Nat /\ n = N /\ \A k \in 1 .. n : u[k] \in Cells
  <2>1. IsFiniteSet(Cells)
    BY SizeFacts
  <2>2. n = Cardinality(Cells)
    BY <2>1, ListLength
  <2> QED BY <2>2 DEF Lists, N
<1>2. Pointers(h) /\ N \in Nat
  BY SizeFacts DEF Pointers, Heaps
<1> DEFINE c == Chain(h, l)
<1>3. c \in Seq(Cells) /\ z <= Len(c) /\ \A k \in 1 .. z : c[k] = u[o + k]
  <2>1. CASE z = 0
    <3>1. PICK f, y : Walks(f, y, h, l)
      BY <1>2, ChainFacts
    <3>2. y \in Nat /\ c \in Seq(Cells) /\ Len(c) = y
      BY <1>2, <3>1 DEF Walks
    <3> HIDE DEF c
    <3> QED BY <2>1, <3>2
  <2>2. CASE z # 0
    <3>1. PICK w : w = [k \in 1 .. z |-> u[o + k]]
      OBVIOUS
    <3>2. z \in 0 .. N
      BY <1>1
    <3>3. w \in [1 .. z -> Cells] /\ \A k \in 1 .. z : w[k] = u[o + k]
      <4>1. \A k \in 1 .. z : o + k \in 1 .. n
        BY <1>1
      <4> QED BY <1>1, <3>1, <4>1
    <3>4. l = IF z = 0 THEN Nil ELSE w[1]
      BY <2>2, <3>3
    <3>5. \A k \in 1 .. z - 1 : h.next[w[k]] = w[k + 1]
      <4> SUFFICES ASSUME NEW k \in 1 .. z - 1 PROVE h.next[w[k]] = w[k + 1]
        OBVIOUS
      <4>1. w[k] = u[o + k] /\ w[k + 1] = u[(o + k) + 1] /\ o + k \in o + 1 .. o + z - 1
        BY <3>3
      <4> QED BY <4>1
    <3> HIDE DEF N
    <3>6. Begins(h, l, w, z)
      BY <1>2, <3>2, <3>3, <3>4, <3>5, ChainPrefix
    <3> QED BY <3>3, <3>6 DEF Begins
  <2> QED BY <2>1, <2>2
<1> HIDE DEF c
<1>4. Piece(SubSeq(c, 1, z), u, o, z)
  <2>1. \A k \in 1 .. z : c[k] \in Cells
    BY <1>3
  <2>2. /\ SubSeq(c, 1, z) \in Seq(Cells)
        /\ Len(SubSeq(c, 1, z)) = IF 1 <= z THEN z - 1 + 1 ELSE 0
        /\ \A k \in 1 .. z - 1 + 1 : SubSeq(c, 1, z)[k] = c[1 + k - 1]
    BY <2>1, SubSeqProperties
  <2>3. Len(SubSeq(c, 1, z)) = z
    BY <2>2
  <2>4. ASSUME NEW k \in 1 .. z PROVE SubSeq(c, 1, z)[k] = c[k]
    <3>1. k \in 1 .. z - 1 + 1 /\ 1 + k - 1 = k
      OBVIOUS
    <3> QED BY <2>2, <3>1
  <2> QED BY <1>3, <2>2, <2>3, <2>4 DEF Piece
<1> QED BY <1>3, <1>4 DEF c

\* All cells from l on.
LEMMA LastCells ==
    ASSUME h \in Heaps, NEW u, NEW n, Lists(u, n, Cells), NEW o \in 0 .. n,
           NEW l, l = IF o < n THEN u[o + 1] ELSE Nil,
           \A k \in o + 1 .. n - 1 : h.next[u[k]] = u[k + 1], o < n => h.next[u[n]] = Nil
    PROVE  Piece(Chain(h, l), u, o, n - o)
<1>1. n \in Nat /\ n = N /\ \A k \in 1 .. n : u[k] \in Cells
  <2>1. IsFiniteSet(Cells)
    BY SizeFacts
  <2>2. n = Cardinality(Cells)
    BY <2>1, ListLength
  <2> QED BY <2>2 DEF Lists, N
<1>2. Pointers(h) /\ N \in Nat
  BY SizeFacts DEF Pointers, Heaps
<1>3. l \in Cells \cup {Nil}
  <2>1. o < n => o + 1 \in 1 .. n
    BY <1>1
  <2> QED BY <1>1, <2>1
<1>4. PICK z : z = n - o /\ z \in 0 .. N /\ o + z = n
  BY <1>1
<1>5. PICK w : w = [k \in 1 .. z |-> u[o + k]]
  OBVIOUS
<1> HIDE DEF N
<1>6. w \in [1 .. z -> Cells] /\ \A k \in 1 .. z : w[k] = u[o + k]
  <2>1. \A k \in 1 .. z : o + k \in 1 .. n
    BY <1>1, <1>4
  <2> QED BY <1>1, <1>5, <2>1
<1>7. l = IF z = 0 THEN Nil ELSE w[1]
  BY <1>1, <1>4, <1>6
<1>8. \A k \in 1 .. z - 1 : h.next[w[k]] = w[k + 1]
  <2> SUFFICES ASSUME NEW k \in 1 .. z - 1 PROVE h.next[w[k]] = w[k + 1]
    OBVIOUS
  <2>1. w[k] = u[o + k] /\ w[k + 1] = u[(o + k) + 1] /\ o + k \in o + 1 .. n - 1
    BY <1>1, <1>4, <1>6
  <2> QED BY <2>1
<1>9. z > 0 => h.next[w[z]] = Nil
  <2>1. z > 0 => w[z] = u[n] /\ o < n
    BY <1>1, <1>4, <1>6
  <2> QED BY <2>1
<1>10. Begins(h, l, w, z)
  BY <1>2, <1>3, <1>4, <1>6, <1>7, <1>8, ChainPrefix
<1> QED BY <1>4, <1>6, <1>9, <1>10 DEF Begins, Piece

LEMMA AllOnce ==
    ASSUME NEW u, NEW n, NEW S, IsFiniteSet(S), Lists(u, n, S),
           NEW s, Piece(s, u, 0, n)
    PROVE  EachOnce(s, S)
<1>1. n = Cardinality(S) /\ n \in Nat
  <2>1. n = Cardinality(S)
    BY ListLength
  <2> QED BY <2>1 DEF Lists
<1>2. Len(s) = n /\ DOMAIN s = 1 .. n /\ \A k \in 1 .. n : s[k] = u[k]
  <2>1. \A k \in 1 .. n : 0 + k = k
    OBVIOUS
  <2> QED BY <1>1, <2>1 DEF Piece
<1>3. ASSUME NEW x \in S PROVE Positions(s, x) # {}
  <2>1. PICK k \in 1 .. n : u[k] = x
    BY DEF Lists
  <2>2. k \in Positions(s, x)
    BY <1>2, <2>1 DEF Positions
  <2> QED BY <2>2
<1> QED BY <1>1, <1>2, <1>3 DEF EachOnce

LEMMA LineOff ==
    ASSUME ListInv, srt.at = "off"
    PROVE  EachOnce(Line, Cells \ {remover})
<1>1. PICK S : S = Cells \ {remover}
  OBVIOUS
<1>2. PICK u, n : Lists(u, n, S) /\ Linear(h, u, n) /\ list = u[1]
  BY <1>1, LinearList
<1>3. Piece(Line, u, 0, n)
  <2>1. S \subseteq Cells
    BY <1>1
  <2>2. /\ Chain(h, list) \in Seq(Cells) /\ Len(Chain(h, list)) = n
        /\ \A k \in 1 .. n : Chain(h, list)[k] = u[k]
    BY <1>2, <2>1, ChainOfList
  <2>3. Line = Chain(h, list)
    BY DEF Line
  <2>4. \A k \in 1 .. n : 0 + k = k
    BY <1>2 DEF Lists
  <2> QED BY <2>2, <2>3, <2>4 DEF Piece
<1>4. IsFiniteSet(S)
  BY <1>1, SizeFacts, FS_RemoveElement
<1> QED BY <1>1, <1>2, <1>3, <1>4, AllOnce

\* What is left of the two runs is what follows the merged cells in u.
LEMMA RestPieces ==
    ASSUME ListInv, srt.at # "off", NEW u, NEW n, NEW a, Lists(u, n, Cells), Split(u, n, a),
           NEW b, b = a + srt.psize
    PROVE  Piece(RestP, u, a, srt.psize) /\ Piece(RestQ, u, b, n - b)
<1>1. Lists(u, n, Cells) /\ Split(u, n, a)
  OBVIOUS
<1>2. /\ h \in Heaps /\ srt \in Sorts /\ list \in Cells \cup {Nil}
      /\ srt.at \in {"pass", "merge"} /\ srt.psize \in Nat
      /\ srt.p \in Cells \cup {Nil} /\ Nil \notin Cells
  BY NilAssumption DEF ListInv, ListType, Sorts
<1>3. b = a + srt.psize
  OBVIOUS
<1>4. /\ n \in Nat /\ a \in Nat /\ b \in a .. n /\ a <= n
      /\ list = (IF a = 0 THEN Nil ELSE u[1]) /\ srt.tail = (IF a = 0 THEN Nil ELSE u[a])
      /\ \A k \in 1 .. n - 1 : k # a /\ k # b => h.next[u[k]] = u[k + 1]
      /\ b < n => h.next[u[n]] = Nil
  BY <1>1, <1>2, <1>3 DEF Split, Lists
<1>7. Piece(RestP, u, a, srt.psize)
  <2>1. CASE srt.at = "pass"
    <3>1. RestP = << >> /\ srt.psize = 0
      BY <1>1, <2>1 DEF RestP, Split
    <3> QED BY <1>4, <3>1 DEF Piece
  <2>2. CASE srt.at = "merge"
    <3>1. RestP = SubSeq(Chain(h, srt.p), 1, srt.psize)
      BY <2>2 DEF RestP
    <3>2. srt.psize > 0 => srt.p = u[a + 1]
      BY <1>1, <2>2 DEF Split
    <3>3. \A k \in a + 1 .. a + srt.psize - 1 : h.next[u[k]] = u[k + 1]
      BY <1>2, <1>3, <1>4
    <3>4. a + srt.psize <= n
      BY <1>3, <1>4
    <3>5. Piece(SubSeq(Chain(h, srt.p), 1, srt.psize), u, a, srt.psize)
      BY <1>1, <1>2, <1>4, <3>2, <3>3, <3>4, FirstCells
    <3> QED BY <3>1, <3>5
  <2> QED BY <1>2, <2>1, <2>2
<1>8. Piece(RestQ, u, b, n - b)
  <2>1. PICK l : l = IF srt.at = "merge" THEN srt.q ELSE srt.p
    OBVIOUS
  <2>2. l = IF b < n THEN u[b + 1] ELSE Nil
    <3>1. CASE srt.at = "merge"
      BY <1>1, <1>3, <2>1, <3>1 DEF Split
    <3>2. CASE srt.at = "pass"
      <4>1. srt.psize = 0 /\ srt.p = IF a < n THEN u[a + 1] ELSE Nil
        BY <1>1, <3>2 DEF Split
      <4>2. b = a
        BY <1>3, <1>4, <4>1
      <4> QED BY <2>1, <3>2, <4>1, <4>2
    <3> QED BY <1>2, <3>1, <3>2
  <2>3. \A k \in b + 1 .. n - 1 : h.next[u[k]] = u[k + 1]
    BY <1>4
  <2>4. b \in 0 .. n
    BY <1>4
  <2>5. Piece(Chain(h, l), u, b, n - b)
    BY <1>1, <1>2, <1>4, <2>2, <2>3, <2>4, LastCells
  <2> QED BY <2>1, <2>5 DEF RestQ
<1> QED BY <1>7, <1>8

LEMMA LineSplit ==
    ASSUME ListInv, srt.at # "off"
    PROVE  EachOnce(Line, Cells \ {remover})
<1>1. PICK u, n, a : Lists(u, n, Cells) /\ Split(u, n, a)
  BY DEF ListInv
<1>2. /\ h \in Heaps /\ srt \in Sorts /\ list \in Cells \cup {Nil} /\ remover = Nil
      /\ srt.at \in {"pass", "merge"} /\ srt.psize \in Nat
      /\ srt.p \in Cells \cup {Nil} /\ Nil \notin Cells
  BY NilAssumption DEF ListInv, ListType, Sorts
<1>3. PICK b : b = a + srt.psize
  OBVIOUS
<1>4. /\ n \in Nat /\ a \in Nat /\ b \in a .. n /\ a <= n
      /\ list = (IF a = 0 THEN Nil ELSE u[1]) /\ srt.tail = (IF a = 0 THEN Nil ELSE u[a])
      /\ \A k \in 1 .. n - 1 : k # a /\ k # b => h.next[u[k]] = u[k + 1]
      /\ b < n => h.next[u[n]] = Nil
  BY <1>1, <1>2, <1>3 DEF Split, Lists
<1>5. \A k \in 1 .. n : u[k] \in Cells /\ u[k] # Nil
  BY <1>1, <1>2 DEF Lists
<1>6. Piece(Merged, u, 0, a)
  <2>1. CASE a = 0
    <3>1. Merged = << >>
      BY <1>4, <2>1 DEF Merged
    <3> QED BY <2>1, <3>1 DEF Piece
  <2>2. CASE a # 0
    <3> DEFINE c == Chain(h, list)
               k0 == CHOOSE k \in DOMAIN c : c[k] = srt.tail /\ \A j \in 1 .. k - 1 : c[j] # srt.tail
    <3>1. \A k \in 0 + 1 .. 0 + a - 1 : h.next[u[k]] = u[k + 1]
      BY <1>4
    <3>2. a > 0 => list = u[0 + 1]
      BY <1>4
    <3>3. /\ c \in Seq(Cells) /\ a <= Len(c) /\ \A k \in 1 .. a : c[k] = u[0 + k]
          /\ Piece(SubSeq(c, 1, a), u, 0, a)
      <4>1. 0 \in Nat /\ 0 + a <= n
        BY <1>4
      <4> QED BY <1>1, <1>2, <1>4, <3>1, <3>2, <4>1, FirstCells
    <3>4. Merged = SubSeq(c, 1, k0)
      <4>1. a \in 1 .. n
        BY <1>4, <2>2
      <4>2. srt.tail # Nil
        BY <1>4, <1>5, <2>2, <4>1
      <4> QED BY <4>2, Zenon DEF Merged
    <3> HIDE DEF c
    <3>5. a \in DOMAIN c /\ c[a] = srt.tail /\ \A j \in 1 .. a - 1 : c[j] # srt.tail
      <4>1. a \in 1 .. a /\ a \in 1 .. n /\ a \in DOMAIN c
        BY <1>4, <2>2, <3>3
      <4>2. \A k \in 1 .. a : c[k] = u[k]
        BY <1>4, <3>3
      <4>3. ASSUME NEW j \in 1 .. a - 1 PROVE c[j] # srt.tail
        <5>1. j \in 1 .. a /\ j \in 1 .. n /\ j # a
          BY <1>4
        <5>2. u[j] # u[a]
          BY <1>1, <4>1, <5>1 DEF Lists
        <5> QED BY <1>4, <2>2, <4>2, <5>1, <5>2
      <4> QED BY <1>4, <2>2, <4>1, <4>2, <4>3
    <3>6. \A k \in DOMAIN c : c[k] = srt.tail /\ (\A j \in 1 .. k - 1 : c[j] # srt.tail) => k = a
      <4> SUFFICES ASSUME NEW k \in DOMAIN c, c[k] = srt.tail, \A j \in 1 .. k - 1 : c[j] # srt.tail
                   PROVE  k = a
        OBVIOUS
      <4>1. k \in Nat /\ k > 0 /\ a > 0
        BY <1>4, <2>2, <3>3
      <4>2. ~(k < a) /\ ~(a < k)
        BY <1>4, <3>5, <4>1
      <4> QED BY <1>4, <4>1, <4>2
    <3>7. k0 = a
      BY <3>5, <3>6
    <3> QED BY <3>3, <3>4, <3>7
  <2> QED BY <2>1, <2>2
<1>7. Piece(RestP, u, a, srt.psize) /\ Piece(RestQ, u, b, n - b)
  BY <1>1, <1>2, <1>3, RestPieces
<1>9. Piece(Line, u, 0, n)
  <2>1. Piece(Merged \o RestP, u, 0, a + srt.psize)
    <3>1. a = 0 + a /\ 0 \in Nat
      BY <1>4
    <3> QED BY <1>2, <1>4, <1>6, <1>7, <3>1, JoinPieces
  <2>2. Piece(Merged \o RestP, u, 0, b)
    BY <1>3, <2>1
  <2>3. Piece((Merged \o RestP) \o RestQ, u, 0, b + (n - b))
    <3>1. b = 0 + b /\ 0 \in Nat /\ b \in Nat /\ n - b \in Nat
      BY <1>4
    <3> QED BY <1>7, <2>2, <3>1, JoinPieces
  <2>4. b + (n - b) = n
    BY <1>4
  <2>5. Line = (Merged \o RestP) \o RestQ
    BY DEF Line
  <2> QED BY <2>3, <2>4, <2>5
<1>10. Cells \ {remover} = Cells /\ IsFiniteSet(Cells)
  BY <1>2, SizeFacts
<1> QED BY <1>1, <1>9, <1>10, AllOnce

\* No cell is lost and none is linked twice, at every step of every run of the
\* benchmark, whatever the size of the list, the seeds, what the sorts find
\* when they compare and where a find hits.
THEOREM NoCellLostCorrect == Spec => []NoCellLost
<1>1. ListInv => NoCellLost
  <2> SUFFICES ASSUME ListInv PROVE NoCellLost
    OBVIOUS
  <2>1. EachOnce(Line, Cells \ {remover})
    BY LineOff, LineSplit
  <2>2. ItemsOnce
    BY DEF ListInv
  <2> QED BY <2>1, <2>2 DEF NoCellLost, ItemsOnce
<1> QED BY <1>1, ListInvariant, PTL


----------------------------------------------------------------------------
\* Words.

LEMMA Parts ==
    ASSUME NEW x \in Nat, NEW n \in {2, 4, 16, 256}
    PROVE  x \div n \in Nat /\ x % n \in Nat /\ x = n * (x \div n) + (x % n)
OBVIOUS

LEMMA XorType ==
    ASSUME NEW a \in Nat, NEW b \in Nat
    PROVE  xor(a, b) \in Nat
<1>1. \A x, y \in Nat : xor1(x, y) \in Nat
  BY DEF xor1
<1>2. ASSUME NEW x \in Nat, NEW y \in Nat PROVE xor2(x, y) \in Nat
  <2>1. /\ x \div 2 \in Nat /\ x % 2 \in Nat /\ x = 2 * (x \div 2) + (x % 2)
        /\ y \div 2 \in Nat /\ y % 2 \in Nat /\ y = 2 * (y \div 2) + (y % 2)
    BY Parts
  <2>2. /\ xor1(x \div 2, y \div 2) \in Nat
        /\ xor1(x % 2, y % 2) \in Nat
    BY <1>1, <2>1
  <2> QED BY <2>1, <2>2 DEF xor2
<1>3. ASSUME NEW x \in Nat, NEW y \in Nat PROVE xor4(x, y) \in Nat
  <2>1. /\ x \div 4 \in Nat /\ x % 4 \in Nat /\ x = 4 * (x \div 4) + (x % 4)
        /\ y \div 4 \in Nat /\ y % 4 \in Nat /\ y = 4 * (y \div 4) + (y % 4)
    BY Parts
  <2>2. /\ xor2(x \div 4, y \div 4) \in Nat
        /\ xor2(x % 4, y % 4) \in Nat
    BY <1>2, <2>1
  <2> QED BY <2>1, <2>2 DEF xor4
<1>4. ASSUME NEW x \in Nat, NEW y \in Nat PROVE xor8(x, y) \in Nat
  <2>1. /\ x \div 16 \in Nat /\ x % 16 \in Nat /\ x = 16 * (x \div 16) + (x % 16)
        /\ y \div 16 \in Nat /\ y % 16 \in Nat /\ y = 16 * (y \div 16) + (y % 16)
    BY Parts
  <2>2. /\ xor4(x \div 16, y \div 16) \in Nat
        /\ xor4(x % 16, y % 16) \in Nat
    BY <1>3, <2>1
  <2> QED BY <2>1, <2>2 DEF xor8
<1>5. ASSUME NEW x \in Nat, NEW y \in Nat PROVE xor(x, y) \in Nat
  <2>1. /\ x \div 256 \in Nat /\ x % 256 \in Nat /\ x = 256 * (x \div 256) + (x % 256)
        /\ y \div 256 \in Nat /\ y % 256 \in Nat /\ y = 256 * (y \div 256) + (y % 256)
    BY Parts
  <2>2. /\ xor8(x \div 256, y \div 256) \in Nat
        /\ xor8(x % 256, y % 256) \in Nat
    BY <1>4, <2>1
  <2> QED BY <2>1, <2>2 DEF xor
<1> QED BY <1>5

LEMMA OrType ==
    ASSUME NEW a \in Nat, NEW b \in Nat
    PROVE  or(a, b) \in 0 .. a + b
<1>1. \A x, y \in Nat : or1(x, y) \in 0 .. x + y
  BY DEF or1
<1>2. ASSUME NEW x \in Nat, NEW y \in Nat PROVE or2(x, y) \in 0 .. x + y
  <2>1. /\ x \div 2 \in Nat /\ x % 2 \in Nat /\ x = 2 * (x \div 2) + (x % 2)
        /\ y \div 2 \in Nat /\ y % 2 \in Nat /\ y = 2 * (y \div 2) + (y % 2)
    BY Parts
  <2>2. /\ or1(x \div 2, y \div 2) \in 0 .. x \div 2 + y \div 2
        /\ or1(x % 2, y % 2) \in 0 .. (x % 2) + (y % 2)
    BY <1>1, <2>1
  <2> QED BY <2>1, <2>2 DEF or2
<1>3. ASSUME NEW x \in Nat, NEW y \in Nat PROVE or4(x, y) \in 0 .. x + y
  <2>1. /\ x \div 4 \in Nat /\ x % 4 \in Nat /\ x = 4 * (x \div 4) + (x % 4)
        /\ y \div 4 \in Nat /\ y % 4 \in Nat /\ y = 4 * (y \div 4) + (y % 4)
    BY Parts
  <2>2. /\ or2(x \div 4, y \div 4) \in 0 .. x \div 4 + y \div 4
        /\ or2(x % 4, y % 4) \in 0 .. (x % 4) + (y % 4)
    BY <1>2, <2>1
  <2> QED BY <2>1, <2>2 DEF or4
<1>4. ASSUME NEW x \in Nat, NEW y \in Nat PROVE or8(x, y) \in 0 .. x + y
  <2>1. /\ x \div 16 \in Nat /\ x % 16 \in Nat /\ x = 16 * (x \div 16) + (x % 16)
        /\ y \div 16 \in Nat /\ y % 16 \in Nat /\ y = 16 * (y \div 16) + (y % 16)
    BY Parts
  <2>2. /\ or4(x \div 16, y \div 16) \in 0 .. x \div 16 + y \div 16
        /\ or4(x % 16, y % 16) \in 0 .. (x % 16) + (y % 16)
    BY <1>3, <2>1
  <2> QED BY <2>1, <2>2 DEF or8
<1>5. ASSUME NEW x \in Nat, NEW y \in Nat PROVE or(x, y) \in 0 .. x + y
  <2>1. /\ x \div 256 \in Nat /\ x % 256 \in Nat /\ x = 256 * (x \div 256) + (x % 256)
        /\ y \div 256 \in Nat /\ y % 256 \in Nat /\ y = 256 * (y \div 256) + (y % 256)
    BY Parts
  <2>2. or8(x \div 256, y \div 256) \in 0 .. x \div 256 + y \div 256
    BY <1>4, <2>1
  <2>3. or8(x % 256, y % 256) \in 0 .. (x % 256) + (y % 256)
    BY <1>4, <2>1
  <2> QED BY <2>1, <2>2, <2>3 DEF or
<1> QED BY <1>5

----------------------------------------------------------------------------
\* The order a sort establishes.  u is the order of the cells, g gives what
\* the comparison looks at, r the place a cell had before the sort, and t
\* holds the cells that have been compared, whose g does not change any more.

Less(g, r, x, y) == g[x] < g[y] \/ (g[x] = g[y] /\ r[x] < r[y])

Sorted(u, lo, hi, g, r) ==
    \A j, k \in lo + 1 .. hi : j < k => Less(g, r, u[j], u[k])

\* The cells behind lo, to hi: a run that is sorted.
Settled(u, lo, hi, g, t, r) ==
    /\ Sorted(u, lo, hi, g, r)
    /\ hi - lo > 1 => \A k \in lo + 1 .. hi : u[k] \in t

\* The first e cells were before the others.
Apart(u, n, e, r) == \A j \in 1 .. e, k \in e + 1 .. n : r[u[j]] < r[u[k]]

End(e, size, n) == IF e + size < n THEN e + size ELSE n

\* From lo to hi there are runs of size; E holds where they begin and end.
Runs(E, u, n, lo, hi, size, g, t, r) ==
    /\ E \subseteq lo .. hi /\ lo \in E /\ hi \in E
    /\ \A e \in E : Apart(u, n, e, r)
    /\ \A e \in E : e < hi => End(e, size, n) \in E /\ Settled(u, e, End(e, size, n), g, t, r)

\* Between two merges: a cells are in runs of twice the size.
PassOrder(u, n, a, size, nmerges, g, t, r) ==
    /\ \E L : Runs(L, u, n, 0, a, 2 * size, g, t, r)
    /\ \E R : Runs(R, u, n, a, n, size, g, t, r)
    /\ nmerges = 0 => a = 0
    /\ nmerges = 1 => Settled(u, 0, a, g, t, r)

\* In the merge that began behind o: those merged, to a, are in order before
\* the rest of the two runs, which end at b and z.
MergeOrder(u, a, b, z, o, g, t, r) ==
    /\ o <= a /\ a <= b /\ b <= z /\ (a = o => a < b)
    /\ \A j \in o + 1 .. a, k \in o + 1 .. z : j < k => Less(g, r, u[j], u[k])
    /\ Sorted(u, a, b, g, r) /\ Sorted(u, b, z, g, r)
    /\ \A j \in a + 1 .. b, k \in b + 1 .. z : r[u[j]] < r[u[k]]
    /\ o < a /\ z - o > 1 => \A k \in o + 1 .. z : u[k] \in t
    /\ o = a /\ b - a > 1 => \A k \in a + 1 .. b : u[k] \in t
    /\ o = a /\ z - b > 1 => \A k \in b + 1 .. z : u[k] \in t

InMerge(u, n, a, b, z, size, nmerges, g, t, r) ==
    \E o \in 0 .. n - 1 :
       /\ z = End(o, 2 * size, n)
       /\ MergeOrder(u, a, b, z, o, g, t, r)
       /\ \E L : Runs(L, u, n, 0, o, 2 * size, g, t, r)
       /\ \E R : Runs(R, u, n, z, n, size, g, t, r)
       /\ nmerges = 1 => o = 0

\* What g, t and r are.
Keys(g, t, r) == g \in [Cells -> Int] /\ t \subseteq Cells /\ r \in [Cells -> Int]

LEMMA LessTrans ==
    ASSUME NEW g, NEW t, NEW r, Keys(g, t, r),
           NEW x \in Cells, NEW y \in Cells, NEW e \in Cells, Less(g, r, x, y), Less(g, r, y, e)
    PROVE  Less(g, r, x, e)
<1>1. /\ g[x] \in Int /\ g[y] \in Int /\ g[e] \in Int
      /\ r[x] \in Int /\ r[y] \in Int /\ r[e] \in Int
  BY DEF Keys
<1> QED BY <1>1 DEF Less

LEMMA Ends ==
    ASSUME NEW n \in Nat, NEW e \in 0 .. n, NEW size \in Nat \ {0}
    PROVE  /\ End(e, size, n) \in e .. n /\ (e < n => End(e, size, n) > e)
           /\ End(End(e, size, n), size, n) = End(e, 2 * size, n)
BY DEF End

\* A list before its sort: runs of one cell.
LEMMA OrderStart ==
    ASSUME NEW u, NEW n \in Nat, NEW g, NEW t, NEW r, \A k \in 1 .. n : r[u[k]] = k
    PROVE  PassOrder(u, n, 0, 1, 0, g, t, r)
<1>1. \A e \in 0 .. n : Apart(u, n, e, r)
  <2> SUFFICES ASSUME NEW e \in 0 .. n, NEW j \in 1 .. e, NEW k \in e + 1 .. n
               PROVE  r[u[j]] < r[u[k]]
    BY DEF Apart
  <2>1. j \in 1 .. n /\ k \in 1 .. n /\ j < k
    OBVIOUS
  <2> QED BY <2>1
<1>2. Runs({0}, u, n, 0, 0, 2 * 1, g, t, r)
  BY <1>1 DEF Runs
<1>3. Runs(0 .. n, u, n, 0, n, 1, g, t, r)
  <2>1. ASSUME NEW e \in 0 .. n, e < n
        PROVE  End(e, 1, n) \in 0 .. n /\ Settled(u, e, End(e, 1, n), g, t, r)
    <3>1. End(e, 1, n) = e + 1
      BY <2>1 DEF End
    <3>2. ~(e + 1 - e > 1) /\ \A j, k \in e + 1 .. e + 1 : ~(j < k)
      OBVIOUS
    <3>3. Settled(u, e, e + 1, g, t, r)
      BY <3>2 DEF Settled, Sorted
    <3> QED BY <2>1, <3>1, <3>3
  <2> QED BY <1>1, <2>1 DEF Runs
<1>4. Settled(u, 0, 0, g, t, r)
  BY DEF Settled, Sorted
<1> QED BY <1>2, <1>3, <1>4 DEF PassOrder

\* The pass is over, with runs of twice the size.
LEMMA OrderPass ==
    ASSUME NEW u, NEW n \in Nat, NEW size \in Nat, NEW nmerges, NEW g, NEW t, NEW r,
           PassOrder(u, n, n, size, nmerges, g, t, r)
    PROVE  PassOrder(u, n, 0, 2 * size, 0, g, t, r)
<1>1. PICK L : Runs(L, u, n, 0, n, 2 * size, g, t, r)
  BY DEF PassOrder
<1>2. Runs({0}, u, n, 0, 0, 2 * (2 * size), g, t, r)
  BY <1>1 DEF Runs
<1> QED BY <1>1, <1>2 DEF PassOrder

\* A merge begins.
LEMMA OrderMergeStart ==
    ASSUME NEW u, NEW n \in Nat, NEW a \in 0 .. n - 1, NEW size \in Nat \ {0}, NEW nmerges \in Nat,
           NEW g, NEW t, NEW r, PassOrder(u, n, a, size, nmerges, g, t, r),
           NEW b, b = End(a, size, n), NEW z, z = End(b, size, n)
    PROVE  InMerge(u, n, a, b, z, size, nmerges + 1, g, t, r)
<1>0. a \in 0 .. n /\ a < n
  OBVIOUS
<1>1. b \in a + 1 .. n /\ z \in b .. n /\ z = End(a, 2 * size, n) /\ (b < n => z > b)
  <2>1. b \in a .. n /\ b > a /\ z = End(a, 2 * size, n)
    BY <1>0, Ends
  <2>2. b \in 0 .. n
    BY <1>0, <2>1
  <2>3. z \in b .. n /\ (b < n => z > b)
    BY <2>2, Ends
  <2> QED BY <1>0, <2>1, <2>3
<1>2. PICK L : Runs(L, u, n, 0, a, 2 * size, g, t, r)
  BY DEF PassOrder
<1>3. PICK R : Runs(R, u, n, a, n, size, g, t, r)
  BY DEF PassOrder
<1>4. b \in R /\ Settled(u, a, b, g, t, r) /\ Apart(u, n, b, r)
  <2>1. a \in R /\ a < n
    BY <1>0, <1>3 DEF Runs
  <2>2. b \in R /\ Settled(u, a, b, g, t, r)
    BY <1>3, <2>1 DEF Runs
  <2> QED BY <1>3, <2>2 DEF Runs
<1>5. z \in R /\ Settled(u, b, z, g, t, r)
  <2>1. CASE b < n
    BY <1>3, <1>4, <2>1 DEF Runs
  <2>2. CASE b = n
    <3>1. z = b
      BY <1>1, <2>2
    <3>2. ~(z - b > 1) /\ \A j \in b + 1 .. z : FALSE
      BY <1>1, <3>1
    <3> QED BY <1>4, <3>1, <3>2 DEF Settled, Sorted
  <2> QED BY <1>1, <2>1, <2>2
<1>6. \A j \in a + 1 .. b, k \in b + 1 .. z : r[u[j]] < r[u[k]]
  BY <1>1, <1>4 DEF Apart
<1>7. MergeOrder(u, a, b, z, a, g, t, r)
  BY <1>1, <1>4, <1>5, <1>6 DEF MergeOrder, Settled
<1>8. PICK Q : Q = {e \in R : z <= e}
  OBVIOUS
<1>9. Runs(Q, u, n, z, n, size, g, t, r)
  <2>1. R \subseteq a .. n /\ n \in R /\ \A e \in R : Apart(u, n, e, r)
    BY <1>3 DEF Runs
  <2>2. Q \subseteq z .. n /\ z \in Q /\ n \in Q /\ \A e \in Q : Apart(u, n, e, r)
    <3>1. z \in Nat /\ z <= n /\ z <= z
      BY <1>0, <1>1
    <3>2. \A e \in Q : e \in R /\ z <= e
      BY <1>8
    <3>3. Q \subseteq z .. n
      <4> SUFFICES ASSUME NEW e \in Q PROVE e \in z .. n
        OBVIOUS
      <4>1. e \in a .. n /\ z <= e
        BY <2>1, <3>2
      <4> QED BY <1>0, <3>1, <4>1
    <3> QED BY <1>5, <1>8, <2>1, <3>1, <3>2, <3>3
  <2>3. ASSUME NEW e \in Q, e < n
        PROVE  End(e, size, n) \in Q /\ Settled(u, e, End(e, size, n), g, t, r)
    <3>1. e \in R /\ e \in 0 .. n /\ z <= e
      BY <1>1, <1>8, <2>2
    <3>2. End(e, size, n) \in R /\ Settled(u, e, End(e, size, n), g, t, r)
      BY <1>3, <2>3, <3>1 DEF Runs
    <3>3. End(e, size, n) \in e .. n
      BY <3>1, Ends
    <3> QED BY <1>1, <1>8, <3>1, <3>2, <3>3
  <2> QED BY <2>2, <2>3 DEF Runs
<1>10. nmerges + 1 = 1 => a = 0
  BY DEF PassOrder
<1> QED BY <1>1, <1>2, <1>7, <1>9, <1>10 DEF InMerge

\* A merge is over.
LEMMA OrderMergeEnd ==
    ASSUME NEW u, NEW n \in Nat, NEW a \in 0 .. n, NEW size \in Nat \ {0}, NEW nmerges \in Nat,
           NEW g, NEW t, NEW r, InMerge(u, n, a, a, a, size, nmerges, g, t, r), nmerges # 0
    PROVE  PassOrder(u, n, a, size, nmerges, g, t, r)
<1>1. PICK o \in 0 .. n - 1 :
         /\ a = End(o, 2 * size, n)
         /\ MergeOrder(u, a, a, a, o, g, t, r)
         /\ \E L : Runs(L, u, n, 0, o, 2 * size, g, t, r)
         /\ \E R : Runs(R, u, n, a, n, size, g, t, r)
         /\ nmerges = 1 => o = 0
  BY DEF InMerge
<1>2. o < a /\ Settled(u, o, a, g, t, r)
  <2>1. o < a
    BY <1>1 DEF MergeOrder
  <2> QED BY <1>1, <2>1 DEF MergeOrder, Settled, Sorted
<1>3. PICK L : Runs(L, u, n, 0, o, 2 * size, g, t, r)
  BY <1>1
<1>4. PICK R : Runs(R, u, n, a, n, size, g, t, r)
  BY <1>1
<1>5. PICK P : P = L \cup {a}
  OBVIOUS
<1>6. Runs(P, u, n, 0, a, 2 * size, g, t, r)
  <2>1. L \subseteq 0 .. o /\ 0 \in L /\ o \in L /\ \A e \in L : Apart(u, n, e, r)
    BY <1>3 DEF Runs
  <2>2. P \subseteq 0 .. a /\ 0 \in P /\ a \in P
    BY <1>2, <1>5, <2>1
  <2>3. \A e \in P : Apart(u, n, e, r)
    BY <1>4, <1>5, <2>1 DEF Runs
  <2>4. ASSUME NEW e \in P, e < a
        PROVE  End(e, 2 * size, n) \in P /\ Settled(u, e, End(e, 2 * size, n), g, t, r)
    <3>1. e \in L /\ e \in 0 .. o
      BY <1>5, <2>1, <2>4
    <3>2. CASE e = o
      BY <1>1, <1>2, <2>2, <3>2
    <3>3. CASE e < o
      BY <1>3, <1>5, <3>1, <3>3 DEF Runs
    <3> QED BY <3>1, <3>2, <3>3
  <2> QED BY <2>2, <2>3, <2>4 DEF Runs
<1> QED BY <1>1, <1>2, <1>4, <1>6 DEF PassOrder

\* What the comparison changes is only what has not been compared: g of cells
\* that are alone in their runs.
LEMMA OrderKeys ==
    ASSUME NEW E, NEW u, NEW n, NEW lo, NEW hi, NEW size, NEW g, NEW t, NEW r,
           Runs(E, u, n, lo, hi, size, g, t, r), n \in Nat, lo \in 0 .. n, hi \in lo .. n,
           size \in Nat \ {0},
           NEW gg, NEW tt, t \subseteq tt, \A c \in t : gg[c] = g[c]
    PROVE  Runs(E, u, n, lo, hi, size, gg, tt, r)
<1>1. ASSUME NEW e \in E, e < hi PROVE Settled(u, e, End(e, size, n), gg, tt, r)
  <2>1. Settled(u, e, End(e, size, n), g, t, r)
    BY <1>1 DEF Runs
  <2>2. e \in 0 .. n
    BY <1>1 DEF Runs
  <2>3. PICK f : f = End(e, size, n)
    OBVIOUS
  <2>4. f \in 0 .. n
    BY <2>2, <2>3, Ends
  <2>5. CASE f - e > 1
    BY <2>1, <2>3, <2>5 DEF Settled, Sorted, Less
  <2>6. CASE ~(f - e > 1)
    <3>1. \A j, k \in e + 1 .. f : ~(j < k)
      BY <2>2, <2>4, <2>6
    <3> QED BY <2>3, <2>6, <3>1 DEF Settled, Sorted
  <2> QED BY <2>5, <2>6
<1> QED BY <1>1 DEF Runs

LEMMA OrderCompared ==
    ASSUME NEW u, NEW n \in Nat, NEW a \in 0 .. n, NEW b \in a .. n, NEW z \in b .. n,
           NEW size \in Nat \ {0}, NEW nmerges,
           NEW g, NEW t, NEW r, InMerge(u, n, a, b, z, size, nmerges, g, t, r),
           NEW gg, NEW tt, t \subseteq tt, \A c \in t : gg[c] = g[c],
           a < b, b < z
    PROVE  InMerge(u, n, a, b, z, size, nmerges, gg, tt, r)
<1>1. PICK o \in 0 .. n - 1 :
         /\ z = End(o, 2 * size, n)
         /\ MergeOrder(u, a, b, z, o, g, t, r)
         /\ \E L : Runs(L, u, n, 0, o, 2 * size, g, t, r)
         /\ \E R : Runs(R, u, n, z, n, size, g, t, r)
         /\ nmerges = 1 => o = 0
  BY DEF InMerge
<1>2. \E L : Runs(L, u, n, 0, o, 2 * size, gg, tt, r)
  <2>1. 0 \in 0 .. n /\ o \in 0 .. n /\ 2 * size \in Nat \ {0}
    OBVIOUS
  <2> QED BY <1>1, <2>1, OrderKeys
<1>3. \E R : Runs(R, u, n, z, n, size, gg, tt, r)
  <2>1. z \in 0 .. n /\ n \in z .. n
    OBVIOUS
  <2> QED BY <1>1, <2>1, OrderKeys
<1>4. MergeOrder(u, a, b, z, o, gg, tt, r)
  <2>0. o <= a /\ z - o > 1
    BY <1>1 DEF MergeOrder
  <2>1. CASE o < a
    <3>1. \A k \in o + 1 .. z : u[k] \in t
      BY <1>1, <2>0, <2>1 DEF MergeOrder
    <3>2. \A j, k \in o + 1 .. z : Less(g, r, u[j], u[k]) => Less(gg, r, u[j], u[k])
      BY <3>1 DEF Less
    <3>3. \A j \in o + 1 .. a, k \in o + 1 .. z : j < k => Less(gg, r, u[j], u[k])
      BY <1>1, <3>2 DEF MergeOrder
    <3>4. Sorted(u, a, b, gg, r) /\ Sorted(u, b, z, gg, r)
      BY <1>1, <2>1, <3>2 DEF MergeOrder, Sorted
    <3>5. \A k \in o + 1 .. z : u[k] \in tt
      BY <3>1
    <3> QED BY <1>1, <2>1, <3>3, <3>4, <3>5 DEF MergeOrder
  <2>2. CASE o = a
    <3>1. Sorted(u, a, b, gg, r)
      <4>1. CASE b - a > 1
        BY <1>1, <2>2, <4>1 DEF MergeOrder, Sorted, Less
      <4>2. CASE ~(b - a > 1)
        <5>1. \A j, k \in a + 1 .. b : ~(j < k)
          BY <4>2
        <5> QED BY <5>1 DEF Sorted
      <4> QED BY <4>1, <4>2
    <3>2. Sorted(u, b, z, gg, r)
      <4>1. CASE z - b > 1
        BY <1>1, <2>2, <4>1 DEF MergeOrder, Sorted, Less
      <4>2. CASE ~(z - b > 1)
        <5>1. \A j, k \in b + 1 .. z : ~(j < k)
          BY <4>2
        <5> QED BY <5>1 DEF Sorted
      <4> QED BY <4>1, <4>2
    <3>3. \A j \in o + 1 .. a : FALSE
      BY <2>2
    <3> QED BY <1>1, <2>2, <3>1, <3>2, <3>3 DEF MergeOrder
  <2> QED BY <2>0, <2>1, <2>2
<1> QED BY <1>1, <1>2, <1>3, <1>4 DEF InMerge

\* The first cell of p's run comes behind the merged ones.
LEMMA OrderTakeP ==
    ASSUME NEW u, NEW n \in Nat, Lists(u, n, Cells),
           NEW a \in Nat, NEW b \in Nat, NEW z \in 0 .. n, NEW o \in Nat,
           NEW g, NEW t, NEW r, Keys(g, t, r), MergeOrder(u, a, b, z, o, g, t, r), a < b,
           b < z => u[a + 1] \in t /\ u[b + 1] \in t /\ g[u[a + 1]] <= g[u[b + 1]]
    PROVE  MergeOrder(u, a + 1, b, z, o, g, t, r)
<1>1. /\ o <= a /\ a <= b /\ b <= z
      /\ \A j \in o + 1 .. a, k \in o + 1 .. z : j < k => Less(g, r, u[j], u[k])
      /\ \A j, k \in a + 1 .. b : j < k => Less(g, r, u[j], u[k])
      /\ \A j, k \in b + 1 .. z : j < k => Less(g, r, u[j], u[k])
      /\ \A j \in a + 1 .. b, k \in b + 1 .. z : r[u[j]] < r[u[k]]
  BY DEF MergeOrder, Sorted
<1>2. \A k \in 1 .. n : u[k] \in Cells
  BY DEF Lists
<1>3. PICK y : y = u[a + 1]
  OBVIOUS
<1>4. a + 1 \in 1 .. n /\ a + 1 \in a + 1 .. b /\ y \in Cells
  BY <1>1, <1>2, <1>3
<1>5. ASSUME NEW k \in a + 2 .. z PROVE Less(g, r, y, u[k])
  <2>1. CASE k <= b
    <3>1. k \in a + 1 .. b /\ a + 1 < k
      BY <1>1, <2>1
    <3> QED BY <1>1, <1>3, <1>4, <3>1
  <2>2. CASE k > b
    <3>1. b < z /\ k \in b + 1 .. z /\ b + 1 \in b + 1 .. z /\ b + 1 \in 1 .. n /\ k \in 1 .. n
      BY <1>1, <2>2
    <3>2. Less(g, r, y, u[b + 1])
      <4>1. g[y] <= g[u[b + 1]] /\ r[y] < r[u[b + 1]]
        BY <1>1, <1>3, <1>4, <3>1
      <4>2. g[y] \in Int /\ g[u[b + 1]] \in Int
        BY <1>2, <1>4, <3>1 DEF Keys
      <4> QED BY <4>1, <4>2 DEF Less
    <3>3. CASE k = b + 1
      BY <3>2, <3>3
    <3>4. CASE k # b + 1
      <4>1. b + 1 < k
        BY <3>1, <3>4
      <4>2. Less(g, r, u[b + 1], u[k])
        BY <1>1, <3>1, <4>1
      <4>3. u[b + 1] \in Cells /\ u[k] \in Cells
        BY <1>2, <3>1
      <4> QED BY <1>4, <3>2, <4>2, <4>3, LessTrans
    <3> QED BY <3>3, <3>4
  <2> QED BY <1>5, <2>1, <2>2
<1>6. \A j \in o + 1 .. a + 1, k \in o + 1 .. z : j < k => Less(g, r, u[j], u[k])
  <2> SUFFICES ASSUME NEW j \in o + 1 .. a + 1, NEW k \in o + 1 .. z, j < k
               PROVE  Less(g, r, u[j], u[k])
    OBVIOUS
  <2>1. CASE j = a + 1
    <3>1. k \in a + 2 .. z
      BY <2>1
    <3> QED BY <1>3, <1>5, <2>1, <3>1
  <2>2. CASE j # a + 1
    <3>1. j \in o + 1 .. a
      BY <2>2
    <3> QED BY <1>1, <3>1
  <2> QED BY <2>1, <2>2
<1>7. Sorted(u, a + 1, b, g, r) /\ Sorted(u, b, z, g, r)
      /\ \A j \in (a + 1) + 1 .. b, k \in b + 1 .. z : r[u[j]] < r[u[k]]
  <2>1. \A j \in (a + 1) + 1 .. b : j \in a + 1 .. b
    OBVIOUS
  <2> QED BY <1>1, <2>1 DEF Sorted
<1>8. z - o > 1 => \A k \in o + 1 .. z : u[k] \in t
  <2> SUFFICES ASSUME z - o > 1, NEW k \in o + 1 .. z PROVE u[k] \in t
    OBVIOUS
  <2>1. CASE o < a
    BY <2>1 DEF MergeOrder
  <2>2. CASE o = a /\ k <= b
    <3>1. k \in a + 1 .. b
      BY <2>2
    <3>2. CASE b - a > 1
      BY <2>2, <3>1, <3>2 DEF MergeOrder
    <3>3. CASE ~(b - a > 1)
      <4>1. k = a + 1 /\ b < z
        BY <1>1, <2>2, <3>1, <3>3
      <4> QED BY <4>1
    <3> QED BY <3>2, <3>3
  <2>3. CASE o = a /\ k > b
    <3>1. k \in b + 1 .. z
      BY <2>3
    <3>2. CASE z - b > 1
      BY <2>3, <3>1, <3>2 DEF MergeOrder
    <3>3. CASE ~(z - b > 1)
      <4>1. k = b + 1 /\ b < z
        BY <3>1, <3>3
      <4> QED BY <4>1
    <3> QED BY <3>2, <3>3
  <2> QED BY <1>1, <2>1, <2>2, <2>3
<1>9. o <= a + 1 /\ a + 1 <= b /\ b <= z /\ a + 1 # o
  BY <1>1
<1> QED BY <1>6, <1>7, <1>8, <1>9 DEF MergeOrder

\* The first cell of q's run does.
LEMMA OrderTakeQ ==
    ASSUME NEW u, NEW n \in Nat, Lists(u, n, Cells),
           NEW a \in Nat, NEW b \in Nat, NEW z \in 0 .. n, NEW o \in Nat,
           NEW g, NEW t, NEW r, Keys(g, t, r), MergeOrder(u, a, b, z, o, g, t, r), b < z,
           a < b => u[a + 1] \in t /\ u[b + 1] \in t /\ g[u[b + 1]] < g[u[a + 1]],
           NEW v, v = Rotated(u, n, a, b)
    PROVE  MergeOrder(v, a + 1, b + 1, z, o, g, t, r)
<1>1. /\ o <= a /\ a <= b /\ b <= z /\ (o = a => a < b)
      /\ \A j \in o + 1 .. a, k \in o + 1 .. z : j < k => Less(g, r, u[j], u[k])
      /\ \A j, k \in a + 1 .. b : j < k => Less(g, r, u[j], u[k])
      /\ \A j, k \in b + 1 .. z : j < k => Less(g, r, u[j], u[k])
      /\ \A j \in a + 1 .. b, k \in b + 1 .. z : r[u[j]] < r[u[k]]
  BY DEF MergeOrder, Sorted
<1>2. \A k \in 1 .. n : u[k] \in Cells
  BY DEF Lists
<1>3. PICK y : y = u[b + 1]
  OBVIOUS
<1>4. b + 1 \in 1 .. n /\ b + 1 \in b + 1 .. z /\ y \in Cells
  BY <1>1, <1>2, <1>3
<1>5. /\ v[a + 1] = y
      /\ \A k \in 1 .. n : k <= a \/ k > b + 1 => v[k] = u[k]
      /\ \A k \in 1 .. n : k > a + 1 /\ k <= b + 1 => v[k] = u[k - 1]
  BY <1>1, <1>3, <1>4 DEF Rotated
<1>6. ASSUME NEW k \in a + 1 .. z, k # b + 1 PROVE Less(g, r, y, u[k])
  <2>1. CASE k > b
    <3>1. k \in b + 1 .. z /\ b + 1 < k
      BY <1>6, <2>1
    <3> QED BY <1>1, <1>3, <1>4, <3>1
  <2>2. CASE k <= b
    <3>1. a < b /\ k \in a + 1 .. b /\ a + 1 \in a + 1 .. b /\ a + 1 \in 1 .. n /\ k \in 1 .. n
      BY <1>1, <1>6, <2>2
    <3>2. Less(g, r, y, u[a + 1])
      BY <1>3, <3>1 DEF Less
    <3>3. CASE k = a + 1
      BY <3>2, <3>3
    <3>4. CASE k # a + 1
      <4>1. a + 1 < k
        BY <3>1, <3>4
      <4>2. Less(g, r, u[a + 1], u[k])
        BY <1>1, <3>1, <4>1
      <4>3. u[a + 1] \in Cells /\ u[k] \in Cells
        BY <1>2, <3>1
      <4> QED BY <1>4, <3>2, <4>2, <4>3, LessTrans
    <3> QED BY <3>3, <3>4
  <2> QED BY <1>6, <2>1, <2>2
\* Where the cells of v are in u.
<1> DEFINE from(k) == IF k = a + 1 THEN b + 1 ELSE IF k > a + 1 /\ k <= b + 1 THEN k - 1 ELSE k
<1>7. ASSUME NEW k \in o + 1 .. z PROVE from(k) \in o + 1 .. z /\ v[k] = u[from(k)]
  <2>1. k \in 1 .. n
    BY <1>1
  <2>2. CASE k = a + 1
    BY <1>1, <1>3, <1>4, <1>5, <2>2
  <2>3. CASE k > a + 1 /\ k <= b + 1
    BY <1>1, <1>5, <2>1, <2>3
  <2>4. CASE k <= a \/ k > b + 1
    BY <1>1, <1>5, <2>1, <2>4
  <2> QED BY <1>7, <2>2, <2>3, <2>4
<1>8. \A j \in o + 1 .. a + 1, k \in o + 1 .. z : j < k => Less(g, r, v[j], v[k])
  <2> SUFFICES ASSUME NEW j \in o + 1 .. a + 1, NEW k \in o + 1 .. z, j < k
               PROVE  Less(g, r, v[j], v[k])
    OBVIOUS
  <2>1. j \in o + 1 .. z /\ from(k) \in o + 1 .. z /\ v[k] = u[from(k)]
    BY <1>1, <1>7
  <2>2. CASE j = a + 1
    <3>1. from(k) \in a + 1 .. z /\ from(k) # b + 1
      BY <1>1, <2>1, <2>2
    <3> HIDE DEF from
    <3> QED BY <1>5, <1>6, <2>1, <2>2, <3>1
  <2>3. CASE j # a + 1
    <3>1. j \in o + 1 .. a /\ j \in 1 .. n /\ j < from(k)
      BY <1>1, <2>3
    <3>2. v[j] = u[j]
      BY <1>5, <3>1
    <3> HIDE DEF from
    <3> QED BY <1>1, <2>1, <3>1, <3>2
  <2> QED BY <2>2, <2>3
<1>9. Sorted(v, a + 1, b + 1, g, r)
  <2> SUFFICES ASSUME NEW j \in (a + 1) + 1 .. b + 1, NEW k \in (a + 1) + 1 .. b + 1, j < k
               PROVE  Less(g, r, v[j], v[k])
    BY DEF Sorted
  <2>1. /\ j - 1 \in a + 1 .. b /\ k - 1 \in a + 1 .. b /\ j - 1 < k - 1
        /\ j \in 1 .. n /\ k \in 1 .. n /\ j > a + 1 /\ k > a + 1 /\ j <= b + 1 /\ k <= b + 1
    BY <1>1, <1>4
  <2>2. v[j] = u[j - 1] /\ v[k] = u[k - 1]
    BY <1>5, <2>1
  <2> QED BY <1>1, <2>1, <2>2
<1>10. Sorted(v, b + 1, z, g, r)
  <2> SUFFICES ASSUME NEW j \in (b + 1) + 1 .. z, NEW k \in (b + 1) + 1 .. z, j < k
               PROVE  Less(g, r, v[j], v[k])
    BY DEF Sorted
  <2>1. j \in b + 1 .. z /\ k \in b + 1 .. z /\ j \in 1 .. n /\ k \in 1 .. n /\ j > b + 1 /\ k > b + 1
    BY <1>1
  <2>2. v[j] = u[j] /\ v[k] = u[k]
    BY <1>5, <2>1
  <2> QED BY <1>1, <2>1, <2>2
<1>11. \A j \in (a + 1) + 1 .. b + 1, k \in (b + 1) + 1 .. z : r[v[j]] < r[v[k]]
  <2> SUFFICES ASSUME NEW j \in (a + 1) + 1 .. b + 1, NEW k \in (b + 1) + 1 .. z
               PROVE  r[v[j]] < r[v[k]]
    OBVIOUS
  <2>1. j - 1 \in a + 1 .. b /\ j \in 1 .. n /\ j > a + 1 /\ j <= b + 1
        /\ k \in b + 1 .. z /\ k \in 1 .. n /\ k > b + 1
    BY <1>1, <1>4
  <2>2. v[j] = u[j - 1] /\ v[k] = u[k]
    BY <1>5, <2>1
  <2> QED BY <1>1, <2>1, <2>2
<1>12. z - o > 1 => \A k \in o + 1 .. z : v[k] \in t
  <2> SUFFICES ASSUME z - o > 1, NEW k \in o + 1 .. z PROVE v[k] \in t
    OBVIOUS
  <2>1. PICK j \in o + 1 .. z : v[k] = u[j]
    BY <1>7
  <2>2. CASE o < a
    BY <2>1, <2>2 DEF MergeOrder
  <2>3. CASE o = a /\ j <= b
    <3>1. j \in a + 1 .. b
      BY <2>3
    <3>2. CASE b - a > 1
      BY <2>1, <2>3, <3>1, <3>2 DEF MergeOrder
    <3>3. CASE ~(b - a > 1)
      <4>1. j = a + 1 /\ a < b
        BY <3>1, <3>3
      <4> QED BY <2>1, <4>1
    <3> QED BY <3>2, <3>3
  <2>4. CASE o = a /\ j > b
    <3>1. j \in b + 1 .. z
      BY <2>4
    <3>2. CASE z - b > 1
      BY <2>1, <2>4, <3>1, <3>2 DEF MergeOrder
    <3>3. CASE ~(z - b > 1)
      <4>1. j = b + 1 /\ a < b
        BY <1>1, <2>4, <3>1, <3>3
      <4> QED BY <2>1, <4>1
    <3> QED BY <3>2, <3>3
  <2> QED BY <1>1, <2>2, <2>3, <2>4
<1>13. o <= a + 1 /\ a + 1 <= b + 1 /\ b + 1 <= z /\ a + 1 # o
  BY <1>1
<1> QED BY <1>8, <1>9, <1>10, <1>11, <1>12, <1>13 DEF MergeOrder

\* Taking the first cell of q's run moves none to the other side of a place
\* outside of what is left of p's run.
SameSides(j, k, n, a, b) ==
    \A e \in 0 .. n : e <= a \/ e >= b + 1 => (j <= e <=> k <= e)

LEMMA RotatedPlaces ==
    ASSUME NEW u, NEW n \in Nat, NEW a \in 0 .. n - 1, NEW b \in a .. n - 1,
           NEW v, v = Rotated(u, n, a, b)
    PROVE  \A k \in 1 .. n : \E j \in 1 .. n : v[k] = u[j] /\ SameSides(j, k, n, a, b)
<1> SUFFICES ASSUME NEW k \in 1 .. n
             PROVE  \E j \in 1 .. n : v[k] = u[j] /\ SameSides(j, k, n, a, b)
  OBVIOUS
<1>1. PICK j : j = IF k = a + 1 THEN b + 1 ELSE IF k > a + 1 /\ k <= b + 1 THEN k - 1 ELSE k
  OBVIOUS
<1>2. j \in 1 .. n /\ v[k] = u[j]
  BY <1>1 DEF Rotated
<1>3. SameSides(j, k, n, a, b)
  BY <1>1 DEF SameSides
<1> QED BY <1>2, <1>3

LEMMA RunsRotate ==
    ASSUME NEW u, NEW n \in Nat, NEW a \in 0 .. n - 1, NEW b \in a .. n - 1,
           NEW v, v = Rotated(u, n, a, b), NEW lo \in 0 .. n, NEW hi \in lo .. n,
           hi <= a \/ lo >= b + 1, NEW size \in Nat \ {0}, NEW g, NEW t, NEW r,
           NEW E, Runs(E, u, n, lo, hi, size, g, t, r)
    PROVE  Runs(E, v, n, lo, hi, size, g, t, r)
<1>0. \A k \in 1 .. n : \E j \in 1 .. n : v[k] = u[j] /\ SameSides(j, k, n, a, b)
  BY RotatedPlaces
<1>1. E \subseteq lo .. hi /\ lo \in E /\ hi \in E
  BY DEF Runs
<1>2. ASSUME NEW e \in E PROVE Apart(v, n, e, r)
  <2>1. e \in 0 .. n /\ (e <= a \/ e >= b + 1) /\ Apart(u, n, e, r)
    BY <1>1 DEF Runs
  <2> SUFFICES ASSUME NEW j \in 1 .. e, NEW k \in e + 1 .. n PROVE r[v[j]] < r[v[k]]
    BY DEF Apart
  <2>2. j \in 1 .. n /\ k \in 1 .. n /\ j <= e /\ ~(k <= e)
    BY <2>1
  <2>3. PICK jj \in 1 .. n : v[j] = u[jj] /\ SameSides(jj, j, n, a, b)
    BY <1>0, <2>2
  <2>4. PICK kk \in 1 .. n : v[k] = u[kk] /\ SameSides(kk, k, n, a, b)
    BY <1>0, <2>2
  <2>5. jj \in 1 .. e /\ kk \in e + 1 .. n
    BY <2>1, <2>2, <2>3, <2>4 DEF SameSides
  <2> QED BY <2>1, <2>3, <2>4, <2>5 DEF Apart
<1>3. ASSUME NEW e \in E, e < hi
      PROVE  End(e, size, n) \in E /\ Settled(v, e, End(e, size, n), g, t, r)
  <2>1. PICK f : f = End(e, size, n)
    OBVIOUS
  <2>2. f \in E /\ Settled(u, e, f, g, t, r)
    BY <1>3, <2>1 DEF Runs
  <2>3. ASSUME NEW k \in e + 1 .. f PROVE v[k] = u[k]
    <3>1. k \in 1 .. n /\ (k <= a \/ k > b + 1)
      BY <1>1, <2>2
    <3> QED BY <3>1 DEF Rotated
  <2> QED BY <2>1, <2>2, <2>3 DEF Settled, Sorted
<1> QED BY <1>1, <1>2, <1>3 DEF Runs

LEMMA InMergeTakeP ==
    ASSUME NEW u, NEW n \in Nat, Lists(u, n, Cells),
           NEW a \in Nat, NEW b \in Nat, NEW z \in 0 .. n, NEW size, NEW nmerges,
           NEW g, NEW t, NEW r, Keys(g, t, r), InMerge(u, n, a, b, z, size, nmerges, g, t, r), a < b,
           b < z => u[a + 1] \in t /\ u[b + 1] \in t /\ g[u[a + 1]] <= g[u[b + 1]]
    PROVE  InMerge(u, n, a + 1, b, z, size, nmerges, g, t, r)
<1>1. PICK o \in 0 .. n - 1 :
         /\ z = End(o, 2 * size, n)
         /\ MergeOrder(u, a, b, z, o, g, t, r)
         /\ \E L : Runs(L, u, n, 0, o, 2 * size, g, t, r)
         /\ \E R : Runs(R, u, n, z, n, size, g, t, r)
         /\ nmerges = 1 => o = 0
  BY DEF InMerge
<1>2. o \in Nat
  OBVIOUS
<1>3. MergeOrder(u, a + 1, b, z, o, g, t, r)
  BY <1>1, <1>2, OrderTakeP
<1> QED BY <1>1, <1>3 DEF InMerge

LEMMA InMergeTakeQ ==
    ASSUME NEW u, NEW n \in Nat, Lists(u, n, Cells),
           NEW a \in Nat, NEW b \in Nat, NEW z \in 0 .. n, NEW size \in Nat \ {0}, NEW nmerges,
           NEW g, NEW t, NEW r, Keys(g, t, r), InMerge(u, n, a, b, z, size, nmerges, g, t, r), b < z,
           a < b => u[a + 1] \in t /\ u[b + 1] \in t /\ g[u[b + 1]] < g[u[a + 1]],
           NEW v, v = Rotated(u, n, a, b)
    PROVE  InMerge(v, n, a + 1, b + 1, z, size, nmerges, g, t, r)
<1>1. PICK o \in 0 .. n - 1 :
         /\ z = End(o, 2 * size, n)
         /\ MergeOrder(u, a, b, z, o, g, t, r)
         /\ \E L : Runs(L, u, n, 0, o, 2 * size, g, t, r)
         /\ \E R : Runs(R, u, n, z, n, size, g, t, r)
         /\ nmerges = 1 => o = 0
  BY DEF InMerge
<1>2. o \in Nat
  OBVIOUS
<1>3. MergeOrder(v, a + 1, b + 1, z, o, g, t, r)
  BY <1>1, <1>2, OrderTakeQ
<1>4. o <= a /\ a <= b
  BY <1>1 DEF MergeOrder
<1>5. a \in 0 .. n - 1 /\ b \in a .. n - 1
  BY <1>4
<1>6. \E L : Runs(L, v, n, 0, o, 2 * size, g, t, r)
  <2>1. 0 \in 0 .. n /\ o \in 0 .. n /\ o <= a /\ 2 * size \in Nat \ {0}
    BY <1>4
  <2> QED BY <1>1, <1>5, <2>1, RunsRotate
<1>7. \E R : Runs(R, v, n, z, n, size, g, t, r)
  <2>1. n \in z .. n /\ z >= b + 1
    OBVIOUS
  <2> QED BY <1>1, <1>5, <2>1, RunsRotate
<1> QED BY <1>1, <1>3, <1>6, <1>7 DEF InMerge

----------------------------------------------------------------------------
\* The state.  Up to the removal the list is ordered by value, else by index.

ByValue == at \in {"sort", "remove"}

Key == [c \in Cells |-> IF ByValue THEN data16[h.info[c]] % 128 ELSE idx[h.info[c]]]

\* The cells whose items have their value cached, or their data regained.
Touched ==
    {c \in Cells : IF ByValue THEN Cached(h.info[c])
                   ELSE Low(data16[h.info[c]]) = High(data16[h.info[c]])}

\* r is where the cells' items were before the sort.
Ranked(r) ==
    /\ r \in [Cells -> Int]
    /\ \A c \in Cells : r[c] \in DOMAIN before /\ before[r[c]] = h.info[c]

\* How far the sort has come.
InSort(u, n, a, r) ==
    LET b == a + srt.psize IN
    /\ srt.at = "pass" => PassOrder(u, n, a, srt.insize, srt.nmerges, Key, Touched, r)
    /\ srt.at = "merge" =>
         /\ srt.nmerges # 0
         /\ InMerge(u, n, a, b, End(b, srt.qsize, n), srt.insize, srt.nmerges, Key, Touched, r)

IsSorted(u, n, r) ==
    /\ Lists(u, n, Cells) /\ Linear(h, u, n) /\ list = u[1]
    /\ Ranked(r) /\ Sorted(u, 0, n, Key, r)

Words(d) == d \in [Items -> Nat] /\ \A x \in Items : d[x] < 65536
Fresh(d) == \A x \in Items : Low(d[x]) = High(d[x])
SameUpper(d, e) == \A x \in Items : High(d[x]) = High(e[x])

\* The items, each once, by index.
Listing(s) ==
    /\ s \in [1 .. N -> Items]
    /\ \A x \in Items : \E k \in 1 .. N : s[k] = x
    /\ \A j, k \in 1 .. N : j < k => s[j] # s[k] /\ idx[s[j]] <= idx[s[k]]

DataType == Words(data16) /\ idx \in [Items -> Int] /\ finder_idx \in {1, -1}

\* Sorting by value leaves the upper half of the data alone, from which the
\* sort by index regains the lower half.
DataInv ==
    /\ DataType
    /\ at = "init" => Fresh(data16)
    /\ at # "init" =>
         /\ Listing(original[1])
         /\ Words(original[2]) /\ Fresh(original[2]) /\ SameUpper(data16, original[2])
         /\ at \in {"ready", "return"} => data16 = original[2]

\* The inductive invariant, beside ListInv.
OrderInv ==
    /\ srt.at # "off" => \E u, n, a, r :
                            Lists(u, n, Cells) /\ Split(u, n, a) /\ Ranked(r) /\ InSort(u, n, a, r)
    /\ at \in {"ready", "return"} \/ (at = "remove" /\ finder_idx > 0) =>
          \E u, n, r : IsSorted(u, n, r)

SortInv == ListInv /\ DataInv /\ OrderInv

\* calc_func caches a value in the lower half.
CachedWord(x, v, y) ==
    /\ y \in Nat /\ y < 65536 /\ High(y) = High(x)
    /\ y % 128 = v /\ (y \div 128) % 2 = 1
    /\ (x \div 128) % 2 = 1 /\ v = x % 128 => y = x

LEMMA CacheWord ==
    ASSUME NEW x \in Nat, x < 65536, NEW v \in Nat, v < 128, NEW y, y = (x - (x % 256)) + 128 + v
    PROVE  CachedWord(x, v, y)
<1>1. PICK q \in Nat : q = x \div 256
  OBVIOUS
<1>2. PICK m \in Nat : m = x % 256 /\ m < 256
  OBVIOUS
<1>3. x = 256 * q + m /\ q < 256
  BY <1>1, <1>2
<1>4. y = 256 * q + 128 + v
  BY <1>2, <1>3
<1>5. y \in Nat /\ y < 65536 /\ y \div 256 = q
  BY <1>3, <1>4
<1>6. y % 128 = v
  BY <1>4
<1>7. y \div 128 = 2 * q + 1
  BY <1>4
<1>8. (y \div 128) % 2 = 1
  BY <1>7
<1>9. ASSUME (x \div 128) % 2 = 1, v = x % 128 PROVE y = x
  <2>1. CASE m < 128
    <3>1. x \div 128 = 2 * q
      BY <1>2, <1>3, <2>1
    <3> QED BY <1>9, <3>1
  <2>2. CASE m >= 128
    <3>1. x % 128 = m - 128
      BY <1>2, <1>3, <2>2
    <3> QED BY <1>3, <1>4, <1>9, <3>1
  <2> QED BY <1>2, <2>1, <2>2
<1>10. High(y) = High(x)
  BY <1>1, <1>5 DEF High
<1> QED BY <1>5, <1>6, <1>8, <1>9, <1>10 DEF CachedWord

\* The lower half is regained from the upper one.
RegainedWord(x, y) == Low(y) = High(y) /\ (Low(x) = High(x) => y = x)

LEMMA RegainWord ==
    ASSUME NEW x \in Nat, x < 65536, NEW y, y = (x - (x % 256)) + High(x)
    PROVE  y \in Nat /\ y < 65536 /\ High(y) = High(x) /\ RegainedWord(x, y)
<1>1. PICK q \in Nat : q = x \div 256
  OBVIOUS
<1>2. PICK m \in Nat : m = x % 256 /\ m < 256
  OBVIOUS
<1>3. x = 256 * q + m /\ q < 256
  BY <1>1, <1>2
<1>4. y = 256 * q + q
  BY <1>1, <1>2, <1>3 DEF High
<1>5. y \in Nat /\ y < 65536 /\ y \div 256 = q
  BY <1>3, <1>4
<1>6. y % 256 = q
  BY <1>3, <1>4
<1> QED BY <1>1, <1>2, <1>3, <1>4, <1>5, <1>6 DEF High, Low, RegainedWord

OneItem(d, x, e) == Words(e) /\ SameUpper(e, d) /\ \A y \in Items \ {x} : e[y] = d[y]

LEMMA CacheData ==
    ASSUME NEW d, Words(d), NEW x \in Items, NEW v \in Nat, v < 128, NEW e, e = Cache(d, x, v)
    PROVE  OneItem(d, x, e) /\ CachedWord(d[x], v, e[x])
<1>1. d \in [Items -> Nat] /\ d[x] \in Nat /\ d[x] < 65536
  BY DEF Words
<1>2. PICK y : y = (d[x] - (d[x] % 256)) + 128 + v
  OBVIOUS
<1>3. e = [d EXCEPT ![x] = y]
  BY <1>2 DEF Cache
<1>4. CachedWord(d[x], v, y)
  BY <1>1, <1>2, CacheWord
<1>5. e \in [Items -> Nat] /\ e[x] = y /\ \A k \in Items \ {x} : e[k] = d[k]
  <2>1. y \in Nat
    BY <1>4 DEF CachedWord
  <2> QED BY <1>1, <1>3, <2>1
<1>6. Words(e) /\ SameUpper(e, d)
  <2>1. y < 65536 /\ High(y) = High(d[x])
    BY <1>4 DEF CachedWord
  <2> QED BY <1>1, <1>5, <2>1 DEF Words, SameUpper
<1> QED BY <1>4, <1>5, <1>6 DEF OneItem

LEMMA RegainData ==
    ASSUME NEW d, Words(d), NEW x \in Items, NEW e, e = Regained(d, x)
    PROVE  OneItem(d, x, e) /\ RegainedWord(d[x], e[x])
<1>1. d \in [Items -> Nat] /\ d[x] \in Nat /\ d[x] < 65536
  BY DEF Words
<1>2. PICK y : y = (d[x] - (d[x] % 256)) + High(d[x])
  OBVIOUS
<1>3. e = [d EXCEPT ![x] = y]
  BY <1>2 DEF Regained
<1>4. y \in Nat /\ y < 65536 /\ High(y) = High(d[x]) /\ RegainedWord(d[x], y)
  BY <1>1, <1>2, RegainWord
<1>5. e \in [Items -> Nat] /\ e[x] = y /\ \A k \in Items \ {x} : e[k] = d[k]
  BY <1>1, <1>3, <1>4
<1>6. Words(e) /\ SameUpper(e, d)
  BY <1>1, <1>4, <1>5 DEF Words, SameUpper
<1> QED BY <1>4, <1>5, <1>6 DEF OneItem

\* Words with the same halves are the same.
LEMMA FreshData ==
    ASSUME NEW d, Words(d), NEW e, Words(e), Fresh(d), Fresh(e), SameUpper(d, e)
    PROVE  d = e
<1>1. ASSUME NEW x \in Items PROVE d[x] = e[x]
  <2>1. d[x] \in Nat /\ e[x] \in Nat
    BY DEF Words
  <2>2. d[x] % 256 = d[x] \div 256 /\ e[x] % 256 = e[x] \div 256 /\ d[x] \div 256 = e[x] \div 256
    BY DEF Fresh, SameUpper, Low, High
  <2>3. d[x] = 256 * (d[x] \div 256) + (d[x] % 256) /\ e[x] = 256 * (e[x] \div 256) + (e[x] % 256)
    BY <2>1
  <2> QED BY <2>2, <2>3
<1> QED BY <1>1 DEF Words

\* A comparison leaves the keys of the cells that have been compared, has
\* both items' values cached or data regained, and takes the lower key first.
KeysKept(g, t, gg, tt) == t \subseteq tt /\ \A c \in t : gg[c] = g[c]

LEMMA KeyIs ==
    ASSUME h \in Heaps, NEW c \in Cells
    PROVE  /\ h.info[c] \in Items
           /\ Key[c] = IF ByValue THEN data16[h.info[c]] % 128 ELSE idx[h.info[c]]
           /\ c \in Touched <=> IF ByValue THEN (data16[h.info[c]] \div 128) % 2 = 1
                                ELSE Low(data16[h.info[c]]) = High(data16[h.info[c]])
BY DEF Heaps, Key, Touched, Cached

LEMMA ComparedValues ==
    ASSUME h \in Heaps, DataType, ItemsOnce, at = "sort", Sorting(TakeP, TakeQ),
           at' = at, h' \in Heaps, h'.info = h.info,
           NEW p \in Cells, NEW q \in Cells \ {p}, srt.p = p, srt.q = q
    PROVE  /\ Words(data16') /\ SameUpper(data16', data16)
           /\ KeysKept(Key, Touched, Key', Touched') /\ p \in Touched' /\ q \in Touched'
           /\ (TakeP /\ Key'[p] <= Key'[q]) \/ (TakeQ /\ Key'[q] < Key'[p])
<1>1. PICK a, b : a = h.info[p] /\ b = h.info[q]
  OBVIOUS
<1>2. a \in Items /\ b \in Items \ {a}
  BY <1>1 DEF Heaps, ItemsOnce
<1>3. PICK v \in CalcValues(a), w \in CalcValues(b) :
         /\ data16' = Cache(Cache(data16, a, v), b, w)
         /\ IF First(v, w) THEN TakeP ELSE TakeQ
  BY <1>1 DEF Sorting, ByData
<1>4. ASSUME NEW x \in Items, NEW y \in CalcValues(x)
      PROVE  y \in Nat /\ y < 128 /\ ((data16[x] \div 128) % 2 = 1 => y = data16[x] % 128)
  <2>1. data16[x] \in Nat
    BY DEF DataType, Words
  <2>2. data16[x] % 128 \in Nat /\ data16[x] % 128 < 128
    BY <2>1
  <2>3. \A e \in Values : e \in Nat /\ e < 128
    BY ValueAssumption
  <2> QED BY <2>2, <2>3 DEF CalcValues, Cached
<1>5. v \in Nat /\ v < 128 /\ w \in Nat /\ w < 128
      /\ ((data16[a] \div 128) % 2 = 1 => v = data16[a] % 128)
      /\ ((data16[b] \div 128) % 2 = 1 => w = data16[b] % 128)
  BY <1>2, <1>4
<1>6. PICK d : d = Cache(data16, a, v)
  OBVIOUS
<1>7. PICK e : e = Cache(d, b, w) /\ e = data16'
  BY <1>3, <1>6
<1>8. Words(data16)
  BY DEF DataType
<1>9. OneItem(data16, a, d) /\ CachedWord(data16[a], v, d[a])
  BY <1>2, <1>5, <1>6, <1>8, CacheData
<1>10. OneItem(d, b, e) /\ CachedWord(d[b], w, e[b])
  <2>1. b \in Items /\ Words(d)
    BY <1>2, <1>9 DEF OneItem
  <2> QED BY <1>5, <1>7, <2>1, CacheData
<1>11. e[a] = d[a] /\ d[b] = data16[b]
  BY <1>2, <1>9, <1>10 DEF OneItem
<1>12. Words(e) /\ SameUpper(e, data16)
  BY <1>9, <1>10 DEF OneItem, SameUpper
<1>13. ASSUME NEW x \in Items, (data16[x] \div 128) % 2 = 1 PROVE e[x] = data16[x]
  <2>1. CASE x = a
    BY <1>5, <1>9, <1>11, <1>13, <2>1 DEF CachedWord
  <2>2. CASE x = b
    BY <1>5, <1>10, <1>11, <1>13, <2>2 DEF CachedWord
  <2>3. CASE x # a /\ x # b
    BY <1>9, <1>10, <2>3 DEF OneItem
  <2> QED BY <2>1, <2>2, <2>3
<1>14. ByValue /\ ByValue'
  BY DEF ByValue
<1>15. ASSUME NEW c \in Cells
       PROVE  Key'[c] = e[h.info[c]] % 128 /\ (c \in Touched' <=> (e[h.info[c]] \div 128) % 2 = 1)
  <2>1. Key' = [k \in Cells |-> e[h.info[k]] % 128]
    BY <1>7, <1>14 DEF Key
  <2>2. Touched' = {k \in Cells : (e[h.info[k]] \div 128) % 2 = 1}
    BY <1>7, <1>14 DEF Touched, Cached
  <2> QED BY <2>1, <2>2
<1>16. KeysKept(Key, Touched, Key', Touched')
  <2> SUFFICES ASSUME NEW c \in Touched PROVE c \in Touched' /\ Key'[c] = Key[c]
    BY DEF KeysKept
  <2>1. c \in Cells
    BY DEF Touched
  <2>2. h.info[c] \in Items /\ (data16[h.info[c]] \div 128) % 2 = 1 /\ Key[c] = data16[h.info[c]] % 128
    BY <1>14, <2>1, KeyIs
  <2>3. e[h.info[c]] = data16[h.info[c]]
    BY <1>13, <2>2
  <2> QED BY <1>15, <2>1, <2>2, <2>3
<1>17. Key'[p] = v /\ Key'[q] = w /\ p \in Touched' /\ q \in Touched'
  BY <1>1, <1>9, <1>10, <1>11, <1>15 DEF CachedWord
<1>18. (TakeP /\ Key'[p] <= Key'[q]) \/ (TakeQ /\ Key'[q] < Key'[p])
  BY <1>3, <1>5, <1>17 DEF First
<1> QED BY <1>7, <1>12, <1>16, <1>17, <1>18

LEMMA ComparedIndex ==
    ASSUME h \in Heaps, DataType, ItemsOnce, at \in {"init", "index"}, Sorting(TakeP, TakeQ),
           at' = at, idx' = idx, h' \in Heaps, h'.info = h.info,
           NEW p \in Cells, NEW q \in Cells \ {p}, srt.p = p, srt.q = q
    PROVE  /\ Words(data16') /\ SameUpper(data16', data16) /\ (Fresh(data16) => data16' = data16)
           /\ KeysKept(Key, Touched, Key', Touched') /\ p \in Touched' /\ q \in Touched'
           /\ (TakeP /\ Key'[p] <= Key'[q]) \/ (TakeQ /\ Key'[q] < Key'[p])
<1>1. PICK a, b : a = h.info[p] /\ b = h.info[q]
  OBVIOUS
<1>2. a \in Items /\ b \in Items \ {a}
  BY <1>1 DEF Heaps, ItemsOnce
<1>3. /\ data16' = Regained(Regained(data16, a), b)
      /\ IF First(idx[a], idx[b]) THEN TakeP ELSE TakeQ
  BY <1>1 DEF Sorting, ByData
<1>4. PICK d : d = Regained(data16, a)
  OBVIOUS
<1>5. PICK e : e = Regained(d, b) /\ e = data16'
  BY <1>3, <1>4
<1>6. Words(data16)
  BY DEF DataType
<1>7. OneItem(data16, a, d) /\ RegainedWord(data16[a], d[a])
  BY <1>2, <1>4, <1>6, RegainData
<1>8. OneItem(d, b, e) /\ RegainedWord(d[b], e[b])
  <2>1. b \in Items /\ Words(d)
    BY <1>2, <1>7 DEF OneItem
  <2> QED BY <1>5, <2>1, RegainData
<1>9. e[a] = d[a] /\ d[b] = data16[b]
  BY <1>2, <1>7, <1>8 DEF OneItem
<1>10. Words(e) /\ SameUpper(e, data16)
  BY <1>7, <1>8 DEF OneItem, SameUpper
<1>11. ASSUME NEW x \in Items, Low(data16[x]) = High(data16[x]) PROVE e[x] = data16[x]
  <2>1. CASE x = a
    BY <1>7, <1>9, <1>11, <2>1 DEF RegainedWord
  <2>2. CASE x = b
    BY <1>8, <1>9, <1>11, <2>2 DEF RegainedWord
  <2>3. CASE x # a /\ x # b
    BY <1>7, <1>8, <2>3 DEF OneItem
  <2> QED BY <2>1, <2>2, <2>3
<1>12. Fresh(data16) => e = data16
  <2> SUFFICES ASSUME Fresh(data16) PROVE e = data16
    OBVIOUS
  <2>1. \A x \in Items : e[x] = data16[x]
    BY <1>11 DEF Fresh
  <2> QED BY <1>6, <1>10, <2>1 DEF Words
<1>13. ~ByValue /\ ~ByValue'
  BY DEF ByValue
<1>14. ASSUME NEW c \in Cells
       PROVE  Key'[c] = idx[h.info[c]] /\ (c \in Touched' <=> Low(e[h.info[c]]) = High(e[h.info[c]]))
  <2>1. Key' = [k \in Cells |-> idx[h.info[k]]]
    BY <1>13 DEF Key
  <2>2. Touched' = {k \in Cells : Low(e[h.info[k]]) = High(e[h.info[k]])}
    BY <1>5, <1>13 DEF Touched
  <2> QED BY <2>1, <2>2
<1>15. KeysKept(Key, Touched, Key', Touched')
  <2> SUFFICES ASSUME NEW c \in Touched PROVE c \in Touched' /\ Key'[c] = Key[c]
    BY DEF KeysKept
  <2>1. c \in Cells
    BY DEF Touched
  <2>2. h.info[c] \in Items /\ Low(data16[h.info[c]]) = High(data16[h.info[c]])
        /\ Key[c] = idx[h.info[c]]
    BY <1>13, <2>1, KeyIs
  <2>3. e[h.info[c]] = data16[h.info[c]]
    BY <1>11, <2>2
  <2> QED BY <1>14, <2>1, <2>2, <2>3
<1>16. Key'[p] = idx[a] /\ Key'[q] = idx[b] /\ p \in Touched' /\ q \in Touched'
  BY <1>1, <1>7, <1>8, <1>9, <1>14 DEF RegainedWord
<1>17. (TakeP /\ Key'[p] <= Key'[q]) \/ (TakeQ /\ Key'[q] < Key'[p])
  <2>1. idx[a] \in Int /\ idx[b] \in Int
    BY <1>2 DEF DataType
  <2> QED BY <1>3, <1>16, <2>1 DEF First
<1> QED BY <1>5, <1>10, <1>12, <1>15, <1>16, <1>17

\* The data after one comparison.
LEMMA DataKept ==
    ASSUME DataInv, at' = at, at \notin {"ready", "return"},
           UNCHANGED << idx, finder_idx, original >>,
           Words(data16'), SameUpper(data16', data16), at = "init" => data16' = data16
    PROVE  DataInv'
<1>1. DataType'
  BY DEF DataInv, DataType
<1>2. at # "init" => Listing(original[1])' /\ Words(original[2]) /\ Fresh(original[2])
  BY DEF DataInv, Listing
<1>3. at # "init" => SameUpper(data16', original[2])
  BY DEF DataInv, SameUpper
<1> QED BY <1>1, <1>2, <1>3 DEF DataInv

LEMMA DataSame ==
    ASSUME DataInv, UNCHANGED << at, data16, idx, finder_idx, original >>
    PROVE  DataInv'
BY DEF DataInv, DataType, Listing

LEMMA InitIdxType ==
    ASSUME NEW k \in Cells, NEW s \in Nat
    PROVE  InitIdx(k, s) \in Int
<1>1. Size \in Nat /\ Cells = 1 .. Size - 1
  BY SizeFacts
<1>2. PICK n \in Nat : n = Size - k
  BY <1>1
<1>3. xor(n, s) \in Nat
  BY XorType
<1>4. ((n + 1) % 8) * 256 \in Nat
  BY Z3
<1>5. PICK m \in Nat : m = ((n + 1) % 8) * 256
  BY <1>4
<1>6. or(m, xor(n, s)) \in Nat
  <2>1. or(m, xor(n, s)) \in 0 .. m + xor(n, s)
    BY <1>3, OrType
  <2> QED BY <1>3, <2>1
<1>7. or(m, xor(n, s)) % 16384 \in Nat
  BY <1>6
<1>8. InitIdx(k, s) \in {0, 32767, n, or(m, xor(n, s)) % 16384}
  BY <1>1, <1>2, <1>5 DEF InitIdx
<1> QED BY <1>7, <1>8

FreshWord(x) == x \in Nat /\ x < 65536 /\ Low(x) = High(x)

LEMMA InitDataType ==
    ASSUME NEW k \in Cells, NEW s \in Nat
    PROVE  FreshWord(InitData(k, s))
<1>1. Size \in Nat /\ Cells = 1 .. Size - 1
  BY SizeFacts
<1>2. CASE k = 1
  <2>1. InitData(k, s) = 32896
    BY <1>2 DEF InitData
  <2>2. 32896 % 256 = 128 /\ 32896 \div 256 = 128
    OBVIOUS
  <2> QED BY <2>1, <2>2 DEF FreshWord, Low, High
<1>3. CASE k = 2
  <2>1. InitData(k, s) = 65535
    BY <1>3 DEF InitData
  <2>2. 65535 % 256 = 255 /\ 65535 \div 256 = 255
    OBVIOUS
  <2> QED BY <2>1, <2>2 DEF FreshWord, Low, High
<1>4. CASE k # 1 /\ k # 2
  <2>1. PICK n \in Nat : n = k - 3
    BY <1>1, <1>4
  <2>2. xor(s, n) \in Nat
    BY XorType
  <2>3. PICK x \in Nat : x = (xor(s, n) % 16) * 8 /\ x <= 120
    <3>1. xor(s, n) % 16 \in Nat /\ xor(s, n) % 16 <= 15
      BY <2>2
    <3> QED BY <3>1
  <2>4. PICK y \in Nat : y = n % 8 /\ y <= 7
    BY <2>1
  <2>5. PICK d : d = or(x, y)
    OBVIOUS
  <2>6. d \in Nat /\ d <= 127
    <3>1. d \in 0 .. x + y
      BY <2>5, OrType
    <3> QED BY <2>3, <2>4, <3>1
  <2>7. InitData(k, s) = d * 256 + d
    BY <1>4, <2>1, <2>3, <2>4, <2>5 DEF InitData
  <2>8. (d * 256 + d) % 256 = d /\ (d * 256 + d) \div 256 = d /\ d * 256 + d < 65536 /\ d * 256 + d \in Nat
    BY <2>6
  <2> QED BY <2>7, <2>8 DEF FreshWord, Low, High
<1> QED BY <1>2, <1>3, <1>4

LEMMA InitOrder == Init => SortInv
<1> SUFFICES ASSUME Init PROVE DataInv /\ OrderInv
  BY InitList DEF SortInv
<1>1. seed \in Nat /\ Items = Cells
  BY ValueAssumption, SizeFacts DEF Init
<1>2. \A k \in Items : FreshWord(data16[k]) /\ idx[k] \in Int
  <2> SUFFICES ASSUME NEW k \in Items PROVE FreshWord(data16[k]) /\ idx[k] \in Int
    OBVIOUS
  <2>1. data16[k] = InitData(k, seed) /\ idx[k] = InitIdx(k, seed)
    BY DEF Init
  <2> QED BY <1>1, <2>1, InitDataType, InitIdxType
<1>3. Words(data16) /\ Fresh(data16)
  <2>1. data16 = [k \in Items |-> InitData(k, seed)]
    BY DEF Init
  <2>2. \A k \in Items : data16[k] \in Nat /\ data16[k] < 65536 /\ Low(data16[k]) = High(data16[k])
    BY <1>2 DEF FreshWord
  <2>3. data16 \in [Items -> Nat]
    BY <2>1, <2>2
  <2> QED BY <2>2, <2>3 DEF Words, Fresh
<1>4. idx \in [Items -> Int]
  <2>1. idx = [k \in Items |-> InitIdx(k, seed)]
    BY DEF Init
  <2> QED BY <1>2, <2>1
<1>5. DataInv
  BY <1>3, <1>4 DEF Init, DataInv, DataType
<1>6. srt.at = "off" /\ at = "init"
  BY DEF Init, Off
<1>7. OrderInv
  BY <1>6 DEF OrderInv
<1> QED BY <1>5, <1>7

----------------------------------------------------------------------------
\* The steps of a sort.

LEMMA LinkInfo ==
    ASSUME h \in Heaps, NEW e, Link(e)
    PROVE  h'.info = h.info
BY DEF Link, Heaps

\* Where p and q are.
MergeAt(u, n, a, b, z) ==
    /\ n \in Nat /\ a \in Nat /\ b \in a .. n /\ z \in b .. n
    /\ (PEmpty <=> a = b) /\ (QEmpty <=> b = z)
    /\ a < b => srt.p = u[a + 1]
    /\ b < z => srt.q = u[b + 1]

LEMMA SplitAt ==
    ASSUME ListInv, NEW u, NEW n, NEW a, Lists(u, n, Cells), Split(u, n, a), srt.at = "merge",
           NEW b, b = a + srt.psize, NEW z, z = End(b, srt.qsize, n)
    PROVE  MergeAt(u, n, a, b, z)
<1>1. srt \in Sorts /\ Nil \notin Cells
  BY SizeFacts DEF ListInv, ListType
<1>2. srt.psize \in Nat /\ srt.qsize \in Nat
  BY <1>1 DEF Sorts
<1>3. n \in Nat /\ a \in Nat /\ b <= n /\ (srt.psize > 0 => srt.p = u[a + 1])
      /\ srt.q = IF b < n THEN u[b + 1] ELSE Nil
  BY DEF Split, Lists
<1>4. b \in a .. n /\ (PEmpty <=> a = b) /\ (a < b => srt.p = u[a + 1])
  BY <1>2, <1>3 DEF PEmpty
<1>5. b < n => u[b + 1] # Nil
  <2> SUFFICES ASSUME b < n PROVE u[b + 1] # Nil
    OBVIOUS
  <2>1. b + 1 \in 1 .. n
    BY <1>3, <1>4
  <2>2. u[b + 1] \in Cells
    BY <2>1 DEF Lists
  <2> QED BY <1>1, <2>2
<1>6. z \in b .. n /\ (b = z <=> srt.qsize = 0 \/ b = n) /\ (b < z => b < n)
  BY <1>2, <1>3, <1>4 DEF End
<1>7. QEmpty <=> b = z
  BY <1>3, <1>4, <1>5, <1>6 DEF QEmpty
<1> QED BY <1>3, <1>4, <1>6, <1>7 DEF MergeAt

LEMMA KeyType ==
    ASSUME NEW f \in [Cells -> Items], NEW d, Words(d), NEW e \in [Items -> Int], NEW w,
           NEW g, g = [c \in Cells |-> IF w THEN d[f[c]] % 128 ELSE e[f[c]]]
    PROVE  g \in [Cells -> Int]
<1>1. ASSUME NEW c \in Cells PROVE (IF w THEN d[f[c]] % 128 ELSE e[f[c]]) \in Int
  <2>1. d[f[c]] \in Nat /\ e[f[c]] \in Int
    BY DEF Words
  <2>2. d[f[c]] % 128 \in Int
    BY <2>1
  <2> QED BY <2>1, <2>2
<1> QED BY <1>1

Found(u, n, a, r) == Lists(u, n, Cells) /\ Split(u, n, a) /\ Ranked(r) /\ InSort(u, n, a, r)

\* What a turn of the merge does to the data.
DataTurn(gg, tt) ==
    /\ KeysKept(Key, Touched, gg, tt)
    /\ IF Compare THEN /\ srt.p \in tt /\ srt.q \in tt
                       /\ (TakeP /\ gg[srt.p] <= gg[srt.q]) \/ (TakeQ /\ gg[srt.q] < gg[srt.p])
                  ELSE (TakeP \/ TakeQ) /\ gg = Key /\ tt = Touched

LEMMA MergeData ==
    ASSUME SortInv, Merge, NEW u, NEW n, NEW a, Lists(u, n, Cells), Split(u, n, a)
    PROVE  DataInv' /\ DataTurn(Key', Touched') /\ h'.info = h.info
<1>1. /\ ListInv /\ DataInv /\ h \in Heaps /\ srt.at = "merge" /\ at \in {"init", "sort", "index"}
      /\ ItemsOnce /\ DataType
      /\ UNCHANGED << at, idx, finder_idx, original >>
  BY DEF SortInv, Merge, Compare, TakeP, TakeQ, bench, ListInv, ListType, DataInv
<1>2. TakeP \/ TakeQ
  BY DEF Merge, Sorting
<1>3. h'.info = h.info /\ h' \in Heaps
  <2>1. h'.info = h.info
    BY <1>1, <1>2, LinkInfo DEF TakeP, TakeQ
  <2>2. ListInv'
    BY <1>1, ListStep DEF Next
  <2> QED BY <2>1, <2>2 DEF ListInv, ListType
<1>4. CASE Compare
  <2>1. Sorting(TakeP, TakeQ)
    BY <1>4 DEF Merge
  <2>2. PICK b, z : b = a + srt.psize /\ z = End(b, srt.qsize, n)
    OBVIOUS
  <2>3. MergeAt(u, n, a, b, z)
    BY <1>1, <2>2, SplitAt
  <2>4. a < b /\ b < z /\ srt.p = u[a + 1] /\ srt.q = u[b + 1] /\ a + 1 \in 1 .. n /\ b + 1 \in 1 .. n
        /\ a + 1 # b + 1
    BY <1>4, <2>3 DEF MergeAt, Compare
  <2>5. srt.p \in Cells /\ srt.q \in Cells \ {srt.p}
    BY <2>4 DEF Lists
  <2>6. /\ Words(data16') /\ SameUpper(data16', data16) /\ (at = "init" => data16' = data16)
        /\ KeysKept(Key, Touched, Key', Touched') /\ srt.p \in Touched' /\ srt.q \in Touched'
        /\ (TakeP /\ Key'[srt.p] <= Key'[srt.q]) \/ (TakeQ /\ Key'[srt.q] < Key'[srt.p])
    <3>1. CASE at = "sort"
      BY <1>1, <1>3, <2>1, <2>5, <3>1, ComparedValues
    <3>2. CASE at \in {"init", "index"}
      <4>1. at = "init" => Fresh(data16)
        BY <1>1 DEF DataInv
      <4> QED BY <1>1, <1>3, <2>1, <2>5, <3>2, <4>1, ComparedIndex
    <3> QED BY <1>1, <3>1, <3>2
  <2>7. DataInv'
    BY <1>1, <2>6, DataKept
  <2> QED BY <1>3, <1>4, <2>6, <2>7 DEF DataTurn
<1>5. CASE ~Compare
  <2>1. data16' = data16
    BY <1>5 DEF Merge
  <2>2. DataInv'
    BY <1>1, <2>1, DataSame
  <2>3. Key' = Key /\ Touched' = Touched
    BY <1>1, <1>3, <2>1 DEF Key, Touched, ByValue, Cached
  <2> QED BY <1>2, <1>3, <1>5, <2>2, <2>3 DEF DataTurn, KeysKept
<1> QED BY <1>4, <1>5

LEMMA RankedSame ==
    ASSUME NEW r, Ranked(r), before' = before, h'.info = h.info
    PROVE  Ranked(r)'
BY DEF Ranked

LEMMA NextKeys ==
    ASSUME ListInv', DataInv', NEW r, Ranked(r)
    PROVE  Keys(Key', Touched', r)
<1>1. h'.info \in [Cells -> Items] /\ Words(data16') /\ idx' \in [Items -> Int]
  BY DEF ListInv, ListType, Heaps, DataInv, DataType
<1>2. Key' = [c \in Cells |-> IF ByValue' THEN data16'[h'.info[c]] % 128 ELSE idx'[h'.info[c]]]
  BY DEF Key
<1>3. Key' \in [Cells -> Int]
  BY <1>1, <1>2, KeyType
<1> QED BY <1>3 DEF Keys, Touched, Ranked

LEMMA MergeOrderStep ==
    ASSUME SortInv, Merge
    PROVE  SortInv'
<1>1. ListInv /\ DataInv /\ OrderInv /\ srt \in Sorts /\ srt.at = "merge" /\ at \in {"init", "sort", "index"}
      /\ UNCHANGED << at, remover, before >>
  BY DEF SortInv, Merge, Compare, TakeP, TakeQ, bench, ListInv, ListType
<1>2. PICK u, n, a, r : Found(u, n, a, r)
  BY <1>1 DEF OrderInv, Found
<1>3. Lists(u, n, Cells) /\ Split(u, n, a) /\ Ranked(r) /\ InSort(u, n, a, r)
  BY <1>2 DEF Found
<1>4. DataInv' /\ DataTurn(Key', Touched') /\ h'.info = h.info
  BY <1>3, MergeData
<1>5. ListInv'
  BY <1>1, ListStep DEF Next
<1>6. Ranked(r)' /\ Keys(Key', Touched', r)
  BY <1>1, <1>3, <1>4, <1>5, NextKeys, RankedSame
<1>7. PICK g, t, gg, tt : g = Key /\ t = Touched /\ gg = Key' /\ tt = Touched'
  OBVIOUS
<1>8. PICK b, z, size, nm : b = a + srt.psize /\ z = End(b, srt.qsize, n)
                            /\ size = srt.insize /\ nm = srt.nmerges
  OBVIOUS
<1>9. MergeAt(u, n, a, b, z)
  BY <1>1, <1>3, <1>8, SplitAt
<1>10. n \in Nat /\ a \in Nat /\ a \in 0 .. n /\ b \in a .. n /\ b \in Nat /\ z \in b .. n /\ z \in 0 .. n
       /\ size \in Nat \ {0} /\ nm \in Nat /\ srt.qsize \in Nat /\ srt.psize \in Nat
  BY <1>1, <1>8, <1>9 DEF MergeAt, Sorts
<1>11. nm # 0 /\ InMerge(u, n, a, b, z, size, nm, g, t, r)
  BY <1>1, <1>3, <1>7, <1>8 DEF InSort
<1>12. InMerge(u, n, a, b, z, size, nm, gg, tt, r)
  <2>1. CASE Compare
    <3>1. a < b /\ b < z
      BY <1>9, <1>10, <2>1 DEF Compare, MergeAt
    <3>2. t \subseteq tt /\ \A c \in t : gg[c] = g[c]
      BY <1>4, <1>7 DEF DataTurn, KeysKept
    <3> QED BY <1>10, <1>11, <3>1, <3>2, OrderCompared
  <2>2. CASE ~Compare
    BY <1>4, <1>7, <1>11, <2>2 DEF DataTurn
  <2> QED BY <2>1, <2>2
<1>13. a < b /\ b < z => Compare /\ srt.p = u[a + 1] /\ srt.q = u[b + 1]
  BY <1>1, <1>9, <1>10 DEF MergeAt, Compare
<1>14. CASE TakeP /\ (Compare => gg[srt.p] <= gg[srt.q])
  <2>1. a < b
    BY <1>9, <1>10, <1>14 DEF TakeP, MergeAt
  <2>2. b < z => u[a + 1] \in tt /\ u[b + 1] \in tt /\ gg[u[a + 1]] <= gg[u[b + 1]]
    BY <1>4, <1>7, <1>13, <1>14, <2>1 DEF DataTurn
  <2>3. InMerge(u, n, a + 1, b, z, size, nm, gg, tt, r)
    BY <1>3, <1>6, <1>7, <1>10, <1>12, <2>1, <2>2, InMergeTakeP
  <2>4. Split(u, n, a + 1)'
    BY <1>1, <1>3, <1>14, TakePSplit
  <2>5. /\ srt'.at = "merge" /\ srt'.psize = srt.psize - 1 /\ srt'.qsize = srt.qsize
        /\ srt'.insize = size /\ srt'.nmerges = nm
    BY <1>1, <1>8, <1>14 DEF TakeP, Sorts
  <2>6. (a + 1) + srt'.psize = b
    BY <1>8, <1>10, <2>5
  <2>7. InSort(u, n, a + 1, r)'
    BY <1>7, <1>8, <1>11, <2>3, <2>5, <2>6 DEF InSort
  <2>8. OrderInv'
    BY <1>1, <1>3, <1>6, <2>4, <2>5, <2>7 DEF OrderInv
  <2> QED BY <1>4, <1>5, <2>8 DEF SortInv
<1>15. CASE TakeQ /\ (Compare => gg[srt.q] < gg[srt.p])
  <2>1. b < z
    BY <1>9, <1>10, <1>15 DEF TakeQ, MergeAt
  <2>2. a < b => u[a + 1] \in tt /\ u[b + 1] \in tt /\ gg[u[b + 1]] < gg[u[a + 1]]
    BY <1>4, <1>7, <1>13, <1>15, <2>1 DEF DataTurn
  <2>3. PICK v : v = Rotated(u, n, a, b) /\ Lists(v, n, Cells) /\ Split(v, n, a + 1)'
    BY <1>1, <1>3, <1>8, <1>15, TakeQSplit
  <2>4. InMerge(v, n, a + 1, b + 1, z, size, nm, gg, tt, r)
    BY <1>3, <1>6, <1>7, <1>10, <1>12, <2>1, <2>2, <2>3, InMergeTakeQ
  <2>5. /\ srt'.at = "merge" /\ srt'.psize = srt.psize /\ srt'.qsize = srt.qsize - 1
        /\ srt'.insize = size /\ srt'.nmerges = nm
    BY <1>1, <1>8, <1>15 DEF TakeQ, Sorts
  <2>6. (a + 1) + srt'.psize = b + 1 /\ End(b + 1, srt'.qsize, n) = z
    <3>1. (a + 1) + srt'.psize = b + 1
      BY <1>8, <1>10, <2>5
    <3>2. srt.qsize > 0
      BY <1>10, <1>15 DEF TakeQ, QEmpty
    <3> QED BY <1>8, <1>10, <2>1, <2>5, <3>1, <3>2 DEF End
  <2>7. InSort(v, n, a + 1, r)'
    BY <1>7, <1>8, <1>11, <2>4, <2>5, <2>6 DEF InSort
  <2>8. OrderInv'
    BY <1>1, <1>6, <2>3, <2>5, <2>7 DEF OrderInv
  <2> QED BY <1>4, <1>5, <2>8 DEF SortInv
<1> QED BY <1>4, <1>7, <1>14, <1>15 DEF DataTurn

LEMMA LoopsOrderStep ==
    ASSUME SortInv, Loops
    PROVE  SortInv'
<1>1. ListInv /\ DataInv /\ OrderInv /\ srt \in Sorts /\ srt.at = (IF MergeStart THEN "pass" ELSE "merge")
      /\ at \in {"init", "sort", "index"} /\ srt.at # "off" /\ h' = h
      /\ UNCHANGED << at, remover, before, data16, idx, finder_idx, original >>
  BY DEF SortInv, Loops, MergeStart, MergeEnd, bench, ListInv, ListType
<1>2. PICK u, n, a, r : Lists(u, n, Cells) /\ Split(u, n, a) /\ Ranked(r) /\ InSort(u, n, a, r)
  BY <1>1 DEF OrderInv
<1>3. DataInv' /\ ListInv'
  BY <1>1, DataSame, ListStep DEF Next
<1>4. Ranked(r)' /\ Key' = Key /\ Touched' = Touched
  BY <1>1, <1>2, RankedSame DEF Key, Touched, ByValue, Cached
<1>5. PICK size, nm : size = srt.insize /\ nm = srt.nmerges
  OBVIOUS
<1>6. size \in Nat \ {0} /\ nm \in Nat /\ n \in Nat /\ a \in Nat /\ srt.psize \in Nat /\ srt.qsize \in Nat
  BY <1>1, <1>2, <1>5 DEF Sorts, Lists, Split
<1>7. PICK g, t : g = Key /\ t = Touched
  OBVIOUS
<1>8. CASE MergeStart
  <2>1. srt.at = "pass"
    BY <1>1, <1>8
  <2>2. Split(u, n, a)' /\ srt'.psize = IF n - a < srt.insize THEN n - a ELSE srt.insize
    BY <1>1, <1>2, <1>8, MergeStartSplit
  <2>3. a < n
    <3>1. a <= n
      BY <1>2, <1>6 DEF Split
    <3>2. srt.p # Nil /\ srt.p = IF a < n THEN u[a + 1] ELSE Nil
      BY <1>2, <1>8, <2>1 DEF Split, MergeStart
    <3> QED BY <3>2
  <2>4. /\ srt'.at = "merge" /\ srt'.qsize = size /\ srt'.insize = size /\ srt'.nmerges = nm + 1
    BY <1>1, <1>5, <1>8 DEF MergeStart, Sorts
  <2>5. PICK b, z : b = End(a, size, n) /\ z = End(b, size, n)
    OBVIOUS
  <2>6. a + srt'.psize = b
    BY <1>5, <1>6, <2>2, <2>3, <2>5 DEF End
  <2>7. PassOrder(u, n, a, size, nm, g, t, r)
    BY <1>2, <1>5, <1>7, <2>1 DEF InSort
  <2>8. InMerge(u, n, a, b, z, size, nm + 1, g, t, r)
    <3>1. a \in 0 .. n - 1
      BY <1>6, <2>3
    <3> QED BY <1>6, <2>5, <2>7, <3>1, OrderMergeStart
  <2>9. nm + 1 # 0
    BY <1>6
  <2>10. InSort(u, n, a, r)'
    BY <1>4, <1>7, <2>4, <2>5, <2>6, <2>8, <2>9 DEF InSort
  <2>11. OrderInv'
    BY <1>1, <1>2, <1>4, <2>2, <2>4, <2>10 DEF OrderInv
  <2> QED BY <1>3, <2>11 DEF SortInv
<1>9. CASE MergeEnd
  <2>1. srt.at = "merge" /\ PEmpty /\ QEmpty
    BY <1>9 DEF MergeEnd
  <2>2. Split(u, n, a)'
    BY <1>1, <1>2, <1>9, MergeEndSplit
  <2>3. PICK b, z : b = a + srt.psize /\ z = End(b, srt.qsize, n)
    OBVIOUS
  <2>4. MergeAt(u, n, a, b, z)
    BY <1>1, <1>2, <2>1, <2>3, SplitAt
  <2>5. b = a /\ z = a /\ a \in 0 .. n
    BY <1>6, <2>1, <2>4 DEF MergeAt
  <2>6. nm # 0 /\ InMerge(u, n, a, a, a, size, nm, g, t, r)
    BY <1>2, <1>5, <1>7, <2>1, <2>3, <2>5 DEF InSort
  <2>7. PassOrder(u, n, a, size, nm, g, t, r)
    BY <1>6, <2>5, <2>6, OrderMergeEnd
  <2>8. srt'.at = "pass" /\ srt'.insize = size /\ srt'.nmerges = nm
    BY <1>1, <1>5, <1>9 DEF MergeEnd, Sorts
  <2>9. InSort(u, n, a, r)'
    BY <1>4, <1>7, <2>7, <2>8 DEF InSort
  <2>10. OrderInv'
    BY <1>1, <1>2, <1>4, <2>2, <2>8, <2>9 DEF OrderInv
  <2> QED BY <1>3, <2>10 DEF SortInv
<1> QED BY <1>8, <1>9 DEF Loops

LEMMA SortCallOrderStep ==
    ASSUME SortInv, SortCall
    PROVE  SortInv'
<1>1. ListInv /\ DataInv /\ srt.at = "off" /\ at \in {"init", "sort", "index"} /\ h' = h /\ h \in Heaps
      /\ remover = Nil /\ before' = InfoSeq(h, list)
      /\ UNCHANGED << at, remover, data16, idx, finder_idx, original >>
  BY DEF SortInv, SortCall, SortStart, bench, ListInv, ListType
<1>2. PICK u, n : Lists(u, n, Cells \ {remover}) /\ Linear(h, u, n) /\ list = u[1]
  BY <1>1, LinearList
<1>3. Whole(u, n)
  BY <1>2 DEF Whole, Linear
<1>4. Lists(u, n, Cells) /\ Split(u, n, 0)' /\ ListInv'
  BY <1>1, <1>2, <1>3, SortCallSplit
<1>5. DataInv'
  BY <1>1, DataSame
<1>6. n \in Nat /\ u \in [1 .. n -> Cells]
  BY <1>4 DEF Lists
<1>7. PICK r : r = [c \in Cells |-> CHOOSE k \in 1 .. n : u[k] = c]
  OBVIOUS
<1>8. ASSUME NEW c \in Cells PROVE r[c] \in 1 .. n /\ u[r[c]] = c
  <2>1. \E k \in 1 .. n : u[k] = c
    BY <1>4 DEF Lists
  <2>2. r[c] = CHOOSE k \in 1 .. n : u[k] = c
    BY <1>7
  <2> QED BY <2>1, <2>2
<1>9. \A k \in 1 .. n : r[u[k]] = k
  BY <1>4, <1>6, <1>8 DEF Lists
<1>10. Ranked(r)'
  <2>1. /\ Chain(h, list) \in Seq(Cells) /\ Len(Chain(h, list)) = n
        /\ \A k \in 1 .. n : Chain(h, list)[k] = u[k]
    <3>1. Cells \subseteq Cells
      OBVIOUS
    <3> QED BY <1>2, <1>4, <3>1, ChainOfList
  <2>2. DOMAIN Chain(h, list) = 1 .. n
    BY <1>6, <2>1
  <2>3. DOMAIN before' = 1 .. n /\ \A k \in 1 .. n : before'[k] = h.info[u[k]]
    BY <1>1, <2>1, <2>2 DEF InfoSeq
  <2>4. r \in [Cells -> Int]
    <3>1. \A c \in Cells : r[c] \in Int
      BY <1>6, <1>8
    <3> QED BY <1>7, <3>1
  <2>5. \A c \in Cells : before'[r[c]] = h'.info[c] /\ r[c] \in DOMAIN before'
    BY <1>1, <1>8, <2>3
  <2> QED BY <2>4, <2>5 DEF Ranked
<1>11. srt'.at = "pass" /\ srt'.insize = 1 /\ srt'.nmerges = 0
  BY DEF SortCall, SortStart, Off
<1>12. PassOrder(u, n, 0, 1, 0, Key', Touched', r)
  <2>1. PICK g, t : g = Key' /\ t = Touched'
    OBVIOUS
  <2>2. PassOrder(u, n, 0, 1, 0, g, t, r)
    BY <1>6, <1>9, OrderStart
  <2> QED BY <2>1, <2>2
<1>13. InSort(u, n, 0, r)'
  BY <1>11, <1>12 DEF InSort
<1>14. OrderInv'
  BY <1>1, <1>4, <1>10, <1>11, <1>13 DEF OrderInv
<1> QED BY <1>4, <1>5, <1>14 DEF SortInv

\* Each item belongs to one cell.
LEMMA ItemsHeld ==
    ASSUME h \in Heaps, ItemsOnce, NEW x \in Items
    PROVE  \E c \in Cells : h.info[c] = x
<1>1. IsFiniteSet(Cells) /\ Items = Cells
  BY SizeFacts
<1>2. PICK f : f = h.info
  OBVIOUS
<1>3. f \in [Cells -> Items] /\ \A b, c \in Cells : f[b] = f[c] => b = c
  BY <1>2 DEF Heaps, ItemsOnce
<1>4. f \in Injection(Cells, Items)
  BY <1>3 DEF Injection, IsInjective
<1>5. f \in Surjection(Cells, Items)
  BY <1>1, <1>4, FS_Injection
<1> QED BY <1>2, <1>5 DEF Surjection

\* The items of a list that is sorted by index.
LEMMA SortedListing ==
    ASSUME h \in Heaps, ItemsOnce, idx \in [Items -> Int],
           NEW u, NEW n, NEW r, Lists(u, n, Cells),
           NEW g, g = [c \in Cells |-> idx[h.info[c]]], Sorted(u, 0, n, g, r),
           NEW s, DOMAIN s = 1 .. n, s = [k \in 1 .. n |-> h.info[u[k]]]
    PROVE  Listing(s)
<1>1. n = N /\ n \in Nat
  BY ListLength, SizeFacts DEF N
<1> HIDE DEF N
<1>2. ASSUME NEW k \in 1 .. n PROVE u[k] \in Cells /\ s[k] = h.info[u[k]] /\ s[k] \in Items
  BY DEF Lists, Heaps
<1>3. s \in [1 .. n -> Items]
  BY <1>2
<1>4. ASSUME NEW x \in Items PROVE \E k \in 1 .. n : s[k] = x
  <2>1. PICK c \in Cells : h.info[c] = x
    BY ItemsHeld
  <2>2. PICK k \in 1 .. n : u[k] = c
    BY DEF Lists
  <2> QED BY <1>2, <2>1, <2>2
<1>5. ASSUME NEW j \in 1 .. n, NEW k \in 1 .. n, j < k PROVE s[j] # s[k] /\ idx[s[j]] <= idx[s[k]]
  <2>1. u[j] # u[k] /\ s[j] # s[k]
    BY <1>2, <1>5 DEF Lists, ItemsOnce
  <2>2. Less(g, r, u[j], u[k])
    <3>1. j \in 0 + 1 .. n /\ k \in 0 + 1 .. n
      BY <1>1
    <3> QED BY <1>5, <3>1 DEF Sorted
  <2>3. g[u[j]] = idx[s[j]] /\ g[u[k]] = idx[s[k]] /\ idx[s[j]] \in Int /\ idx[s[k]] \in Int
    BY <1>2
  <2> QED BY <2>1, <2>2, <2>3 DEF Less
<1> QED BY <1>1, <1>3, <1>4, <1>5 DEF Listing

ItemsOf(s, f, u, n) == s = [k \in 1 .. n |-> f.info[u[k]]]

LEMMA InfoOfList ==
    ASSUME NEW f, NEW l, NEW u, NEW n, Lists(u, n, Cells), Linear(f, u, n), l = u[1]
    PROVE  ItemsOf(InfoSeq(f, l), f, u, n)
<1>1. Cells \subseteq Cells
  OBVIOUS
<1>2. /\ Chain(f, l) \in Seq(Cells) /\ Len(Chain(f, l)) = n
      /\ \A k \in 1 .. n : Chain(f, l)[k] = u[k]
  BY <1>1, ChainOfList
<1>3. DOMAIN Chain(f, l) = 1 .. n
  BY <1>2
<1> QED BY <1>2, <1>3 DEF InfoSeq, ItemsOf

LEMMA SortPassOrderStep ==
    ASSUME SortInv, SortPass
    PROVE  SortInv'
<1>1. ListInv /\ DataInv /\ OrderInv /\ srt \in Sorts /\ srt.at = "pass" /\ srt.at # "off"
      /\ at \in {"init", "sort", "index"} /\ h \in Heaps /\ ItemsOnce
      /\ UNCHANGED << remover, before, data16, idx, finder_idx >>
  BY DEF SortInv, SortPass, PassEnd, ListInv, ListType
<1>2. PICK u, n, a, r : Lists(u, n, Cells) /\ Split(u, n, a) /\ Ranked(r) /\ InSort(u, n, a, r)
  BY <1>1 DEF OrderInv
<1>3. /\ ListInv' /\ n \in Nat /\ a = n
      /\ IF srt'.at = "off" THEN Linear(h', u, n) /\ list' = u[1] ELSE Split(u, n, 0)'
  BY <1>1, <1>2, SortPassSplit
<1>4. h'.info = h.info /\ h' \in Heaps /\ ItemsOnce'
  <2>1. h'.info = h.info
    BY <1>1 DEF SortPass, PassEnd, Heaps
  <2> QED BY <1>3, <2>1 DEF ListInv, ListType
<1>5. Ranked(r)'
  BY <1>1, <1>2, <1>4, RankedSame
<1>6. PICK g, t, size, nm : g = Key /\ t = Touched /\ size = srt.insize /\ nm = srt.nmerges
  OBVIOUS
<1>7. PassOrder(u, n, n, size, nm, g, t, r)
  BY <1>1, <1>2, <1>3, <1>6 DEF InSort
<1>8. size \in Nat \ {0} /\ nm \in Nat
  BY <1>1, <1>6 DEF Sorts
<1>9. n > 1
  <2>1. n = Size - 1
    BY <1>2, ListLength, SizeFacts DEF N
  <2> QED BY <2>1, SizeFacts
<1>10. CASE srt.nmerges <= 1
  <2>1. srt'.at = "off" /\ at' = CASE at = "sort" -> "remove" [] at = "init" -> "ready" [] OTHER -> "return"
    BY <1>10 DEF SortPass, PassEnd, Off
  <2>2. Linear(h', u, n) /\ list' = u[1]
    BY <1>3, <2>1
  <2>3. nm = 1
    BY <1>6, <1>7, <1>8, <1>9, <1>10 DEF PassOrder
  <2>4. Sorted(u, 0, n, g, r) /\ \A k \in 1 .. n : u[k] \in t
    <3>1. Settled(u, 0, n, g, t, r)
      BY <1>7, <2>3 DEF PassOrder
    <3>2. n - 0 > 1 /\ 0 + 1 = 1
      BY <1>3, <1>9
    <3> QED BY <3>1, <3>2 DEF Settled
  <2>5. Key' = Key
    <3>1. ByValue' <=> ByValue
      BY <1>1, <2>1 DEF ByValue
    <3> QED BY <1>1, <1>4, <3>1 DEF Key
  <2>6. IsSorted(u, n, r)'
    BY <1>2, <1>5, <1>6, <2>2, <2>4, <2>5 DEF IsSorted
  <2>7. OrderInv'
    BY <2>1, <2>6 DEF OrderInv
  <2>8. CASE at = "sort"
    <3>1. at' = "remove" /\ original' = original
      BY <2>1, <2>8 DEF SortPass
    <3>2. DataInv'
      BY <1>1, <2>8, <3>1 DEF DataInv, DataType, Listing
    <3> QED BY <1>3, <2>7, <3>2 DEF SortInv
  <2>9. CASE at = "init"
    <3>1. at' = "ready"
      BY <2>1, <2>9
    <3>2. PICK s : s = InfoSeq(h', list') /\ original' = << s, data16 >>
      <4>1. list' = list
        BY <1>10 DEF SortPass, PassEnd
      <4> QED BY <2>1, <2>9, <4>1 DEF SortPass
    <3>3. s = [k \in 1 .. n |-> h'.info[u[k]]]
      <4>1. PICK f, l : f = h' /\ l = list'
        OBVIOUS
      <4>2. s = InfoSeq(f, l) /\ Linear(f, u, n) /\ l = u[1]
        BY <2>2, <3>2, <4>1
      <4>3. ItemsOf(InfoSeq(f, l), f, u, n)
        BY <1>2, <4>2, InfoOfList
      <4> QED BY <4>1, <4>2, <4>3 DEF ItemsOf
    <3>4. Key = [c \in Cells |-> idx[h.info[c]]]
      BY <2>9 DEF Key, ByValue
    <3>5. Listing(s)
      <4>1. s = [k \in 1 .. n |-> h.info[u[k]]] /\ DOMAIN s = 1 .. n
        BY <1>4, <3>3
      <4>2. g = [c \in Cells |-> idx[h.info[c]]]
        BY <1>6, <3>4
      <4>3. idx \in [Items -> Int]
        BY <1>1 DEF DataInv, DataType
      <4> QED BY <1>1, <1>2, <2>4, <4>1, <4>2, <4>3, SortedListing
    <3>6. original'[1] = s /\ original'[2] = data16
      BY <3>2
    <3>7. DataInv'
      <4>1. Words(data16) /\ Fresh(data16) /\ SameUpper(data16, data16)
        BY <1>1, <2>9 DEF DataInv, DataType, SameUpper
      <4>2. Listing(original[1])'
        BY <1>1, <3>5, <3>6 DEF Listing
      <4> QED BY <1>1, <3>1, <3>6, <4>1, <4>2 DEF DataInv, DataType
    <3> QED BY <1>3, <2>7, <3>7 DEF SortInv
  <2>10. CASE at = "index"
    <3>1. at' = "return" /\ original' = original
      BY <2>1, <2>10 DEF SortPass
    <3>2. Fresh(data16)
      <4> SUFFICES ASSUME NEW x \in Items PROVE Low(data16[x]) = High(data16[x])
        BY DEF Fresh
      <4>1. PICK c \in Cells : h.info[c] = x
        BY <1>1, ItemsHeld
      <4>2. c \in t
        BY <1>2, <2>4 DEF Lists
      <4> QED BY <1>6, <2>10, <4>1, <4>2 DEF Touched, ByValue
    <3>3. data16 = original[2]
      <4>1. Words(data16) /\ Words(original[2]) /\ Fresh(original[2]) /\ SameUpper(data16, original[2])
        BY <1>1, <2>10 DEF DataInv, DataType
      <4> QED BY <3>2, <4>1, FreshData
    <3>4. DataInv'
      BY <1>1, <2>10, <3>1, <3>3 DEF DataInv, DataType, Listing
    <3> QED BY <1>3, <2>7, <3>4 DEF SortInv
  <2> QED BY <1>1, <2>8, <2>9, <2>10
<1>11. CASE ~(srt.nmerges <= 1)
  <2>1. /\ srt'.at = "pass" /\ srt'.insize = 2 * size /\ srt'.nmerges = 0
        /\ at' = at /\ original' = original
    BY <1>6, <1>11 DEF SortPass, PassEnd, Off, NextSize
  <2>2. Split(u, n, 0)'
    BY <1>3, <2>1
  <2>3. PassOrder(u, n, 0, 2 * size, 0, g, t, r)
    BY <1>3, <1>7, <1>8, OrderPass
  <2>4. Key' = g /\ Touched' = t
    BY <1>1, <1>4, <1>6, <2>1 DEF Key, Touched, ByValue, Cached
  <2>5. InSort(u, n, 0, r)'
    BY <2>1, <2>3, <2>4 DEF InSort
  <2>6. OrderInv'
    BY <1>1, <1>2, <1>5, <2>1, <2>2, <2>5 DEF OrderInv
  <2>7. DataInv'
    BY <1>1, <2>1, DataSame
  <2> QED BY <1>3, <2>6, <2>7 DEF SortInv
<1> QED BY <1>10, <1>11

\* Between the sorts.
LEMMA OtherOrderStep ==
    ASSUME SortInv, Begin \/ Find \/ FindsDone \/ Remove \/ Undo \/ Return
    PROVE  SortInv'
<1>1. ListInv /\ DataInv /\ OrderInv /\ ListType
  BY DEF SortInv, ListInv
<1>2. ListInv'
  BY <1>1, ListStep DEF Next
<1>3. CASE Begin \/ Find \/ FindsDone \/ Remove \/ Undo
  <2>1. /\ at \in {"ready", "find", "remove", "undo"} /\ at' \in {"find", "sort", "remove", "undo", "index"}
        /\ (at' = "remove" => ~(finder_idx > 0))
        /\ UNCHANGED << srt, data16, idx, finder_idx, original >>
    BY <1>3 DEF Begin, Find, FindsDone, Remove, Undo, Rest
  <2>2. srt'.at = "off"
    BY <1>1, <2>1 DEF ListType
  <2>3. DataInv'
    BY <1>1, <2>1 DEF DataInv, DataType, Listing
  <2>4. OrderInv'
    BY <2>1, <2>2 DEF OrderInv
  <2> QED BY <1>2, <2>3, <2>4 DEF SortInv
<1>4. CASE Return
  <2>1. at = "return" /\ at' = "ready" /\ finder_idx' = -finder_idx
        /\ UNCHANGED << h, list, srt, data16, idx, before, original >>
    BY <1>4 DEF Return
  <2>2. srt'.at = "off"
    BY <1>1, <2>1 DEF ListType
  <2>3. DataInv'
    BY <1>1, <2>1 DEF DataInv, DataType, Listing
  <2>4. PICK u, n, r : IsSorted(u, n, r)
    BY <1>1, <2>1 DEF OrderInv
  <2>5. Key' = Key
    BY <2>1 DEF Key, ByValue
  <2>6. IsSorted(u, n, r)'
    BY <2>1, <2>4, <2>5 DEF IsSorted, Ranked
  <2>7. OrderInv'
    BY <2>2, <2>6 DEF OrderInv
  <2> QED BY <1>2, <2>3, <2>7 DEF SortInv
<1> QED BY <1>3, <1>4

LEMMA SortStep == SortInv /\ [Next]_vars => SortInv'
<1> SUFFICES ASSUME SortInv, [Next]_vars PROVE SortInv'
  OBVIOUS
<1>1. CASE Next
  BY <1>1, MergeOrderStep, LoopsOrderStep, SortCallOrderStep, SortPassOrderStep, OtherOrderStep DEF Next
<1>2. CASE UNCHANGED vars
  <2>1. UNCHANGED << h, list, srt, at, remover, data16, idx, finder_idx, before, original >>
    BY <1>2 DEF vars, bench
  <2>2. ListInv'
    BY <1>2, ListStep DEF SortInv
  <2>3. DataInv'
    BY <2>1, DataSame DEF SortInv
  <2>4. Key' = Key /\ Touched' = Touched
    BY <2>1 DEF Key, Touched, ByValue, Cached
  <2>5. srt.at # "off" => OrderInv'
    <3> SUFFICES ASSUME srt.at # "off" PROVE OrderInv'
      OBVIOUS
    <3>1. PICK u, n, a, r : Lists(u, n, Cells) /\ Split(u, n, a) /\ Ranked(r) /\ InSort(u, n, a, r)
      BY DEF SortInv, OrderInv
    <3>2. Split(u, n, a)' /\ Ranked(r)' /\ InSort(u, n, a, r)'
      BY <2>1, <2>4, <3>1 DEF Split, Ranked, InSort
    <3>3. at \in {"init", "sort", "index"}
      BY DEF SortInv, ListInv, ListType
    <3> QED BY <2>1, <3>1, <3>2, <3>3 DEF OrderInv
  <2>6. srt.at = "off" => OrderInv'
    <3> SUFFICES ASSUME srt.at = "off", at \in {"ready", "return"} \/ (at = "remove" /\ finder_idx > 0)
                 PROVE  \E u, n, r : IsSorted(u, n, r)'
      BY <2>1 DEF OrderInv
    <3>1. PICK u, n, r : IsSorted(u, n, r)
      BY DEF SortInv, OrderInv
    <3>2. IsSorted(u, n, r)'
      BY <2>1, <2>4, <3>1 DEF IsSorted, Ranked
    <3> QED BY <3>2
  <2> QED BY <2>2, <2>3, <2>5, <2>6 DEF SortInv
<1> QED BY <1>1, <1>2

\* Wherever a sort has come, the cells that have been merged and the runs
\* that are left are sorted and stable, by keys that are not to change again.
THEOREM SortInvariant == Spec => []SortInv
<1>1. Init => SortInv
  BY InitOrder
<1>2. SortInv /\ [Next]_vars => SortInv'
  BY SortStep
<1> QED BY <1>1, <1>2, PTL DEF Spec

\* When a sort returns the list is sorted, and items that compare equal are in
\* the order they had (cmp_complex, cmp_idx and core_list_mergesort).
THEOREM SortedStablyCorrect == Spec => []SortedStably
<1>1. SortInv => SortedStably
  <2> SUFFICES ASSUME SortInv, srt.at = "off",
                      at \in {"ready", "remove", "return"}, ~(at = "remove" /\ finder_idx < 0)
               PROVE  LET now == InfoSeq(h, list) IN
                      \A k \in 1 .. Len(now) - 1 :
                         LET x == now[k]
                             y == now[k + 1]
                         IN InOrder(x, y) /\ (InOrder(y, x) =>
                               \E a \in Positions(before, x), b \in Positions(before, y) : a < b)
    BY DEF SortedStably
  <2>1. at = "remove" => finder_idx > 0
    BY DEF SortInv, DataInv, DataType
  <2>2. PICK u, n, r : IsSorted(u, n, r)
    BY <2>1 DEF SortInv, OrderInv
  <2>3. Lists(u, n, Cells) /\ Linear(h, u, n) /\ list = u[1] /\ Ranked(r) /\ Sorted(u, 0, n, Key, r)
    BY <2>2 DEF IsSorted
  <2>4. n \in Nat /\ h \in Heaps /\ DataType
    BY <2>3 DEF Lists, SortInv, ListInv, ListType, DataInv
  <2>5. PICK s : s = InfoSeq(h, list)
    OBVIOUS
  <2>6. s = [k \in 1 .. n |-> h.info[u[k]]] /\ Len(s) = n
    <3>1. ItemsOf(s, h, u, n)
      BY <2>3, <2>5, InfoOfList
    <3> QED BY <2>4, <3>1 DEF ItemsOf
  <2> SUFFICES ASSUME NEW k \in 1 .. n - 1
               PROVE  InOrder(s[k], s[k + 1]) /\ (InOrder(s[k + 1], s[k]) =>
                        \E a \in Positions(before, s[k]), b \in Positions(before, s[k + 1]) : a < b)
    BY <2>5, <2>6
  <2>7. k \in 0 + 1 .. n /\ k + 1 \in 0 + 1 .. n /\ k \in 1 .. n /\ k + 1 \in 1 .. n /\ k < k + 1
    BY <2>4
  <2>8. PICK c, d : c = u[k] /\ d = u[k + 1]
    OBVIOUS
  <2>9. c \in Cells /\ d \in Cells /\ s[k] = h.info[c] /\ s[k + 1] = h.info[d]
    BY <2>3, <2>6, <2>7, <2>8 DEF Lists
  <2>10. Less(Key, r, c, d)
    BY <2>3, <2>7, <2>8 DEF Sorted
  <2>11. Key \in [Cells -> Int]
    <3>1. h.info \in [Cells -> Items] /\ Words(data16) /\ idx \in [Items -> Int]
      BY <2>4 DEF Heaps, DataType
    <3>2. Key = [e \in Cells |-> IF ByValue THEN data16[h.info[e]] % 128 ELSE idx[h.info[e]]]
      BY DEF Key
    <3> QED BY <3>1, <3>2, KeyType
  <2>12. \A e, f \in Cells : InOrder(h.info[e], h.info[f]) <=> Key[e] <= Key[f]
    BY DEF InOrder, Key, ByValue
  <2>13. InOrder(s[k], s[k + 1])
    BY <2>9, <2>10, <2>11, <2>12 DEF Less
  <2>14. InOrder(s[k + 1], s[k]) => r[c] < r[d]
    BY <2>9, <2>10, <2>11, <2>12 DEF Less
  <2>15. r[c] \in Positions(before, s[k]) /\ r[d] \in Positions(before, s[k + 1])
    BY <2>3, <2>9 DEF Ranked, Positions
  <2> QED BY <2>13, <2>14, <2>15
<1> QED BY <1>1, SortInvariant, PTL

\* There is one listing of items no two of which have the same index.
LEMMA OneListing ==
    ASSUME idx \in [Items -> Int], \A x, y \in Items : idx[x] = idx[y] => x = y,
           NEW s, NEW z, Listing(s), Listing(z)
    PROVE  s = z
<1>0. N \in Nat
  BY SizeFacts
<1> HIDE DEF N
<1>1. /\ s \in [1 .. N -> Items] /\ z \in [1 .. N -> Items]
      /\ \A x \in Items : \E k \in 1 .. N : s[k] = x
      /\ \A x \in Items : \E k \in 1 .. N : z[k] = x
      /\ \A j, k \in 1 .. N : j < k => s[j] # s[k] /\ idx[s[j]] <= idx[s[k]]
      /\ \A j, k \in 1 .. N : j < k => z[j] # z[k] /\ idx[z[j]] <= idx[z[k]]
  BY DEF Listing
<1>2. PICK T : T = {k \in 1 .. N : s[k] # z[k]}
  OBVIOUS
<1>3. T = {}
  <2> SUFFICES ASSUME T # {} PROVE FALSE
    OBVIOUS
  <2>1. T \subseteq Nat
    BY <1>2
  <2>2. PICK k \in T : \A j \in T : k <= j
    BY <2>1, NatMin
  <2>3. k \in 1 .. N /\ s[k] # z[k] /\ \A j \in 1 .. N : j < k => s[j] = z[j]
    BY <1>0, <1>2, <2>2
  <2>4. s[k] \in Items /\ z[k] \in Items
    BY <1>1, <2>3
  <2>5. PICK m \in 1 .. N : z[m] = s[k]
    BY <1>1, <2>4
  <2>6. m > k
    <3>1. CASE m < k
      BY <1>0, <1>1, <2>3, <2>5, <3>1
    <3>2. CASE m = k
      BY <2>3, <2>5, <3>2
    <3> QED BY <1>0, <2>3, <3>1, <3>2
  <2>7. PICK l \in 1 .. N : s[l] = z[k]
    BY <1>1, <2>4
  <2>8. l > k
    <3>1. CASE l < k
      BY <1>0, <1>1, <2>3, <2>7, <3>1
    <3>2. CASE l = k
      BY <2>3, <2>7, <3>2
    <3> QED BY <1>0, <2>3, <3>1, <3>2
  <2>9. idx[z[k]] <= idx[s[k]] /\ idx[s[k]] <= idx[z[k]]
    BY <1>1, <2>3, <2>5, <2>6, <2>7, <2>8
  <2>10. idx[s[k]] \in Int /\ idx[z[k]] \in Int
    BY <2>4
  <2>11. idx[s[k]] = idx[z[k]]
    BY <2>9, <2>10
  <2> QED BY <2>3, <2>4, <2>11
<1>4. \A k \in 1 .. N : s[k] = z[k]
  BY <1>2, <1>3
<1>5. s = [k \in 1 .. N |-> s[k]] /\ z = [k \in 1 .. N |-> z[k]]
  BY <1>1
<1>6. [k \in 1 .. N |-> s[k]] = [k \in 1 .. N |-> z[k]]
  BY <1>4
<1> QED BY <1>5, <1>6

\* The benchmark gives the list back as it was made, with the data of its
\* items (core_list_join.c:131).
THEOREM BackToOriginalCorrect == Spec => []BackToOriginal
<1>1. SortInv => BackToOriginal
  <2> SUFFICES ASSUME SortInv, at \in {"ready", "return"}
               PROVE  /\ data16 = original[2]
                      /\ (\A x, y \in Items : idx[x] = idx[y] => x = y) =>
                            InfoSeq(h, list) = original[1]
    BY DEF BackToOriginal
  <2>1. data16 = original[2] /\ Listing(original[1]) /\ DataType
    BY DEF SortInv, DataInv
  <2>2. h \in Heaps /\ ItemsOnce /\ idx \in [Items -> Int]
    BY <2>1 DEF SortInv, ListInv, ListType, DataType
  <2>3. PICK u, n, r : IsSorted(u, n, r)
    BY DEF SortInv, OrderInv
  <2>4. Lists(u, n, Cells) /\ Linear(h, u, n) /\ list = u[1] /\ Sorted(u, 0, n, Key, r)
    BY <2>3 DEF IsSorted
  <2>5. PICK s, g : s = InfoSeq(h, list) /\ g = Key
    OBVIOUS
  <2>6. s = [k \in 1 .. n |-> h.info[u[k]]] /\ DOMAIN s = 1 .. n
    <3>1. ItemsOf(s, h, u, n)
      BY <2>4, <2>5, InfoOfList
    <3> QED BY <3>1 DEF ItemsOf
  <2>7. g = [c \in Cells |-> idx[h.info[c]]]
    BY <2>5 DEF Key, ByValue
  <2>8. Listing(s)
    BY <2>2, <2>4, <2>5, <2>6, <2>7, SortedListing
  <2> QED BY <2>1, <2>2, <2>5, <2>8, OneListing
<1> QED BY <1>1, SortInvariant, PTL

----------------------------------------------------------------------------
\* Words of four letters, which are natural numbers.

\* The order of the words of a dictionary.
Below(m, k) ==
    \/ m[1] < k[1]
    \/ m[1] = k[1] /\ m[2] < k[2]
    \/ m[1] = k[1] /\ m[2] = k[2] /\ m[3] < k[3]
    \/ m[1] = k[1] /\ m[2] = k[2] /\ m[3] = k[3] /\ m[4] < k[4]

\* What never grows from m on ends up constant.
LEMMA ComesToRest ==
    ASSUME NEW g \in [Nat -> Nat], NEW m \in Nat, \A k \in Nat : k >= m => g[k + 1] <= g[k]
    PROVE  \E j \in Nat : j >= m /\ \A k \in Nat : k >= j => g[k + 1] = g[k]
<1> DEFINE T == {g[k] : k \in {e \in Nat : e >= m}}
<1>1. PICK v \in T : \A w \in T : v <= w
  <2>1. T \subseteq Nat /\ g[m] \in T
    OBVIOUS
  <2> HIDE DEF T
  <2> QED BY <2>1, NatMin
<1>2. PICK j \in Nat : j >= m /\ g[j] = v
  BY <1>1
<1>3. \A k \in Nat : k >= m => g[j] <= g[k]
  BY <1>1, <1>2
<1> DEFINE B == {k \in Nat : k >= j /\ g[k] # g[j]}
<1>4. B = {}
  <2> SUFFICES ASSUME B # {} PROVE FALSE
    OBVIOUS
  <2>1. PICK k \in B : \A e \in B : k <= e
    <3>1. B \subseteq Nat
      OBVIOUS
    <3> HIDE DEF B
    <3> QED BY <3>1, NatMin
  <2>2. k # j /\ k - 1 \in Nat /\ k - 1 >= j /\ (k - 1) + 1 = k
    BY <1>2, <2>1
  <2>3. g[k - 1] = g[j]
    BY <2>1, <2>2
  <2>4. g[k] <= g[k - 1] /\ g[j] <= g[k]
    BY <1>2, <1>3, <2>2
  <2> QED BY <2>1, <2>3, <2>4
<1>5. ASSUME NEW k \in Nat, k >= j PROVE g[k + 1] = g[k]
  <2>1. k + 1 \in Nat /\ k + 1 >= j
    BY <1>5
  <2>2. k \notin B /\ k + 1 \notin B
    BY <1>4
  <2> QED BY <1>5, <2>1, <2>2
<1> QED BY <1>2, <1>5

\* What a word lowered to another says of its letters.
LEMMA BelowLetters ==
    ASSUME NEW m \in Nat \X Nat \X Nat \X Nat, NEW k \in Nat \X Nat \X Nat \X Nat, Below(m, k)
    PROVE  /\ m[1] \in Nat /\ m[2] \in Nat /\ m[3] \in Nat /\ m[4] \in Nat
           /\ m[1] <= k[1]
           /\ m[1] = k[1] => m[2] <= k[2]
           /\ m[1] = k[1] /\ m[2] = k[2] => m[3] <= k[3]
           /\ m[1] = k[1] /\ m[2] = k[2] /\ m[3] = k[3] => m[4] < k[4]
BY DEF Below

\* A sequence of words, of which the letter e never grows from m on, or stays.
Letters(f) == \A k \in Nat : f[k] \in Nat \X Nat \X Nat \X Nat

Sinks(f, e, m) == \A k \in Nat : k >= m => f[k + 1][e] <= f[k][e]
Rests(f, e, m) == \A k \in Nat : k >= m => f[k + 1][e] = f[k][e]

LEMMA LetterSettles ==
    ASSUME NEW f, Letters(f), NEW e \in 1 .. 4, NEW m \in Nat, Sinks(f, e, m)
    PROVE  \E j \in Nat : j >= m /\ Rests(f, e, j)
<1>1. PICK g : g = [k \in Nat |-> f[k][e]]
  OBVIOUS
<1>2. g \in [Nat -> Nat]
  <2>1. ASSUME NEW k \in Nat PROVE f[k][e] \in Nat
    <3>1. f[k] \in Nat \X Nat \X Nat \X Nat
      BY DEF Letters
    <3> QED BY <3>1
  <2> QED BY <1>1, <2>1
<1>3. ASSUME NEW k \in Nat PROVE g[k + 1] = f[k + 1][e] /\ g[k] = f[k][e]
  BY <1>1
<1>4. \A k \in Nat : k >= m => g[k + 1] <= g[k]
  BY <1>3 DEF Sinks
<1>5. PICK j \in Nat : j >= m /\ \A k \in Nat : k >= j => g[k + 1] = g[k]
  BY <1>2, <1>4, ComesToRest
<1> QED BY <1>3, <1>5 DEF Rests

Descends(f) == Letters(f) /\ \A k \in Nat : Below(f[k + 1], f[k])

\* No sequence of words is lowered at every step.
LEMMA NoDescent ==
    ASSUME NEW f PROVE ~Descends(f)
<1> SUFFICES ASSUME Descends(f) PROVE FALSE
  OBVIOUS
<1>1. Letters(f)
  BY DEF Descends
<1>2. ASSUME NEW k \in Nat
      PROVE  /\ f[k + 1][1] <= f[k][1]
             /\ f[k + 1][1] = f[k][1] => f[k + 1][2] <= f[k][2]
             /\ f[k + 1][1] = f[k][1] /\ f[k + 1][2] = f[k][2] => f[k + 1][3] <= f[k][3]
             /\ f[k + 1][1] = f[k][1] /\ f[k + 1][2] = f[k][2] /\ f[k + 1][3] = f[k][3] =>
                   f[k + 1][4] < f[k][4] /\ f[k + 1][4] \in Nat /\ f[k][4] \in Nat
  <2>1. PICK m, w : m = f[k + 1] /\ w = f[k]
    OBVIOUS
  <2>2. m \in Nat \X Nat \X Nat \X Nat /\ w \in Nat \X Nat \X Nat \X Nat /\ Below(m, w)
    BY <2>1 DEF Descends, Letters
  <2>3. w[4] \in Nat
    BY <2>2
  <2> QED BY <2>1, <2>2, <2>3, BelowLetters
<1>3. PICK j1 \in Nat : Rests(f, 1, j1)
  <2>1. Sinks(f, 1, 0)
    BY <1>2 DEF Sinks
  <2> QED BY <1>1, <2>1, LetterSettles
<1>4. PICK j2 \in Nat : j2 >= j1 /\ Rests(f, 2, j2)
  <2>1. Sinks(f, 2, j1)
    BY <1>2, <1>3 DEF Sinks, Rests
  <2> QED BY <1>1, <2>1, LetterSettles
<1>5. PICK j3 \in Nat : j3 >= j2 /\ Rests(f, 3, j3)
  <2>1. \A k \in Nat : k >= j2 => k >= j1
    BY <1>4
  <2>2. Sinks(f, 3, j2)
    BY <1>2, <1>3, <1>4, <2>1 DEF Sinks, Rests
  <2> QED BY <1>1, <2>2, LetterSettles
<1>6. \A k \in Nat : k >= j3 => k >= j1 /\ k >= j2
  BY <1>4, <1>5
<1>7. ASSUME NEW k \in Nat, k >= j3
      PROVE  f[k + 1][4] < f[k][4] /\ f[k + 1][4] \in Nat /\ f[k][4] \in Nat
  BY <1>2, <1>3, <1>4, <1>5, <1>6, <1>7 DEF Rests
<1>8. PICK j4 \in Nat : j4 >= j3 /\ Rests(f, 4, j4)
  <2>1. Sinks(f, 4, j3)
    BY <1>7 DEF Sinks
  <2> QED BY <1>1, <2>1, LetterSettles
<1>9. f[j4 + 1][4] < f[j4][4] /\ f[j4 + 1][4] \in Nat /\ f[j4][4] \in Nat
  BY <1>7, <1>8
<1>10. f[j4 + 1][4] = f[j4][4]
  BY <1>8 DEF Rests
<1> QED BY <1>9, <1>10

----------------------------------------------------------------------------
\* Every call of the benchmark ends.

\* How far core_bench_list is from its return, but for its loops.
Phase == CASE at = "find" -> 5 [] at = "sort" -> 4 [] at = "remove" -> 3 [] at = "undo" -> 2
           [] at \in {"index", "init"} -> 1 [] OTHER -> 0

\* The finds that are left.
Finds == IF at = "find" THEN find_num - i ELSE 0

\* The passes that are left, for which twice the list stands.
Passes == IF srt.at = "off" THEN 2 * N ELSE 2 * N - srt.insize

\* The turns that are left of a pass: each cell that is not merged stands for
\* a turn that links it and at most one merge that begins and ends.
Left == Len(RestP) + Len(RestQ)
Turns == CASE srt.at = "off" -> 0
           [] srt.at = "pass" -> 3 * Left
           [] OTHER -> IF PEmpty THEN 3 * Left + 1 ELSE 3 * Left - 1

Measure == << Phase, Finds, Passes, Turns >>

\* A pass with more than one merge has runs shorter than the list, and one
\* with a merge has merged cells.
TurnInv ==
    /\ find_num \in Nat
    /\ at = "find" => i \in Nat /\ i <= find_num
    /\ srt.at # "off" =>
         /\ srt.nmerges <= 1 => srt.insize < 2 * N
         /\ srt.nmerges > 1 => srt.insize < N
         /\ srt.nmerges > 0 /\ srt.at = "pass" => srt.tail # Nil

\* What is left, by the place the merge has come to.
LeftIs(n, a) ==
    /\ n = N /\ a \in 0 .. n /\ Left = n - a /\ srt.psize \in 0 .. n - a
    /\ srt.at = "pass" => (srt.p = Nil <=> a = n)
    /\ srt.tail = Nil <=> a = 0

LEMMA LeftCells ==
    ASSUME ListInv, srt.at # "off", NEW u, NEW n, NEW a, Lists(u, n, Cells), Split(u, n, a)
    PROVE  LeftIs(n, a)
<1>1. PICK b : b = a + srt.psize
  OBVIOUS
<1>2. Piece(RestP, u, a, srt.psize) /\ Piece(RestQ, u, b, n - b)
  BY <1>1, RestPieces
<1>3. Len(RestP) = srt.psize /\ Len(RestQ) = n - b
  BY <1>2 DEF Piece
<1>4. n = N /\ N \in Nat /\ Nil \notin Cells
  BY ListLength, SizeFacts DEF N
<1>5. /\ a \in Nat /\ a + srt.psize <= n /\ srt.psize \in Nat
      /\ srt.at = "pass" => srt.psize = 0 /\ srt.p = IF a < n THEN u[a + 1] ELSE Nil
      /\ srt.tail = IF a = 0 THEN Nil ELSE u[a]
  BY DEF Split, ListInv, ListType, Sorts
<1>6. \A k \in 1 .. n : u[k] # Nil
  BY <1>4 DEF Lists
<1>7. a \in 0 .. n /\ n \in Nat
  BY <1>4, <1>5
<1>8. Left = n - a
  <2>1. Len(RestP) + Len(RestQ) = n - a
    BY <1>1, <1>3, <1>4, <1>5
  <2> QED BY <2>1 DEF Left
<1>9. srt.tail = Nil <=> a = 0
  <2>1. a # 0 => a \in 1 .. n
    BY <1>7
  <2> QED BY <1>5, <1>6, <2>1
<1>10. srt.at = "pass" => (srt.p = Nil <=> a = n)
  <2>1. a # n => a + 1 \in 1 .. n /\ a < n
    BY <1>7
  <2>2. a = n => ~(a < n)
    BY <1>7
  <2> QED BY <1>5, <1>6, <2>1, <2>2
<1> QED BY <1>4, <1>5, <1>7, <1>8, <1>9, <1>10 DEF LeftIs

AllLeft ==
    ListInv /\ srt.at # "off" => \A u, n, a : Lists(u, n, Cells) /\ Split(u, n, a) => LeftIs(n, a)

LEMMA LeftAll == AllLeft
BY LeftCells DEF AllLeft

LEMMA LeftPrimed == AllLeft'
BY LeftAll, PTL

LEMMA LeftNext ==
    ASSUME NEW u, NEW n, NEW a, ListInv', srt'.at # "off", Lists(u, n, Cells), Split(u, n, a)'
    PROVE  LeftIs(n, a)'
<1>2. Lists(u, n, Cells)'
  BY DEF Lists
<1> QED BY LeftPrimed, <1>2 DEF AllLeft

\* What a sort keeps, and that a turn of it comes nearer to the end of a pass.
LEMMA TurnsBelow ==
    ASSUME UNCHANGED << at, i, find_num >>, srt.at # "off", srt'.at # "off",
           srt'.insize = srt.insize, Turns' < Turns
    PROVE  Below(Measure', Measure)
<1>1. Phase' = Phase /\ Finds' = Finds /\ Passes' = Passes
  BY DEF Phase, Finds, Passes
<1> QED BY <1>1 DEF Below, Measure

LEMMA MergeTurns ==
    ASSUME SortInv, TurnInv, Merge
    PROVE  TurnInv' /\ Below(Measure', Measure)
<1>1. /\ ListInv /\ srt \in Sorts /\ srt.at = "merge" /\ at \in {"init", "sort", "index"}
      /\ UNCHANGED << at, i, find_num, remover >> /\ (TakeP \/ TakeQ)
  BY DEF SortInv, Merge, Sorting, TakeP, TakeQ, bench, ListInv, ListType
<1>2. PICK u, n, a : Lists(u, n, Cells) /\ Split(u, n, a)
  BY <1>1 DEF ListInv
<1>3. LeftIs(n, a)
  BY <1>1, <1>2, LeftCells
<1>4. /\ LeftIs(n, a + 1)' /\ srt'.at = "merge" /\ srt'.insize = srt.insize
      /\ srt'.nmerges = srt.nmerges /\ srt'.psize <= srt.psize
  <2>1. srt.psize \in Nat
    BY <1>1 DEF Sorts
  <2>2. CASE TakeP
    <3>1. /\ srt'.at = "merge" /\ srt'.insize = srt.insize /\ srt'.nmerges = srt.nmerges
          /\ srt'.psize = srt.psize - 1
      BY <1>1, <2>2 DEF TakeP, Sorts
    <3>2. Split(u, n, a + 1)' /\ ListInv'
      BY <1>1, <1>2, <2>2, TakePSplit
    <3>3. LeftIs(n, a + 1)'
      BY <1>2, <3>1, <3>2, LeftNext
    <3> QED BY <2>1, <3>1, <3>3
  <2>3. CASE TakeQ
    <3>1. /\ srt'.at = "merge" /\ srt'.insize = srt.insize /\ srt'.nmerges = srt.nmerges
          /\ srt'.psize = srt.psize
      BY <1>1, <2>3 DEF TakeQ, Sorts
    <3>2. PICK v : Lists(v, n, Cells) /\ Split(v, n, a + 1)' /\ ListInv'
      BY <1>1, <1>2, <2>3, TakeQSplit
    <3>3. LeftIs(n, a + 1)'
      BY <3>1, <3>2, LeftNext
    <3> QED BY <2>1, <3>1, <3>3
  <2> QED BY <1>1, <2>2, <2>3
<1>5. Turns' < Turns
  <2>1. N \in Nat
    BY SizeFacts
  <2>2. n = N /\ a \in 0 .. n /\ Left = n - a /\ Left' = n - (a + 1) /\ a + 1 \in 0 .. n
    BY <1>3, <1>4 DEF LeftIs
  <2>3. Turns >= 3 * (n - a) - 1
    BY <1>1, <2>1, <2>2 DEF Turns
  <2>4. Turns' <= 3 * (n - (a + 1)) + 1 /\ Turns' \in Int /\ Turns \in Int
    BY <1>1, <1>4, <2>1, <2>2 DEF Turns
  <2> QED BY <2>1, <2>2, <2>3, <2>4
<1>6. Below(Measure', Measure)
  BY <1>1, <1>4, <1>5, TurnsBelow
<1>7. TurnInv'
  BY <1>1, <1>4 DEF TurnInv
<1> QED BY <1>6, <1>7

LEMMA LoopsTurns ==
    ASSUME SortInv, TurnInv, Loops
    PROVE  TurnInv' /\ Below(Measure', Measure)
<1>1. /\ ListInv /\ OrderInv /\ srt \in Sorts /\ srt.at # "off" /\ at \in {"init", "sort", "index"}
      /\ UNCHANGED << at, i, find_num, remover >> /\ (MergeStart \/ MergeEnd)
  BY DEF SortInv, Loops, MergeStart, MergeEnd, bench, ListInv, ListType
<1>2. PICK u, n, a, r : Lists(u, n, Cells) /\ Split(u, n, a) /\ InSort(u, n, a, r)
  BY <1>1 DEF OrderInv
<1>3. LeftIs(n, a)
  BY <1>1, <1>2, LeftCells
<1>4. /\ N \in Nat /\ n = N /\ a \in 0 .. n /\ Left = n - a /\ srt.psize \in Nat /\ srt.qsize \in Nat
      /\ srt.insize \in Nat \ {0} /\ srt.nmerges \in Nat
  BY <1>1, <1>3, SizeFacts DEF LeftIs, Sorts
<1>5. CASE MergeStart
  <2>1. /\ srt.at = "pass" /\ srt.p # Nil /\ srt'.at = "merge" /\ srt'.insize = srt.insize
        /\ srt'.nmerges = srt.nmerges + 1
    BY <1>1, <1>5 DEF MergeStart, Sorts
  <2>2. Split(u, n, a)' /\ ListInv' /\ srt'.psize = IF n - a < srt.insize THEN n - a ELSE srt.insize
    BY <1>1, <1>2, <1>5, MergeStartSplit
  <2>3. LeftIs(n, a)'
    BY <1>2, <2>1, <2>2, LeftNext
  <2>4. a # n /\ Left' = n - a
    BY <1>3, <2>1, <2>3 DEF LeftIs
  <2>5. Turns' < Turns
    <3>1. Turns = 3 * (n - a)
      BY <1>4, <2>1 DEF Turns
    <3>2. srt'.psize # 0
      BY <1>4, <2>2, <2>4
    <3>3. Turns' = 3 * (n - a) - 1
      BY <2>1, <2>4, <3>2 DEF Turns, PEmpty
    <3> QED BY <1>4, <3>1, <3>3
  <2>6. Below(Measure', Measure)
    BY <1>1, <2>1, <2>5, TurnsBelow
  <2>7. ASSUME srt.nmerges = 1 PROVE srt.insize < N
    <3>1. a # 0
      BY <1>1, <1>3, <2>1, <2>7 DEF TurnInv, LeftIs
    <3>2. PICK g, t : g = Key /\ t = Touched
      OBVIOUS
    <3>3. PICK L : Runs(L, u, n, 0, a, 2 * srt.insize, g, t, r)
      BY <1>2, <2>1, <3>2 DEF InSort, PassOrder
    <3>4. End(0, 2 * srt.insize, n) \in 0 .. a
      <4>1. L \subseteq 0 .. a /\ 0 \in L /\ \A e \in L : e < a => End(e, 2 * srt.insize, n) \in L
        BY <3>3, Zenon DEF Runs
      <4>2. 0 < a
        BY <1>4, <3>1
      <4> QED BY <4>1, <4>2
    <3> QED BY <1>4, <2>4, <3>4 DEF End
  <2>8. TurnInv'
    BY <1>1, <1>4, <2>1, <2>7 DEF TurnInv
  <2> QED BY <2>6, <2>8
<1>6. CASE MergeEnd
  <2>1. /\ srt.at = "merge" /\ srt'.at = "pass" /\ srt'.insize = srt.insize /\ PEmpty /\ QEmpty
        /\ srt'.nmerges = srt.nmerges
    BY <1>1, <1>6 DEF MergeEnd, Sorts
  <2>2. Split(u, n, a)' /\ ListInv'
    BY <1>1, <1>2, <1>6, MergeEndSplit
  <2>3. LeftIs(n, a)'
    BY <1>2, <2>1, <2>2, LeftNext
  <2>4. Turns' < Turns
    <3>1. Turns = 3 * (n - a) + 1
      BY <1>4, <2>1 DEF Turns
    <3>2. Turns' = 3 * (n - a)
      BY <2>1, <2>3 DEF Turns, LeftIs
    <3> QED BY <1>4, <3>1, <3>2
  <2>5. Below(Measure', Measure)
    BY <1>1, <2>1, <2>4, TurnsBelow
  <2>6. a # 0
    <3>1. PICK b, z : b = a + srt.psize /\ z = End(b, srt.qsize, n)
      OBVIOUS
    <3>2. MergeAt(u, n, a, b, z)
      BY <1>1, <1>2, <2>1, <3>1, SplitAt
    <3>3. a = b
      BY <2>1, <3>2 DEF MergeAt
    <3>4. PICK g, t : g = Key /\ t = Touched
      OBVIOUS
    <3>5. InMerge(u, n, a, b, z, srt.insize, srt.nmerges, g, t, r)
      BY <1>2, <2>1, <3>1, <3>4 DEF InSort
    <3>6. PICK o \in 0 .. n - 1 : MergeOrder(u, a, b, z, o, g, t, r)
      BY <3>5 DEF InMerge
    <3> QED BY <1>4, <3>3, <3>6 DEF MergeOrder
  <2>7. srt'.tail # Nil
    BY <2>3, <2>6 DEF LeftIs
  <2>8. TurnInv'
    BY <1>1, <2>1, <2>7 DEF TurnInv
  <2> QED BY <2>5, <2>8
<1> QED BY <1>1, <1>5, <1>6

LEMMA CallTurns ==
    ASSUME SortInv, TurnInv, SortCall
    PROVE  TurnInv' /\ Below(Measure', Measure)
<1>1. /\ UNCHANGED << at, i, find_num >> /\ at \in {"init", "sort", "index"} /\ srt.at = "off"
      /\ srt'.at = "pass" /\ srt'.insize = 1 /\ srt'.nmerges = 0
  BY DEF SortCall, SortStart, Off, bench
<1>2. N \in Nat /\ N >= 3
  BY SizeFacts
<1>3. Phase' = Phase /\ Finds' = Finds
  BY <1>1 DEF Phase, Finds
<1>4. Passes' < Passes
  BY <1>1, <1>2 DEF Passes
<1>5. TurnInv'
  BY <1>1, <1>2 DEF TurnInv
<1> QED BY <1>3, <1>4, <1>5 DEF Below, Measure

LEMMA PassTurns ==
    ASSUME SortInv, TurnInv, SortPass
    PROVE  TurnInv' /\ Below(Measure', Measure)
<1>1. /\ UNCHANGED << i, find_num >> /\ at \in {"init", "sort", "index"} /\ srt.at = "pass"
      /\ srt.insize \in Nat \ {0} /\ srt.nmerges \in Nat /\ N \in Nat
  BY SizeFacts DEF SortPass, PassEnd, SortInv, ListInv, ListType, Sorts
<1>2. CASE srt.nmerges <= 1
  <2>1. srt'.at = "off" /\ at' = CASE at = "sort" -> "remove" [] at = "init" -> "ready" [] OTHER -> "return"
    BY <1>2 DEF SortPass, PassEnd, Off
  <2>2. Phase' < Phase
    BY <1>1, <2>1 DEF Phase
  <2>3. TurnInv'
    BY <1>1, <2>1 DEF TurnInv
  <2> QED BY <2>2, <2>3 DEF Below, Measure
<1>3. CASE srt.nmerges > 1
  <2>1. at' = at /\ srt'.at = "pass" /\ srt'.insize = 2 * srt.insize /\ srt'.nmerges = 0
    <3>1. ~(srt.nmerges <= 1)
      BY <1>1, <1>3
    <3>2. srt'.at = "pass" /\ srt'.insize = 2 * srt.insize /\ srt'.nmerges = 0
      BY <3>1 DEF SortPass, PassEnd, Off, NextSize
    <3> QED BY <3>2 DEF SortPass
  <2>2. Phase' = Phase /\ Finds' = Finds
    BY <1>1, <2>1 DEF Phase, Finds
  <2>3. Passes' < Passes
    BY <1>1, <2>1 DEF Passes
  <2>4. TurnInv'
    BY <1>1, <1>3, <2>1 DEF TurnInv
  <2> QED BY <2>2, <2>3, <2>4 DEF Below, Measure
<1> QED BY <1>1, <1>2, <1>3

LEMMA OtherTurns ==
    ASSUME SortInv, TurnInv, Begin \/ Find \/ FindsDone \/ Remove \/ Undo \/ Return
    PROVE  TurnInv' /\ (at \notin {"ready", "return"} => Below(Measure', Measure))
<1>1. /\ srt' = srt /\ find_num' = find_num /\ srt.at = "off"
      /\ at \in {"init", "ready", "find", "sort", "remove", "undo", "index", "return"}
  BY DEF Begin, Find, FindsDone, Remove, Undo, Return, Rest, SortInv, ListInv, ListType
<1>2. CASE Begin
  <2>1. at = "ready" /\ i' = 0
    BY <1>2 DEF Begin
  <2> QED BY <1>1, <2>1 DEF TurnInv
<1>3. CASE Find
  <2>1. at = "find" /\ at' = at /\ i < find_num /\ i' = i + 1
    BY <1>3 DEF Find
  <2>2. Phase' = Phase /\ Finds' < Finds
    BY <1>1, <2>1 DEF Phase, Finds, TurnInv
  <2>3. TurnInv'
    BY <1>1, <2>1 DEF TurnInv
  <2> QED BY <2>2, <2>3 DEF Below, Measure
<1>4. CASE FindsDone
  <2>1. at = "find" /\ at' \in {"sort", "remove"}
    BY <1>4 DEF FindsDone
  <2>2. Phase' < Phase /\ TurnInv'
    BY <1>1, <2>1 DEF Phase, TurnInv
  <2> QED BY <2>2 DEF Below, Measure
<1>5. CASE Remove
  <2>1. at = "remove" /\ at' = "undo"
    BY <1>5 DEF Remove
  <2>2. Phase' < Phase /\ TurnInv'
    BY <1>1, <2>1 DEF Phase, TurnInv
  <2> QED BY <2>2 DEF Below, Measure
<1>6. CASE Undo
  <2>1. at = "undo" /\ at' = "index"
    BY <1>6 DEF Undo
  <2>2. Phase' < Phase /\ TurnInv'
    BY <1>1, <2>1 DEF Phase, TurnInv
  <2> QED BY <2>2 DEF Below, Measure
<1>7. CASE Return
  <2>1. at = "return" /\ at' = "ready"
    BY <1>7 DEF Return
  <2> QED BY <1>1, <2>1 DEF TurnInv
<1> QED BY <1>2, <1>3, <1>4, <1>5, <1>6, <1>7

LEMMA TurnsStep ==
    SortInv /\ TurnInv /\ [Next]_vars =>
        TurnInv' /\ [at \notin {"ready", "return"} => Below(Measure', Measure)]_vars
<1> SUFFICES ASSUME SortInv, TurnInv, [Next]_vars
             PROVE  TurnInv' /\ [at \notin {"ready", "return"} => Below(Measure', Measure)]_vars
  OBVIOUS
<1>1. CASE Next
  BY <1>1, MergeTurns, LoopsTurns, CallTurns, PassTurns, OtherTurns DEF Next
<1>2. CASE UNCHANGED vars
  BY <1>2 DEF TurnInv, vars, bench
<1> QED BY <1>1, <1>2

\* What is left is four natural numbers.
LEMMA MeasureType == SortInv /\ TurnInv => Measure \in Nat \X Nat \X Nat \X Nat
<1> SUFFICES ASSUME SortInv, TurnInv PROVE Measure \in Nat \X Nat \X Nat \X Nat
  OBVIOUS
<1>1. Phase \in Nat
  BY DEF Phase
<1>2. Finds \in Nat
  BY DEF Finds, TurnInv
<1>3. ListInv /\ srt \in Sorts /\ N \in Nat
  BY SizeFacts DEF SortInv, ListInv, ListType
<1>4. srt.insize \in Nat /\ srt.nmerges \in Nat /\ srt.at \in {"off", "pass", "merge"}
  BY <1>3 DEF Sorts
<1>5. Passes \in Nat
  <2>1. srt.at # "off" => srt.insize < 2 * N
    BY <1>3, <1>4 DEF TurnInv
  <2> QED BY <1>3, <1>4, <2>1 DEF Passes
<1>6. Turns \in Nat
  <2>1. CASE srt.at = "off"
    BY <2>1 DEF Turns
  <2>2. CASE srt.at # "off"
    <3>1. PICK u, n, a : Lists(u, n, Cells) /\ Split(u, n, a)
      BY <1>3, <2>2 DEF ListInv
    <3>2. LeftIs(n, a)
      BY <1>3, <2>2, <3>1, LeftCells
    <3>3. Left \in Nat /\ (~PEmpty => Left > 0)
      BY <1>3, <3>2 DEF LeftIs, PEmpty
    <3> QED BY <1>4, <2>2, <3>3 DEF Turns
  <2> QED BY <2>1, <2>2
<1> QED BY <1>1, <1>2, <1>5, <1>6 DEF Measure

LEMMA TurnInvariant == Spec => []TurnInv
<1>1. Init => TurnInv
  BY ValueAssumption DEF Init, TurnInv, Off
<1>2. SortInv /\ TurnInv /\ [Next]_vars => TurnInv'
  BY TurnsStep
<1> QED BY <1>1, <1>2, SortInvariant, PTL DEF Spec

\* Every step of core_list_init and of a call of core_bench_list brings it
\* nearer to its return, whatever the seeds and the size of the list, and what
\* it finds: the passes of the merge sort double their runs until one merge is
\* enough, and the turns of a pass use up the list (core_list_join.c:423-497).
\* As no word can be lowered for ever (NoDescent), each call ends if the
\* program goes on.
THEOREM EveryStepAdvances ==
    Spec => /\ [](Measure \in Nat \X Nat \X Nat \X Nat)
            /\ [][at \notin {"ready", "return"} => Below(Measure', Measure)]_vars
<1>1. SortInv /\ TurnInv /\ [Next]_vars => [at \notin {"ready", "return"} => Below(Measure', Measure)]_vars
  BY TurnsStep
<1>2. SortInv /\ TurnInv => Measure \in Nat \X Nat \X Nat \X Nat
  BY MeasureType
<1> QED BY <1>1, <1>2, SortInvariant, TurnInvariant, PTL DEF Spec

=============================================================================
