--------------------------- MODULE CoreBenchList ---------------------------
(***************************************************************************)
(* core_list_init and core_bench_list of CoreMark: the list is built,      *)
(* then searched, reversed, sorted by data, a cell removed and put back,   *)
(* and sorted by index, "in effect returning the list to original state".  *)
(* iterate calls the benchmark with finder_idx 1 and then -1.              *)
(*                                                                         *)
(* The CRCs, which only read the list, are left out, and what the state    *)
(* and the matrix benchmark return is any value of Values.                 *)
(***************************************************************************)
EXTENDS CoreListSort, CoreBits

CONSTANTS
    Size,      \* (blksize / 20) - 2; the block holds one cell less
    Seeds,     \* the seeds 1 of a run
    FindNums,  \* the seeds 3: how many finds
    Values     \* the values of 7 bits of the two other benchmarks

ASSUME SizeAssumption ==
    Size \in Nat /\ Size >= 4 /\ Cells = 1 .. Size - 1 /\ Items = Cells

ASSUME ValueAssumption ==
    /\ Seeds \subseteq Nat /\ \A s \in Seeds : s < 65536
    /\ FindNums \subseteq Nat
    /\ Values \subseteq Nat /\ \A v \in Values : v < 128

VARIABLES
    data16, idx,  \* of the items
    at,           \* where core_bench_list is
    i,            \* the loop counter
    want,         \* info: what is searched for
    finder_idx,
    remover,      \* the removed cell
    seed, find_num,
    before,       \* history: the items when the sort began
    original      \* history: the items and their data after core_list_init

bench == << at, i, want, finder_idx, remover, seed, find_num >>
vars  == << h, list, srt, data16, idx, bench, before, original >>

----------------------------------------------------------------------------
\* core_list_init.  Cell 1 is the head, cell 2 the tail; the items are
\* inserted behind the head one after the other, so that the last is first.

InitData(k, s) ==
    LET n == k - 3
        dat == or((xor(s, n) % 16) * 8, n % 8)
    IN CASE k = 1 -> 32896 [] k = 2 -> 65535 [] OTHER -> dat * 256 + dat

\* The index of the cell in place n of the list: the first fifth in order,
\* the rest by a pattern of the seed.
InitIdx(k, s) ==
    LET n == Size - k
    IN CASE k = 1 -> 0 [] k = 2 -> 32767
         [] k >= 3 /\ n < Size \div 5 -> n
         [] OTHER -> or(((n + 1) % 8) * 256, xor(n, s)) % 16384

InitNext(k) == CASE k = 1 -> Size - 1 [] k = 2 -> Nil [] OTHER -> k - 1

Init ==
    /\ seed \in Seeds /\ find_num \in FindNums
    /\ h = [next |-> [k \in Cells |-> InitNext(k)], info |-> [k \in Cells |-> k]]
    /\ data16 = [k \in Items |-> InitData(k, seed)]
    /\ idx = [k \in Items |-> InitIdx(k, seed)]
    /\ list = 1 /\ srt = Off
    /\ at = "init" /\ i = 0 /\ finder_idx = 1 /\ remover = Nil
    /\ want = [idx |-> 0, data16 |-> 0]
    /\ before = << >> /\ original = << >>

----------------------------------------------------------------------------
\* The comparisons.

Cached(x) == (data16[x] \div 128) % 2 = 1

\* calc_func: the cached value, else one that is computed and cached.
CalcValues(x) ==
    IF Cached(x) \/ data16[x] % 8 > 1 THEN {data16[x] % 128} ELSE Values

Cache_Whole(data, x, v) == [data EXCEPT ![x] = 128 + v]
Cache(data, x, v) == [data EXCEPT ![x] = (@ - (@ % 256)) + 128 + v]

\* The data regained from its upper half.
Regained(data, x) == [data EXCEPT ![x] = (@ - (@ % 256)) + High(@)]

\* cmp(p, q) <= 0: p's item comes first.
First_Strict(v, w) == v < w
First(v, w) == v <= w

\* The sort by data compares values, the sort by index regains the data.
ByData == at = "sort"

Sorting(first, second) ==
    LET a == h.info[srt.p]
        b == h.info[srt.q]
    IN IF ByData
       THEN \E v \in CalcValues(a), w \in CalcValues(b) :
               /\ data16' = Cache(Cache(data16, a, v), b, w)
               /\ IF First(v, w) THEN first ELSE second
       ELSE /\ data16' = Regained(Regained(data16, a), b)
            /\ IF First(idx[a], idx[b]) THEN first ELSE second

Merge ==
    /\ \/ Compare /\ Sorting(TakeP, TakeQ)
       \/ ~Compare /\ (TakeP \/ TakeQ) /\ UNCHANGED data16
    /\ UNCHANGED << idx, bench, before, original >>

Loops ==
    /\ MergeStart \/ MergeEnd
    /\ UNCHANGED << data16, idx, bench, before, original >>

----------------------------------------------------------------------------
Rest == << data16, idx, finder_idx, seed, find_num, original >>

\* The calls of core_list_mergesort: in core_list_init, by data, by index.
SortCall ==
    /\ at \in {"init", "sort", "index"}
    /\ SortStart
    /\ before' = InfoSeq(h, list)
    /\ UNCHANGED << bench, data16, idx, original >>

\* Its return.
SortPass ==
    /\ PassEnd
    /\ IF srt'.at = "off"
       THEN /\ at' = CASE at = "sort" -> "remove" [] at = "init" -> "ready" [] OTHER -> "return"
            /\ original' = IF at = "init" THEN << InfoSeq(h', list), data16 >> ELSE original
       ELSE UNCHANGED << at, original >>
    /\ UNCHANGED << i, want, finder_idx, remover, seed, find_num, data16, idx, before >>

Begin ==
    /\ at = "ready"
    /\ at' = "find" /\ i' = 0 /\ want' = [idx |-> finder_idx, data16 |-> 0]
    /\ UNCHANGED << h, list, srt, remover, before, Rest >>

\* The cell after this one moves to behind the head.
Hoist_NotCut(g, head, this) ==
    LET finder == g.next[this]
    IN IF this = Nil \/ finder = Nil THEN g
       ELSE [g EXCEPT !.next[finder] = g.next[head], !.next[head] = finder]
Hoist(g, head, this) ==
    LET finder == g.next[this]
        cut == [g EXCEPT !.next[this] = g.next[finder]]
    IN IF this = Nil \/ finder = Nil THEN g
       ELSE [cut EXCEPT !.next[finder] = cut.next[head], !.next[head] = finder]

Find ==
    LET w    == [want EXCEPT !.data16 = i % 256]
        this == core_list_find(h, list, data16, idx, w)
        head == LastCell(h, list)
        back == core_list_reverse(h, list)
    IN /\ at = "find" /\ i < find_num
       /\ h' = IF this = Nil THEN back ELSE Hoist(back, head, this)
       /\ list' = head
       /\ want' = [w EXCEPT !.idx = IF @ >= 0 THEN @ + 1 ELSE @]
       /\ i' = i + 1
       /\ UNCHANGED << srt, at, remover, before, Rest >>

FindsDone ==
    /\ at = "find" /\ i = find_num
    /\ at' = IF finder_idx > 0 THEN "sort" ELSE "remove"
    /\ UNCHANGED << h, list, srt, i, want, remover, before, Rest >>

Remove ==
    /\ at = "remove"
    /\ remover' = Removed(h, h.next[list])
    /\ h' = core_list_remove(h, h.next[list])
    /\ at' = "undo"
    /\ UNCHANGED << list, srt, i, want, before, Rest >>

Undo ==
    /\ at = "undo"
    /\ h' = core_list_undo_remove(h, remover, h.next[list])
    /\ remover' = Nil
    /\ at' = "index"
    /\ UNCHANGED << list, srt, i, want, before, Rest >>

\* iterate: the second call is with -1, and after it the next iteration.
Return ==
    /\ at = "return"
    /\ at' = "ready" /\ finder_idx' = -finder_idx
    /\ UNCHANGED << h, list, srt, i, want, remover, data16, idx, seed, find_num, before, original >>

Next == \/ Merge \/ Loops \/ SortCall \/ SortPass
        \/ Begin \/ Find \/ FindsDone \/ Remove \/ Undo \/ Return

Spec == Init /\ [][Next]_vars
FairSpec == Spec /\ WF_vars(Next)

=============================================================================
