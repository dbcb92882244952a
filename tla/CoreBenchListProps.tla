------------------------- MODULE CoreBenchListProps -------------------------
(***************************************************************************)
(* That the list survives the benchmark.                                   *)
(***************************************************************************)
EXTENDS CoreBenchList

Positions(s, x) == {k \in DOMAIN s : s[k] = x}
Line == IF srt.at = "off" THEN Chain(h, list) ELSE Merged \o RestP \o RestQ
EachOnce(s, S) == Len(s) = Cardinality(S) /\ \A x \in S : Positions(s, x) # {}

\* Before or at the same place in the order the sort is to establish.
InOrder(x, y) ==
    IF at = "remove" THEN data16[x] % 128 <= data16[y] % 128 ELSE idx[x] <= idx[y]

----------------------------------------------------------------------------

\* Whatever the sort, a find, a reversal or a removal has done to the
\* pointers, no cell is lost and none is linked twice: in the middle of a
\* merge the merged cells, the rest of p's run and q's run with what follows
\* it are the whole list, and a removed cell is the only one missing.
NoCellLost ==
    /\ EachOnce(Line, Cells \ {remover})
    /\ \A x, y \in Cells : h.info[x] = h.info[y] => x = y

\* When a sort returns the list is sorted, and items that compare equal are
\* in the order they had: the sort is stable.
SortedStably ==
    \/ srt.at # "off" \/ at \notin {"ready", "remove", "return"} \/ before = << >>
    \/ at = "remove" /\ finder_idx < 0
    \/ LET now == InfoSeq(h, list) IN
       \A k \in 1 .. Len(now) - 1 :
          LET x == now[k]
              y == now[k + 1]
          IN InOrder(x, y) /\ (InOrder(y, x) =>
                \E a \in Positions(before, x), b \in Positions(before, y) : a < b)

\* "At the end of this function, the list is back to original state"
\* (core_list_join.c:131): the items are in their first order, unless two have
\* the same index, and hold their first data, whatever was found, hoisted,
\* computed, cached and removed.
BackToOriginal ==
    at \in {"ready", "return"} =>
        /\ data16 = original[2]
        /\ (\A x, y \in Items : idx[x] = idx[y] => x = y) => InfoSeq(h, list) = original[1]

\* The set-up and each call of the benchmark return: no sort goes round a cycle.
Returns == (at \in {"init", "find"}) ~> (at \in {"ready", "return"})

=============================================================================
