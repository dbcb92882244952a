------------------------------ MODULE CoreList ------------------------------
(***************************************************************************)
(* The linked list of CoreMark (coremark/coremark_v1.0/core_list_join.c):  *)
(* cells that point to the next cell and to an item.  A heap h has the     *)
(* fields next and info, and the items' data16 and idx.                    *)
(***************************************************************************)
EXTENDS Integers, Sequences, FiniteSets

CONSTANTS Cells, Items, Nil

ASSUME NilAssumption == Nil \notin Cells

Heaps == [next : [Cells -> Cells \cup {Nil}], info : [Cells -> Items]]

\* The cells from l on, in order; at most as many as there are.
Chain(h, l) ==
    LET N == Cardinality(Cells)
        cell[k \in 1 .. N + 1] ==
            IF k = 1 THEN l
            ELSE IF cell[k - 1] = Nil THEN Nil ELSE h.next[cell[k - 1]]
        upto == {k \in 1 .. N + 1 : cell[k] # Nil}
    IN [k \in 1 .. Cardinality(upto) |-> cell[k]]

InfoSeq(h, l) == [k \in DOMAIN Chain(h, l) |-> h.info[Chain(h, l)[k]]]

Low(data)    == data % 256
High(data)   == data \div 256
Wanted(data, idx, want) ==
    IF want.idx >= 0 THEN idx = want.idx ELSE Low(data) = want.data16

\* The first cell whose item is wanted, by idx if that is not negative.
core_list_find(h, l, data16, idx, want) ==
    LET c == Chain(h, l)
        hits == {k \in DOMAIN c : Wanted(data16[h.info[c[k]]], idx[h.info[c[k]]], want)}
    IN IF hits = {} THEN Nil ELSE c[CHOOSE k \in hits : \A j \in hits : k <= j]

\* Each cell of the list points to the one before it.
core_list_reverse(h, l) ==
    LET c == Chain(h, l) IN
    [h EXCEPT !.next = [x \in Cells |->
        IF \E k \in DOMAIN c : c[k] = x
        THEN LET k == CHOOSE k \in DOMAIN c : c[k] = x IN IF k = 1 THEN Nil ELSE c[k - 1]
        ELSE h.next[x]]]

LastCell(h, l) == Chain(h, l)[Len(Chain(h, l))]

\* The item of the next cell is copied here and the next cell is unlinked; it
\* keeps this cell's item.
Removed(h, item) == h.next[item]
core_list_remove(h, item) ==
    LET ret == h.next[item] IN
    [h EXCEPT !.info[item] = h.info[ret], !.info[ret] = h.info[item],
              !.next[item] = h.next[ret], !.next[ret] = Nil]

core_list_undo_remove(h, removed, modified) ==
    [h EXCEPT !.info[removed] = h.info[modified], !.info[modified] = h.info[removed],
              !.next[removed] = h.next[modified], !.next[modified] = removed]

=============================================================================
