--------------------------- MODULE CoreListSort ---------------------------
(***************************************************************************)
(* core_list_mergesort: the list is sorted in place in passes.  A pass     *)
(* merges neighbouring runs of insize cells, from p and from q, and links  *)
(* them behind tail; the last pass is the one that does one merge.         *)
(*                                                                         *)
(* A step is one turn of a loop.  The comparison is the caller's: it may   *)
(* change the data of the items it compares, and it says whether p's item  *)
(* comes first.                                                            *)
(***************************************************************************)
EXTENDS CoreList

VARIABLES
    h,       \* the heap
    list,    \* head of the list
    srt      \* the sort's variables; at is "off", "pass" or "merge"

Off == [at |-> "off", p |-> Nil, q |-> Nil, tail |-> Nil,
        insize |-> 1, nmerges |-> 0, psize |-> 0, qsize |-> 0]

SortStart ==
    /\ srt.at = "off"
    /\ srt' = [Off EXCEPT !.at = "pass", !.p = list]
    /\ list' = Nil
    /\ UNCHANGED h

\* q steps insize cells along from p, or falls off the end.
MergeStart ==
    LET c == Chain(h, srt.p)
        n == IF Len(c) < srt.insize THEN Len(c) ELSE srt.insize
    IN /\ srt.at = "pass" /\ srt.p # Nil
       /\ srt' = [srt EXCEPT !.at = "merge", !.nmerges = @ + 1, !.psize = n,
                             !.q = h.next[c[n]], !.qsize = srt.insize]
       /\ UNCHANGED << h, list >>

QEmpty  == srt.qsize = 0 \/ srt.q = Nil
PEmpty  == srt.psize = 0
Compare == srt.at = "merge" /\ ~PEmpty /\ ~QEmpty

\* e is added behind tail.
Link(e) ==
    /\ IF srt.tail = Nil THEN list' = e /\ UNCHANGED h
       ELSE h' = [h EXCEPT !.next[srt.tail] = e] /\ UNCHANGED list

TakeP ==
    /\ srt.at = "merge" /\ ~PEmpty
    /\ Link(srt.p)
    /\ srt' = [srt EXCEPT !.p = h.next[srt.p], !.psize = @ - 1, !.tail = srt.p]

TakeQ ==
    /\ srt.at = "merge" /\ ~QEmpty
    /\ Link(srt.q)
    /\ srt' = [srt EXCEPT !.q = h.next[srt.q], !.qsize = @ - 1, !.tail = srt.q]

MergeEnd ==
    /\ srt.at = "merge" /\ PEmpty /\ QEmpty
    /\ srt' = [srt EXCEPT !.at = "pass", !.p = srt.q]
    /\ UNCHANGED << h, list >>

NextSize_Same(insize) == insize
NextSize(insize) == 2 * insize

\* The pass is over: done after a single merge, else runs twice the size.
PassEnd ==
    /\ srt.at = "pass" /\ srt.p = Nil
    /\ h' = [h EXCEPT !.next[srt.tail] = Nil]
    /\ IF srt.nmerges <= 1
       THEN srt' = Off /\ UNCHANGED list
       ELSE /\ srt' = [Off EXCEPT !.at = "pass", !.p = list, !.insize = NextSize(srt.insize)]
            /\ list' = Nil

\* What one of the runs still has to give: the cells after the merged ones.
Merged == IF srt.tail = Nil THEN << >>
          ELSE LET c == Chain(h, list)
                   n == CHOOSE k \in DOMAIN c : c[k] = srt.tail /\ \A j \in 1 .. k - 1 : c[j] # srt.tail
               IN SubSeq(c, 1, n)
RestP  == IF srt.at = "merge" THEN SubSeq(Chain(h, srt.p), 1, srt.psize) ELSE << >>
RestQ  == Chain(h, IF srt.at = "merge" THEN srt.q ELSE srt.p)

=============================================================================
