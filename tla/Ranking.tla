------------------------------- MODULE Ranking -------------------------------
(***************************************************************************)
(* The sort of hw4/lib.c and the merge of hw4/server.c, on the two         *)
(* parallel arrays they work on, and the order they are meant to produce.  *)
(*                                                                         *)
(* Arrays are functions from 0 .. n - 1, as in C.  A string is a movie's    *)
(* title, what a missing terminator appends to it (tail), and how often    *)
(* add_secret() has extended it.                                           *)
(***************************************************************************)
EXTENDS Integers, Sequences, FiniteSets

CONSTANT Title      \* Title[f]: the rank of f's title under strcmp()

String(f, tail) == [film |-> f, tail |-> tail, secret |-> 0]
AddSecret(str) == [str EXCEPT !.secret = @ + 1]

\* strcmp(a, b) < 0.  No title is taken to be the beginning of another one.
StrLess(a, b) ==
    \/ Title[a.film] < Title[b.film]
    \/ /\ Title[a.film] = Title[b.film]
       /\ \/ a.tail < b.tail
          \/ a.tail = b.tail /\ a.secret < b.secret

-----------------------------------------------------------------------------
(* sort() of lib.c, on the slots l .. r - 1 of the arrays a.mv and a.sc.    *)

\* argmax() among the slots S: the highest score, of these the least title.
\* Slots that are alike in both are not told apart.
ArgMax(a, S) ==
    CHOOSE k \in S :
        \A j \in S : \/ a.sc[j] < a.sc[k]
                     \/ a.sc[j] = a.sc[k] /\ ~StrLess(a.mv[j], a.mv[k])

\* The slots in the order in which the loop selects and swaps them to the front;
\* one turn of it takes the best of those that are left.
Selected(a, l, r) ==
    LET slots == l .. r - 1
        turn == [was \in [order : Seq(slots), left : SUBSET slots] |->
                    [order |-> Append(was.order, ArgMax(a, was.left)),
                     left |-> was.left \ {ArgMax(a, was.left)}]]
        after[n \in 0 .. r - l] ==
            IF n = 0 THEN [order |-> <<>>, left |-> slots] ELSE turn[after[n - 1]]
    IN  after[r - l].order

\* The array x in which slot n of l .. r - 1 holds what slot order[n - l + 1] held.
Moved(x, l, order) ==
    [n \in DOMAIN x |-> IF n \in l .. l + Len(order) - 1 THEN x[order[n - l + 1]]
                                                        ELSE x[n]]

Sort(a, l, r) ==
    LET moved == Moved(a.mv, l, Selected(a, l, r))
    IN [mv |-> [n \in DOMAIN a.mv |->
                   IF n \in l .. r - 1 THEN AddSecret(moved[n]) ELSE moved[n]],
        sc |-> Moved(a.sc, l, Selected(a, l, r))]

-----------------------------------------------------------------------------
(* The merge of the sorted parts l .. mid - 1 and mid .. r - 1.             *)

\* Whether the loop takes slot p of the left part rather than q of the right.
TakeLeft_scoresOnly(a, p, q, mid, r) ==
    q = r \/ (p # mid /\ a.sc[p] >= a.sc[q])
TakeLeft(a, p, q, mid, r) ==
    \/ q = r
    \/ /\ p # mid
       /\ \/ a.sc[p] > a.sc[q]
          \/ a.sc[p] = a.sc[q] /\ StrLess(a.mv[p], a.mv[q])

\* The slots in the order in which the loop takes them.
Merged(a, l, mid, r) ==
    LET turn == [was \in [order : Seq(l .. r - 1), lptr : l .. mid, rptr : mid .. r] |->
                    IF TakeLeft(a, was.lptr, was.rptr, mid, r)
                    THEN [was EXCEPT !.order = Append(@, was.lptr), !.lptr = @ + 1]
                    ELSE [was EXCEPT !.order = Append(@, was.rptr), !.rptr = @ + 1]]
        after[n \in 0 .. r - l] ==
            IF n = 0 THEN [order |-> <<>>, lptr |-> l, rptr |-> mid]
            ELSE turn[after[n - 1]]
    IN  after[r - l].order

Merge_toFront(a, l, mid, r) ==
    [mv |-> Moved(a.mv, 0, Merged(a, l, mid, r)),
     sc |-> Moved(a.sc, 0, Merged(a, l, mid, r))]
Merge(a, l, mid, r) ==
    [mv |-> Moved(a.mv, l, Merged(a, l, mid, r)),
     sc |-> Moved(a.sc, l, Merged(a, l, mid, r))]

-----------------------------------------------------------------------------
(* The reference: matching movies by falling score, then by title.          *)

\* Slot m may stand before slot n.
InOrder(a, m, n) ==
    \/ a.sc[m] > a.sc[n]
    \/ a.sc[m] = a.sc[n] /\ Title[a.mv[m].film] <= Title[a.mv[n].film]

Before(score, f, g) ==
    \/ score[f] > score[g]
    \/ score[f] = score[g] /\ Title[f] < Title[g]
    \/ score[f] = score[g] /\ Title[f] = Title[g] /\ f < g

Ranked(match, score) ==
    [i \in 1 .. Cardinality(match) |->
        LET f == CHOOSE f \in match :
                    Cardinality({g \in match : Before(score, g, f)}) = i - 1
        IN [title |-> Title[f], secret |-> 1]]
=============================================================================
