----------------------------- MODULE Recommender -----------------------------
(***************************************************************************)
(* What the recommendation servers of hw4 promise, without threads,        *)
(* processes and arrays: whatever stands in the answer to a request is the *)
(* beginning of the ranking of the movies that match it; it grows, is never *)
(* revised, and is the whole ranking once it is closed.  A server that goes *)
(* down leaves an answer as it is.                                         *)
(***************************************************************************)
EXTENDS Ranking

CONSTANTS Request, Cases

VARIABLES
    input,      \* the requests the server was started with
    answer,     \* answer[q]: what stands in the answer to request q
    closed      \* the requests whose answers are complete

Init == /\ input \in Cases
        /\ answer = [q \in Request |-> <<>>]
        /\ closed = {}

Promised(q) == Ranked(input[q].match, input[q].score)

Write(q) ==
    LET whole == Promised(q)
    IN  /\ q \in DOMAIN input \ closed
        /\ \E n \in Len(answer[q]) + 1 .. Len(whole) :
               answer' = [answer EXCEPT ![q] = SubSeq(whole, 1, n)]
        /\ UNCHANGED <<input, closed>>

Close(q) ==
    /\ q \in DOMAIN input \ closed
    /\ answer' = [answer EXCEPT ![q] = Promised(q)]
    /\ closed' = closed \cup {q}
    /\ UNCHANGED input

Next == \E q \in Request : Write(q) \/ Close(q)

RecommenderSpec == Init /\ [][Next]_<<input, answer, closed>>
=============================================================================
