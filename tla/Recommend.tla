------------------------------ MODULE Recommend ------------------------------
(***************************************************************************)
(* The recommendation servers of hw4/server.c.  The THREAD build starts a   *)
(* thread per request and a tree of merge sort threads under each; the     *)
(* PROCESS build answers the first request with a tree of processes that   *)
(* sort arrays in shared memory.  Workers are numbered as in a heap: the    *)
(* children of worker k are 2k and 2k + 1, and worker 1 sorts it all.      *)
(*                                                                         *)
(* A step is what one thread or process does between two points at which   *)
(* it creates, waits for or ends another one, or one call of sort().       *)
(***************************************************************************)
EXTENDS Ranking

CONSTANTS
    Film,       \* the indices of movies[], in the order of the data file
    Request,    \* 1 .. the number of requests a run may have
    Cases,      \* Cases[b]: the inputs of build b, THREAD or PROCESS: sequences
                \* of requests, see ReadRequest
    Small,      \* 10: fewer matches than that are one leaf, see Layer
    MaxReq,     \* MAX_REQ
    Room,       \* threads main() can start before it overwrites its own i
    Buffer,     \* the fewest lines that a full stdio buffer completes
    Dirty,      \* sets of slots whose copied titles are followed by garbage
    NoFile

Node == 1 .. 15
Children(k) == {2 * k, 2 * k + 1}
LastLayer == 3

\* What read_request() makes of a line: which movies the keyword matches and
\* the score of the normalised profile with each movie.
ReadRequest == [match : SUBSET Film, score : [Film -> Nat]]

Builds == DOMAIN Cases
Inputs == UNION {Cases[b] : b \in Builds}

ASSUME FilmAssumption == IsFiniteSet(Film) /\ Film \subseteq Nat
ASSUME TitleAssumption == Title \in [Film -> Nat]
ASSUME BuildAssumption == Builds \subseteq {"THREAD", "PROCESS"}
ASSUME SizeAssumption == /\ Small \in Nat /\ Small >= 4
                         /\ MaxReq \in Nat /\ Room \in Nat \ {0}
                         /\ Buffer \in Nat \ {0}
                         /\ Request \subseteq Nat \ {0} /\ 1 \in Request
ASSUME CaseAssumption ==
    \A in \in Inputs : in \in Seq(ReadRequest) /\ DOMAIN in \subseteq Request
ASSUME DirtyAssumption == Dirty # {} /\ Dirty \subseteq SUBSET Nat
ASSUME ValueAssumption == NoFile \notin Seq([film : Film, tail : Nat, secret : Nat])

VARIABLES
    build,      \* the build that runs
    input,      \* reqs[]
    flaw,       \* "number": one follows the last request; "genres": a line
                \* has too few of them; or "none"
    main,       \* main(): "load", "loop" (THREAD), "serve" (PROCESS), "exited"
                \* or "crashed"
    i,          \* the loop variable of main(): requests with a thread
    stage,      \* stage[q]: "none", "begin", "sort", "print" or "done"
    array,      \* array[q]: arr_movie and arr_score of the request
    arg,        \* arg[q][k]: l, r and layer of worker k
    pc,         \* pc[q][k]: where worker k is
    file        \* file[q]: the output file of the request

fixed == <<build, input, flaw>>
vars == <<build, input, flaw, main, i, stage, array, arg, pc, file>>

-----------------------------------------------------------------------------
\* The copies of the matching titles, in the order of movies[]; the THREAD
\* build copies no terminator.
Nth(match, n) == CHOOSE f \in match : Cardinality({g \in match : g < f}) = n
Copies(req, dirty) ==
    LET slots == 0 .. Cardinality(req.match) - 1
    IN [mv |-> [n \in slots |-> String(Nth(req.match, n),
                                       IF n \in dirty THEN 1 ELSE 0)],
        sc |-> [n \in slots |-> req.score[Nth(req.match, n)]]]

Layer_lower(n) == IF n < 2 * Small THEN 2 ELSE 1
Layer(n) == IF n < Small THEN 3
            ELSE IF n < 2 * Small THEN 2
            ELSE IF n < 4 * Small THEN 1 ELSE 0

Matches(q) == Cardinality(input[q].match)
Root(n) == [l |-> 0, r |-> n, layer |-> Layer(n)]
Mid(x) == (x.r + x.l) \div 2
LeftArg(x) == [l |-> x.l, r |-> Mid(x), layer |-> x.layer + 1]
RightArg_overlapping(x) == [l |-> Mid(x) - 1, r |-> x.r, layer |-> x.layer + 1]
RightArg(x) == [l |-> Mid(x), r |-> x.r, layer |-> x.layer + 1]

Running == main # "crashed"

\* An access outside of the arrays ends a whole process.  With the main
\* process or any thread of it, everything is gone.
Crash == /\ main' = "crashed"
         /\ UNCHANGED <<fixed, i, stage, array, arg, pc, file>>

-----------------------------------------------------------------------------
(* main().                                                                  *)

Threads == build = "THREAD"

\* Too many requests fail an assertion; a second number is written to the
\* address that the first one is; strtod() is given NULL for a genre that is
\* not there; without a request reqs[0] is NULL.
SecondNumber == flaw = "number"
ShortLine == flaw = "genres"
BadInput == \/ Len(input) > MaxReq \/ SecondNumber \/ ShortLine
            \/ ~Threads /\ input = <<>>

Load ==
    /\ main = "load"
    /\ main' = IF BadInput THEN "crashed"
               ELSE IF ~Threads THEN "serve"
               ELSE IF input = <<>> THEN "exited" ELSE "loop"
    /\ stage' = [stage EXCEPT ![1] = IF main' = "serve" THEN "begin" ELSE @]
    /\ UNCHANGED <<fixed, i, array, arg, pc, file>>

\* The Room-th pthread_t that is stored lands on i, which ends the loop.
LoopEnds(n) == n = Len(input) \/ n = Room
CreateRequest ==
    /\ main = "loop"
    /\ i' = i + 1
    /\ stage' = [stage EXCEPT ![i + 1] = "begin"]
    /\ main' = IF LoopEnds(i + 1) THEN "exited" ELSE main
    /\ UNCHANGED <<fixed, array, arg, pc, file>>

-----------------------------------------------------------------------------
(* deal_request(), and the same code in main() of the PROCESS build.        *)

\* A single match is sorted without a worker.
Single_never(n) == FALSE
Single(n) == n = 1

Deal(q) ==
    /\ Running
    /\ stage[q] = "begin"
    /\ stage' = [stage EXCEPT ![q] = "sort"]
    /\ file' = [file EXCEPT ![q] = <<>>]
    /\ \E dirty \in IF Threads THEN Dirty ELSE {{}} :
           LET a == Copies(input[q], dirty)
               alone == Threads /\ Single(Matches(q))
           IN /\ array' = [array EXCEPT ![q] = IF alone THEN Sort(a, 0, 1) ELSE a]
              /\ pc' = [pc EXCEPT ![q][1] = IF alone THEN "done" ELSE "begin"]
    /\ arg' = [arg EXCEPT ![q][1] = Root(Matches(q))]
    /\ UNCHANGED <<fixed, main, i>>

Lines(a) == [n \in 1 .. Cardinality(DOMAIN a.mv) |-> a.mv[n - 1]]
Printing_unjoined(q) == /\ Running
                        /\ Threads \/ main = "serve"
                        /\ stage[q] \in {"sort", "print"}
                        /\ pc[q][1] # "begin"
Printing(q) == /\ Running
               /\ Threads \/ main = "serve"
               /\ stage[q] \in {"sort", "print"}
               /\ pc[q][1] = "done"

\* The loop of fprintf() writes its lines to the file whenever they fill stdio's
\* buffer.  A line of which a flush writes the beginning only is not counted.
Flush(q) ==
    /\ Printing(q)
    /\ \E n \in Len(file[q]) + Buffer .. Matches(q) :
           file' = [file EXCEPT ![q] = SubSeq(Lines(array[q]), 1, n)]
    /\ stage' = [stage EXCEPT ![q] = "print"]
    /\ UNCHANGED <<fixed, main, i, array, arg, pc>>

\* The last lines of the loop, which fclose() writes.
PrintAnswer(q) ==
    /\ Printing(q)
    /\ file' = [file EXCEPT ![q] = Lines(array[q])]
    /\ stage' = [stage EXCEPT ![q] = "done"]
    /\ main' = IF Threads THEN main ELSE "exited"
    /\ UNCHANGED <<fixed, i, array, arg, pc>>

-----------------------------------------------------------------------------
(* merge_sort() and process_merge_sort().                                   *)

At(q, k, where) == Running /\ pc[q][k] = where
Goes(q, k, where) == pc' = [pc EXCEPT ![q][k] = where]
Leaf(q, k) == arg[q][k].layer = LastLayer

Spawn(q, k, child, from, to, x) ==
    /\ At(q, k, from)
    /\ ~Leaf(q, k)
    /\ arg' = [arg EXCEPT ![q][child] = x]
    /\ pc' = [pc EXCEPT ![q][k] = to, ![q][child] = "begin"]
    /\ UNCHANGED <<fixed, main, i, stage, array, file>>

SpawnLeft(q, k) == Spawn(q, k, 2 * k, "begin", "half", LeftArg(arg[q][k]))
SpawnRight(q, k) == Spawn(q, k, 2 * k + 1, "half", "join", RightArg(arg[q][k]))

\* Both pthread_join()s; two times wait() for any child, whose status goes
\* to an address that is none.
Joined_left(q, k) == pc[q][2 * k] = "done"
Joined(q, k) == \A c \in Children(k) : pc[q][c] = "done"
Join(q, k) ==
    /\ At(q, k, "join")
    /\ Joined(q, k)
    /\ Goes(q, k, "merge")
    /\ UNCHANGED <<fixed, main, i, stage, array, arg, file>>

MergeParts(q, k) ==
    /\ At(q, k, "merge")
    /\ array' = [array EXCEPT ![q] =
                    Merge(@, arg[q][k].l, Mid(arg[q][k]), arg[q][k].r)]
    /\ Goes(q, k, "done")
    /\ UNCHANGED <<fixed, main, i, stage, arg, file>>

\* One call of sort() on the slots l .. r - 1, which writes movies[-1] when
\* there are none.
SortSlots(q, k, l, r, to) ==
    IF l = r THEN Crash
    ELSE /\ array' = [array EXCEPT ![q] = Sort(@, l, r)]
         /\ Goes(q, k, to)
         /\ UNCHANGED <<fixed, main, i, stage, arg, file>>

\* A thread of the last layer sorts its right half, then its left one.
SortRight(q, k) ==
    /\ Threads /\ At(q, k, "begin") /\ Leaf(q, k)
    /\ SortSlots(q, k, Mid(arg[q][k]), arg[q][k].r, "half")
SortLeft(q, k) ==
    /\ Threads /\ At(q, k, "half") /\ Leaf(q, k)
    /\ SortSlots(q, k, arg[q][k].l, Mid(arg[q][k]), "merge")

\* A process of the last layer sorts its whole part and copies the strings
\* into the shared buffers.
SortPart(q, k) ==
    /\ ~Threads /\ At(q, k, "begin") /\ Leaf(q, k) /\ k # 1
    /\ SortSlots(q, k, arg[q][k].l, arg[q][k].r, "done")

\* When that is the main process it exits as its children do.
SortAll(q, k) ==
    /\ ~Threads /\ At(q, k, "begin") /\ Leaf(q, k) /\ k = 1
    /\ main' = IF arg[q][k].l = arg[q][k].r THEN "crashed" ELSE "exited"
    /\ array' = [array EXCEPT ![q] = Sort(@, arg[q][k].l, arg[q][k].r)]
    /\ Goes(q, k, "done")
    /\ UNCHANGED <<fixed, i, stage, arg, file>>

Work(q, k) ==
    \/ SpawnLeft(q, k)
    \/ SpawnRight(q, k)
    \/ Join(q, k)
    \/ MergeParts(q, k)
    \/ SortRight(q, k)
    \/ SortLeft(q, k)
    \/ SortPart(q, k)
    \/ SortAll(q, k)

-----------------------------------------------------------------------------
Init ==
    /\ build \in Builds
    /\ input \in Cases[build]
    /\ flaw \in IF input = <<>> THEN {"none", "number"}
                ELSE {"none", "number", "genres"}
    /\ main = "load"
    /\ i = 0
    /\ stage = [q \in Request |-> "none"]
    /\ array = [q \in Request |-> Copies([match |-> {}, score |-> <<>>], {})]
    /\ arg = [q \in Request |-> [k \in Node |-> Root(0)]]
    /\ pc = [q \in Request |-> [k \in Node |-> "none"]]
    /\ file = [q \in Request |-> NoFile]

Serve(q) == Deal(q) \/ Flush(q) \/ PrintAnswer(q) \/ \E k \in Node : Work(q, k)

\* No thread and no process is left.
Over == \/ main = "crashed"
        \/ /\ main = "exited"
           /\ \A q \in Request : stage[q] = "none" \/ pc[q][1] = "done"
           /\ Threads => \A q \in Request : stage[q] \in {"none", "done"}
Terminated == Over /\ UNCHANGED vars

Next == Load \/ CreateRequest \/ Terminated \/ \E q \in Request : Serve(q)

Spec == Init /\ [][Next]_vars

\* Threads and processes that can run are run.
FairSpec == /\ Spec
            /\ WF_vars(Load \/ CreateRequest)
            /\ \A q \in Request : WF_vars(Serve(q))

-----------------------------------------------------------------------------
(* Properties.                                                              *)

\* The variables hold values the C types allow.
TypeOK ==
    /\ build \in Builds /\ input \in Inputs
    /\ flaw \in {"none", "number", "genres"}
    /\ main \in {"load", "loop", "serve", "exited", "crashed"}
    /\ i \in Nat
    /\ stage \in [Request -> {"none", "begin", "sort", "print", "done"}]
    /\ arg \in [Request -> [Node -> [l : Nat, r : Nat, layer : 0 .. LastLayer]]]
    /\ pc \in [Request -> [Node -> {"none", "begin", "half", "join", "merge", "done"}]]
    /\ \A q \in Request :
           /\ DOMAIN array[q].mv = DOMAIN array[q].sc
           /\ \A n \in DOMAIN array[q].mv : /\ array[q].mv[n].film \in Film
                                            /\ array[q].mv[n].secret \in 0 .. 1

\* The slots worker k may read or write where it stands.
Busy(q, k) == \/ pc[q][k] = "merge"
              \/ Leaf(q, k) /\ pc[q][k] \in {"begin", "half"}
Slots(q, k) == arg[q][k].l .. arg[q][k].r - 1

\* Without a lock, no two workers that may run at once touch the same slot,
\* none reaches outside of the arrays, and the results are not read while one
\* may still write.
RaceFree ==
    \A q \in Request, k \in Node :
        Busy(q, k) =>
            /\ Slots(q, k) \subseteq DOMAIN array[q].mv
            /\ stage[q] = "sort"
            /\ \A j \in Node \ {k} :
                   Busy(q, j) => Slots(q, k) \cap Slots(q, j) = {}

\* A worker that is done leaves its part in order, every title with the score
\* of its movie and with one secret, whatever the workers above make of it.
PartsSorted ==
    \A q \in Request, k \in Node :
        (pc[q][k] = "done" /\ Running) =>
            \A n \in Slots(q, k) :
                /\ array[q].mv[n].secret = 1
                /\ array[q].sc[n] = input[q].score[array[q].mv[n].film]
                /\ \A m \in Slots(q, k) : m < n => InOrder(array[q], m, n)

\* Between any two steps the array of a request holds every matching movie
\* once: no merge loses or doubles one, however the workers interleave.
NoneLost ==
    \A q \in Request :
        stage[q] \in {"sort", "print", "done"} =>
            LET films == {array[q].mv[n].film : n \in DOMAIN array[q].mv}
            IN /\ films = input[q].match
               /\ Cardinality(DOMAIN array[q].mv) = Cardinality(films)

\* The layers are chosen so that no worker is left without a slot: sort() is
\* called with none, and the server crashes, only for a request that matches
\* nothing, or at once because of what it reads.
CrashOnlyOnNothing ==
    main = "crashed" => BadInput \/ \E q \in DOMAIN input : Matches(q) = 0

\* The answers as the readers of the files see them while they grow and when a
\* crash has left them, up to garbage behind a title; the servers implement
\* the abstract recommender.
AnswerIn(f) ==
    IF f = NoFile THEN <<>>
    ELSE [n \in DOMAIN f |-> [title |-> Title[f[n].film], secret |-> f[n].secret]]
Promise == INSTANCE Recommender WITH
               Cases <- Inputs,
               answer <- [q \in Request |-> AnswerIn(file[q])],
               closed <- {q \in Request : stage[q] = "done"}
ImplementsRecommender == Promise!RecommenderSpec

\* The requests a build gets to: the PROCESS build answers the first one, and
\* it does so only if the main process is not a leaf; the THREAD build has Room
\* for its first requests, and all of them depend on each other to match a
\* movie.
Answerable(q) ==
    /\ q \in DOMAIN input /\ ~BadInput
    /\ \/ ~Threads /\ q = 1 /\ Matches(q) >= Small
       \/ /\ Threads /\ q <= Room
          /\ \A p \in DOMAIN input : Matches(p) > 0

\* A request that can be answered is answered with the ranking of its matches:
\* no join waits for ever and no other request keeps it from being printed.
Answered(q) ==
    /\ q \in DOMAIN input
    /\ stage[q] = "done"
    /\ AnswerIn(file[q]) = Ranked(input[q].match, input[q].score)
AnswersCome == \A q \in Request : Answerable(q) ~> Answered(q)

\* When the server has ended, every request it accepted has its answer.
Delivered == (Over /\ Running) => \A q \in DOMAIN input : Answered(q)
=============================================================================
