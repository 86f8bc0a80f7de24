-------------------------- MODULE Scheduler_proofs ---------------------------
(***************************************************************************)
(* Proofs about Scheduler, for any threads, tasks, descriptors and numbers *)
(* and any order of signals and writes.                                    *)
(***************************************************************************)
EXTENDS Scheduler, Iteration, FiniteSetTheorems, SequenceTheorems

-----------------------------------------------------------------------------
(* Threads in queues.                                                       *)

\* No two entries of a queue are the same thread.
Distinct(q) == \A j, k \in DOMAIN q : q[j] = q[k] => j = k

\* A queue that has no thread is empty.
LEMMA EmptyQueue ==
    ASSUME NEW q \in Seq(Thread)
    PROVE  q = <<>> <=> \A t \in Thread : ~Occurs(t, q)
  <1>1. q # <<>> => q[1] \in Thread /\ Occurs(q[1], q)
    BY DEF Occurs
  <1>2. q = <<>> => \A t \in Thread : ~Occurs(t, q)
    BY DEF Occurs
  <1> QED
    BY <1>1, <1>2

\* A thread that is added at the end.
LEMMA AddLast ==
    ASSUME NEW q \in Seq(Thread), NEW e \in Thread
    PROVE  /\ Append(q, e) \in Seq(Thread)
           /\ \A t : Occurs(t, Append(q, e)) <=> Occurs(t, q) \/ t = e
           /\ Distinct(q) /\ ~Occurs(e, q) => Distinct(Append(q, e))
  <1> DEFINE r == Append(q, e)
  <1>1. /\ r \in Seq(Thread) /\ Len(r) = Len(q) + 1 /\ Len(q) \in Nat
        /\ DOMAIN r = 1 .. Len(q) + 1 /\ DOMAIN q = 1 .. Len(q)
        /\ r[Len(q) + 1] = e
        /\ \A k \in 1 .. Len(q) : r[k] = q[k]
    OBVIOUS
  <1> HIDE DEF r
  <1>2. ASSUME NEW t
        PROVE  Occurs(t, r) <=> Occurs(t, q) \/ t = e
    BY <1>1 DEF Occurs
  <1>3. Distinct(q) /\ ~Occurs(e, q) => Distinct(r)
    BY <1>1 DEF Occurs, Distinct
  <1> QED
    BY <1>1, <1>2, <1>3 DEF r

\* One queue behind the other.
LEMMA Joined ==
    ASSUME NEW p \in Seq(Thread), NEW q \in Seq(Thread)
    PROVE  /\ p \o q \in Seq(Thread)
           /\ \A t : Occurs(t, p \o q) <=> Occurs(t, p) \/ Occurs(t, q)
           /\ /\ Distinct(p) /\ Distinct(q)
              /\ \A t \in Thread : ~(Occurs(t, p) /\ Occurs(t, q))
              => Distinct(p \o q)
  <1> DEFINE r == p \o q
  <1>1. /\ r \in Seq(Thread) /\ Len(r) = Len(p) + Len(q)
        /\ Len(p) \in Nat /\ Len(q) \in Nat
        /\ DOMAIN r = 1 .. Len(p) + Len(q)
        /\ DOMAIN p = 1 .. Len(p) /\ DOMAIN q = 1 .. Len(q)
        /\ \A k \in 1 .. Len(p) : r[k] = p[k] /\ p[k] \in Thread
        /\ \A k \in Len(p) + 1 .. Len(p) + Len(q) : r[k] = q[k - Len(p)]
    OBVIOUS
  <1>2. \A k \in 1 .. Len(q) : r[Len(p) + k] = q[k]
    BY <1>1
  <1> HIDE DEF r
  <1>3. ASSUME NEW t
        PROVE  Occurs(t, r) <=> Occurs(t, p) \/ Occurs(t, q)
    <2>1. ASSUME Occurs(t, r)
          PROVE  Occurs(t, p) \/ Occurs(t, q)
      <3>1. PICK k \in 1 .. Len(p) + Len(q) : r[k] = t
        BY <1>1, <2>1 DEF Occurs
      <3>2. CASE k \in 1 .. Len(p)
        BY <1>1, <3>1, <3>2 DEF Occurs
      <3>3. CASE k \notin 1 .. Len(p)
        <4>1. k - Len(p) \in 1 .. Len(q) /\ q[k - Len(p)] = t
          BY <1>1, <3>1, <3>3
        <4> QED
          BY <1>1, <4>1 DEF Occurs
      <3> QED
        BY <3>2, <3>3
    <2>2. ASSUME Occurs(t, p)
          PROVE  Occurs(t, r)
      BY <1>1, <2>2 DEF Occurs
    <2>3. ASSUME Occurs(t, q)
          PROVE  Occurs(t, r)
      <3>1. PICK k \in 1 .. Len(q) : q[k] = t
        BY <1>1, <2>3 DEF Occurs
      <3>2. Len(p) + k \in 1 .. Len(p) + Len(q)
        BY <1>1, <3>1
      <3>3. r[Len(p) + k] = t
        BY <1>1, <1>2, <3>1, <3>2
      <3> QED
        BY <1>1, <3>2, <3>3 DEF Occurs
    <2> QED
      BY <2>1, <2>2, <2>3
  <1>4. ASSUME Distinct(p), Distinct(q),
               \A t \in Thread : ~(Occurs(t, p) /\ Occurs(t, q)),
               NEW j \in DOMAIN r, NEW k \in DOMAIN r, r[j] = r[k], j < k
        PROVE  FALSE
    <2>1. CASE k \in 1 .. Len(p)
      BY <1>1, <1>4, <2>1 DEF Distinct
    <2>2. CASE j \in 1 .. Len(p) /\ k \notin 1 .. Len(p)
      <3>1. Occurs(p[j], p) /\ p[j] \in Thread /\ r[j] = p[j]
        BY <1>1, <2>2 DEF Occurs
      <3>2. k \in Len(p) + 1 .. Len(p) + Len(q)
        BY <1>1, <1>4, <2>2
      <3>3. k - Len(p) \in 1 .. Len(q) /\ q[k - Len(p)] = r[k]
        BY <1>1, <3>2
      <3>4. Occurs(r[k], q)
        BY <1>1, <3>3 DEF Occurs
      <3> QED
        BY <1>4, <3>1, <3>4
    <2>3. CASE j \notin 1 .. Len(p) /\ k \notin 1 .. Len(p)
      <3>1. /\ j - Len(p) \in DOMAIN q /\ q[j - Len(p)] = r[j]
            /\ k - Len(p) \in DOMAIN q /\ q[k - Len(p)] = r[k]
        BY <1>1, <2>3
      <3>2. j - Len(p) = k - Len(p)
        BY <1>4, <3>1 DEF Distinct
      <3> QED
        BY <1>1, <1>4, <3>2
    <2> QED
      BY <1>1, <1>4, <2>1, <2>2, <2>3
  <1>5. /\ Distinct(p) /\ Distinct(q)
        /\ \A t \in Thread : ~(Occurs(t, p) /\ Occurs(t, q))
        => Distinct(r)
    <2> SUFFICES ASSUME Distinct(p), Distinct(q),
                        \A t \in Thread : ~(Occurs(t, p) /\ Occurs(t, q)),
                        NEW j \in DOMAIN r, NEW k \in DOMAIN r, r[j] = r[k]
                 PROVE  j = k
      BY DEF Distinct
    <2>1. j \in Int /\ k \in Int
      BY <1>1
    <2> QED
      BY <1>4, <2>1
  <1> QED
    BY <1>1, <1>3, <1>5 DEF r

-----------------------------------------------------------------------------
(* The entries of a queue that are kept.                                    *)

\* g[n] is what is kept of the first n entries of q.
Keeps(g, q, S) ==
    /\ g \in [0 .. Len(q) -> Seq(Thread)]
    /\ g[0] = <<>>
    /\ \A k \in 1 .. Len(q) :
           g[k] = IF q[k] \in S THEN Append(g[k - 1], q[k]) ELSE g[k - 1]

\* Kept builds its result entry by entry.
LEMMA KeptSteps ==
    ASSUME NEW q \in Seq(Thread), NEW S
    PROVE  \E g : Keeps(g, q, S) /\ Kept(q, S) = g[Len(q)]
  <1> DEFINE N == Len(q)
             step == [p \in Nat \X Seq(Thread) |->
                         IF p[1] \in 1 .. N /\ q[p[1]] \in S
                         THEN Append(p[2], q[p[1]]) ELSE p[2]]
             empty == <<>>
             chosen == CHOOSE g : g = [k \in 0 .. N |->
                           IF k = 0 THEN <<>>
                           ELSE IF q[k] \in S THEN Append(g[k - 1], q[k])
                           ELSE g[k - 1]]
  <1>1. N \in Nat /\ empty \in Seq(Thread)
    OBVIOUS
  <1>2. step \in [Nat \X Seq(Thread) -> Seq(Thread)]
    <2>1. ASSUME NEW p \in Nat \X Seq(Thread)
          PROVE  (IF p[1] \in 1 .. N /\ q[p[1]] \in S
                  THEN Append(p[2], q[p[1]]) ELSE p[2]) \in Seq(Thread)
      OBVIOUS
    <2> QED
      BY <2>1
  <1>3. ASSUME NEW k \in 1 .. N, NEW s \in Seq(Thread)
        PROVE  step[<<k, s>>] = IF q[k] \in S THEN Append(s, q[k]) ELSE s
    <2>1. <<k, s>> \in Nat \X Seq(Thread)
      OBVIOUS
    <2> QED
      BY <2>1
  <1> HIDE DEF step, N, empty, chosen
  <1>4. PICK f : Lists(f, N, Seq(Thread), empty, step)
    BY <1>1, <1>2, Iterates
  <1>5. f \in [0 .. N -> Seq(Thread)] /\ f[0] = <<>>
    BY <1>4 DEF Lists, empty
  <1>6. ASSUME NEW k \in 1 .. N
        PROVE  f[k] = IF q[k] \in S THEN Append(f[k - 1], q[k]) ELSE f[k - 1]
    <2>1. f[k] = step[<<k, f[k - 1]>>]
      BY <1>4 DEF Lists
    <2>2. f[k - 1] \in Seq(Thread)
      BY <1>1, <1>5
    <2> QED
      BY <1>3, <2>1, <2>2
  <1> DEFINE Solution(g) == g = [k \in 0 .. N |->
                                    IF k = 0 THEN <<>>
                                    ELSE IF q[k] \in S THEN Append(g[k - 1], q[k])
                                    ELSE g[k - 1]]
  <1>7. Solution(f)
    <2>1. ASSUME NEW k \in 0 .. N
          PROVE  f[k] = IF k = 0 THEN <<>>
                        ELSE IF q[k] \in S THEN Append(f[k - 1], q[k])
                        ELSE f[k - 1]
      <3>1. k = 0 \/ k \in 1 .. N
        BY <1>1
      <3> QED
        BY <1>5, <1>6, <3>1
    <2>2. f = [k \in 0 .. N |-> f[k]]
      BY <1>5
    <2> QED
      BY <2>1, <2>2
  <1>8. Solution(chosen)
    <2>1. chosen = CHOOSE g : Solution(g)
      BY DEF chosen
    <2> HIDE DEF Solution
    <2> QED
      BY <1>7, <2>1
  <1>9. chosen[0] = f[0]
    BY <1>1, <1>5, <1>8
  <1>10. ASSUME NEW k \in 1 .. N, chosen[k - 1] = f[k - 1]
         PROVE  chosen[k] = f[k]
    <2>1. k \in 0 .. N /\ k # 0
      BY <1>1
    <2>2. chosen[k] = IF q[k] \in S THEN Append(chosen[k - 1], q[k])
                                    ELSE chosen[k - 1]
      BY <1>8, <2>1
    <2> QED
      BY <1>6, <1>10, <2>2
  <1> HIDE DEF Solution
  <1>11. \A k \in 0 .. N : chosen[k] = f[k]
    <2>1. N \in Nat /\ RunsAlike(chosen, f, N)
      BY <1>1, <1>9, <1>10 DEF RunsAlike
    <2> QED
      BY <2>1, SameIteration
  <1>12. Kept(q, S) = f[N]
    <2>1. Kept(q, S) = chosen[N]
      BY DEF Kept, chosen, N
    <2>2. N \in 0 .. N
      BY <1>1
    <2> QED
      BY <1>11, <2>1, <2>2
  <1> QED
    BY <1>5, <1>6, <1>12 DEF N, Keeps

\* What is kept of a queue: its threads that are in S, in a queue that holds
\* none twice if the first does not.
LEMMA KeptThreads ==
    ASSUME NEW q \in Seq(Thread), NEW S
    PROVE  /\ Kept(q, S) \in Seq(Thread)
           /\ \A t : Occurs(t, Kept(q, S)) <=> t \in S /\ Occurs(t, q)
           /\ Distinct(q) => Distinct(Kept(q, S))
  <1> DEFINE N == Len(q)
  <1>0. PICK g : Keeps(g, q, S) /\ Kept(q, S) = g[N]
    BY KeptSteps
  <1>1. /\ Kept(q, S) = g[N]
        /\ g \in [0 .. N -> Seq(Thread)]
        /\ g[0] = <<>>
        /\ \A k \in 1 .. N :
               g[k] = IF q[k] \in S THEN Append(g[k - 1], q[k]) ELSE g[k - 1]
    BY <1>0 DEF Keeps
  <1>2. N \in Nat /\ DOMAIN q = 1 .. N /\ \A k \in 1 .. N : q[k] \in Thread
    OBVIOUS
  <1> HIDE DEF N
  <1> DEFINE Right(n) ==
                 /\ \A t : Occurs(t, g[n]) <=> t \in S /\ \E k \in 1 .. n : q[k] = t
                 /\ Distinct(q) => Distinct(g[n])
             Good == {n \in Nat : n <= N => Right(n)}
  <1>3. 0 \in Good
    BY <1>1 DEF Occurs, Distinct
  <1>4. ASSUME NEW n \in Nat, n \in Good
        PROVE  n + 1 \in Good
    <2> SUFFICES ASSUME n + 1 <= N PROVE Right(n + 1)
      OBVIOUS
    <2>1. Right(n)
      BY <1>2, <1>4
    <2>2. n + 1 \in 1 .. N /\ (n + 1) - 1 = n /\ g[n] \in Seq(Thread)
      BY <1>1, <1>2
    <2>3. q[n + 1] \in Thread
      BY <1>2, <2>2
    <2>4. \A t : (\E k \in 1 .. n + 1 : q[k] = t)
                     <=> (\E k \in 1 .. n : q[k] = t) \/ q[n + 1] = t
      OBVIOUS
    <2>5. CASE q[n + 1] \in S
      <3>1. g[n + 1] = Append(g[n], q[n + 1])
        BY <1>1, <2>2, <2>5
      <3>2. Distinct(q) => ~Occurs(q[n + 1], g[n])
        <4> SUFFICES ASSUME Distinct(q), NEW k \in 1 .. n, q[k] = q[n + 1]
                     PROVE  FALSE
          BY <2>1
        <4>1. k \in DOMAIN q /\ n + 1 \in DOMAIN q /\ k # n + 1
          BY <1>2, <2>2
        <4> QED
          BY <4>1 DEF Distinct
      <3>3. \A t : Occurs(t, g[n + 1]) <=> Occurs(t, g[n]) \/ t = q[n + 1]
        BY <2>2, <2>3, <3>1, AddLast
      <3>4. Distinct(q) => Distinct(g[n + 1])
        BY <2>1, <2>2, <2>3, <3>1, <3>2, AddLast
      <3> QED
        BY <2>1, <2>4, <2>5, <3>3, <3>4
    <2>6. CASE q[n + 1] \notin S
      <3>1. g[n + 1] = g[n]
        BY <1>1, <2>2, <2>6
      <3> QED
        BY <2>1, <2>4, <2>6, <3>1
    <2> QED
      BY <2>5, <2>6
  <1>5. Right(N)
    <2>1. Nat \subseteq Good
      <3> HIDE DEF Good
      <3> QED
        BY <1>3, <1>4, Induction
    <2>2. N \in Good
      BY <1>2, <2>1
    <2> HIDE DEF Right
    <2> QED
      BY <1>2, <2>2
  <1>6. \A t : Occurs(t, q) <=> \E k \in 1 .. N : q[k] = t
    BY <1>2 DEF Occurs
  <1>7. Kept(q, S) \in Seq(Thread)
    BY <1>1, <1>2
  <1> QED
    BY <1>1, <1>5, <1>6, <1>7

-----------------------------------------------------------------------------
(* The queues.                                                              *)

\* What the scheduler keeps true of its two queues: nobody stands twice in one
\* or in both, rq_current is in the ready queue, and the queue it jumps into
\* has a thread.
QueuesOK ==
    /\ ready \in Seq(Thread)
    /\ waiting \in Seq(Thread)
    /\ current \in 1 .. (IF ready = <<>> THEN 1 ELSE Len(ready))
    /\ Distinct(ready)
    /\ Distinct(waiting)
    /\ \A t \in Thread : ~(Occurs(t, ready) /\ Waiting(t))
    /\ mode \in {"run", "select", "over"}
    /\ mode = "run" => ready # <<>>
    /\ mode = "select" => ready = <<>> /\ waiting # <<>> /\ current = 1
    /\ mode = "over" <=> ready = <<>> /\ waiting = <<>>

\* The scan moves the threads that select() reports, and only those, behind
\* the ready queue.
LEMMA ScanQueues ==
    ASSUME QueuesOK, mode = "run", NEW n
    PROVE  /\ Scanned(n) \in Seq(Thread) /\ Sleeping(n) \in Seq(Thread)
           /\ Distinct(Scanned(n)) /\ Distinct(Sleeping(n))
           /\ \A t \in Thread :
                  /\ Occurs(t, Scanned(n)) <=>
                         Occurs(t, ready) \/ (Waiting(t) /\ Reported(t, n))
                  /\ Occurs(t, Sleeping(n)) <=> Waiting(t) /\ ~Reported(t, n)
           /\ current \in 1 .. Len(Scanned(n))
           /\ Scanned(n)[current] = Running
           /\ Running \in Thread /\ Occurs(Running, ready)
  <1>1. /\ Woken(n) \in Seq(Thread) /\ Sleeping(n) \in Seq(Thread)
        /\ Distinct(Woken(n)) /\ Distinct(Sleeping(n))
    BY KeptThreads DEF QueuesOK, Woken, Sleeping
  <1>2. ASSUME NEW t \in Thread
        PROVE  /\ Occurs(t, Woken(n)) <=> Waiting(t) /\ Reported(t, n)
               /\ Occurs(t, Sleeping(n)) <=> Waiting(t) /\ ~Reported(t, n)
    BY KeptThreads DEF QueuesOK, Woken, Sleeping, Waiting, Due
  <1>3. /\ Scanned(n) \in Seq(Thread)
        /\ \A t : Occurs(t, Scanned(n)) <=> Occurs(t, ready) \/ Occurs(t, Woken(n))
    BY <1>1, Joined DEF QueuesOK, Scanned
  <1>4. Distinct(Scanned(n))
    BY <1>1, <1>2, Joined DEF QueuesOK, Scanned
  <1>5. /\ current \in 1 .. Len(ready)
        /\ ready \in Seq(Thread)
    BY DEF QueuesOK
  <1>6. Len(Scanned(n)) = Len(ready) + Len(Woken(n)) /\ Len(Woken(n)) \in Nat
    BY <1>1, <1>5 DEF Scanned
  <1>7. current \in 1 .. Len(Scanned(n)) /\ Scanned(n)[current] = ready[current]
    BY <1>1, <1>5, <1>6 DEF Scanned
  <1>8. Running \in Thread /\ Occurs(Running, ready)
    BY <1>5 DEF Running, Occurs
  <1> QED
    BY <1>1, <1>2, <1>3, <1>4, <1>7, <1>8 DEF Running

\* The swap takes out the running thread and no other.
LEMMA RemovedRunning ==
    ASSUME NEW q \in Seq(Thread), Distinct(q), current \in 1 .. Len(q)
    PROVE  /\ WithoutRunning(q) \in Seq(Thread)
           /\ Len(WithoutRunning(q)) = Len(q) - 1
           /\ Distinct(WithoutRunning(q))
           /\ \A t : Occurs(t, WithoutRunning(q)) <=> Occurs(t, q) /\ t # q[current]
  <1> DEFINE N == Len(q)
             r == WithoutRunning(q)
  <1>1. /\ N \in Nat /\ N >= 1 /\ DOMAIN q = 1 .. N
        /\ \A k \in 1 .. N : q[k] \in Thread
        /\ current \in 1 .. N
    OBVIOUS
  <1>2. /\ Front(q) \in Seq(Thread) /\ Len(Front(q)) = N - 1
        /\ DOMAIN Front(q) = 1 .. N - 1
        /\ \A k \in 1 .. N - 1 : Front(q)[k] = q[k]
        /\ Last(q) = q[N]
    BY <1>1 DEF Front, Last
  <1>3. /\ r \in Seq(Thread) /\ Len(r) = N - 1 /\ DOMAIN r = 1 .. N - 1
        /\ \A k \in 1 .. N - 1 : r[k] = IF k = current THEN q[N] ELSE q[k]
    <2>1. CASE current = N
      BY <1>1, <1>2, <2>1 DEF WithoutRunning
    <2>2. CASE current # N
      <3>1. r = [Front(q) EXCEPT ![current] = q[N]]
        BY <1>2, <2>2 DEF WithoutRunning
      <3> HIDE DEF r, N
      <3>2. current \in 1 .. N - 1 /\ q[N] \in Thread
        BY <1>1, <2>2
      <3>3. r \in Seq(Thread) /\ Len(r) = N - 1 /\ DOMAIN r = 1 .. N - 1
        BY <1>2, <3>1, <3>2, ExceptSeq
      <3>4. \A k \in 1 .. N - 1 : r[k] = IF k = current THEN q[N] ELSE q[k]
        BY <1>2, <3>1, <3>2
      <3> QED
        BY <3>3, <3>4
    <2> QED
      BY <2>1, <2>2
  <1> HIDE DEF r, N
  <1>4. Distinct(r)
    BY <1>1, <1>3 DEF Distinct
  <1>5. ASSUME NEW t
        PROVE  Occurs(t, r) <=> Occurs(t, q) /\ t # q[current]
    <2>1. ASSUME Occurs(t, r)
          PROVE  Occurs(t, q) /\ t # q[current]
      <3>1. PICK k \in 1 .. N - 1 : r[k] = t
        BY <1>3, <2>1 DEF Occurs
      <3>2. k \in 1 .. N /\ N \in 1 .. N /\ k # N
        BY <1>1, <3>1
      <3>3. CASE k = current
        <4>1. t = q[N] /\ current # N
          BY <1>3, <3>1, <3>2, <3>3
        <4> QED
          BY <1>1, <3>2, <4>1 DEF Occurs, Distinct
      <3>4. CASE k # current
        <4>1. t = q[k]
          BY <1>3, <3>1, <3>4
        <4> QED
          BY <1>1, <3>2, <3>4, <4>1 DEF Occurs, Distinct
      <3> QED
        BY <3>3, <3>4
    <2>2. ASSUME Occurs(t, q), t # q[current]
          PROVE  Occurs(t, r)
      <3>1. PICK k \in 1 .. N : q[k] = t
        BY <1>1, <2>2 DEF Occurs
      <3>2. CASE k = N
        <4>1. current \in 1 .. N - 1 /\ r[current] = t
          BY <1>1, <1>3, <2>2, <3>1, <3>2
        <4> QED
          BY <1>3, <4>1 DEF Occurs
      <3>3. CASE k # N
        <4>1. k \in 1 .. N - 1 /\ r[k] = t
          BY <1>1, <1>3, <2>2, <3>1, <3>3
        <4> QED
          BY <1>3, <4>1 DEF Occurs
      <3> QED
        BY <3>2, <3>3
    <2> QED
      BY <2>1, <2>2
  <1> QED
    BY <1>3, <1>4, <1>5 DEF r, N

\* What a call of the scheduler does to the queues: a preempted thread goes on
\* standing in the ready queue.
LEMMA PreemptQueues ==
    ASSUME QueuesOK, mode = "run", Preempt
    PROVE  /\ QueuesOK' /\ mode' = "run"
           /\ \A t \in Thread :
                  /\ Occurs(t, ready)' <=>
                         Occurs(t, ready) \/ (Waiting(t) /\ Reported(t, maxfd))
                  /\ Waiting(t)' <=> Waiting(t) /\ ~Reported(t, maxfd)
  <1>1. /\ ready' = Scanned(maxfd) /\ waiting' = Sleeping(maxfd) /\ mode' = "run"
        /\ current' = IF current = Len(ready') THEN 1 ELSE current + 1
    BY DEF Preempt, Rotated
  <1>2. \A t \in Thread :
            /\ Occurs(t, ready') <=>
                   Occurs(t, ready) \/ (Waiting(t) /\ Reported(t, maxfd))
            /\ Occurs(t, waiting') <=> Waiting(t) /\ ~Reported(t, maxfd)
    BY <1>1, ScanQueues
  <1>3. /\ ready' \in Seq(Thread) /\ waiting' \in Seq(Thread)
        /\ Distinct(ready') /\ Distinct(waiting')
        /\ current \in 1 .. Len(ready')
    BY <1>1, ScanQueues
  <1>4. ready' # <<>> /\ current' \in 1 .. Len(ready')
    BY <1>1, <1>3
  <1>5. \A t \in Thread : ~(Occurs(t, ready') /\ Occurs(t, waiting'))
    BY <1>2 DEF QueuesOK
  <1>6. QueuesOK'
    BY <1>1, <1>3, <1>4, <1>5 DEF QueuesOK, Waiting, Distinct, Occurs
  <1> QED
    BY <1>1, <1>2, <1>6 DEF Waiting, Occurs

\* One that waits moves to the waiting queue.
LEMMA AwaitQueues ==
    ASSUME QueuesOK, mode = "run", Await
    PROVE  /\ QueuesOK' /\ mode' # "over"
           /\ \A t \in Thread :
                  /\ Occurs(t, ready)' <=>
                         /\ Occurs(t, ready) \/ (Waiting(t) /\ Reported(t, maxfd))
                         /\ t # Running
                  /\ Waiting(t)' <=>
                         t = Running \/ (Waiting(t) /\ ~Reported(t, maxfd))
  <1> DEFINE q == Scanned(maxfd)
             w == Sleeping(maxfd)
  <1>1. /\ ready' = WithoutRunning(q) /\ waiting' = Append(w, Running)
        /\ current' = IF current = Len(q) THEN 1 ELSE current
        /\ mode' = Afterwards(ready', waiting')
    BY DEF Await
  <1>2. /\ q \in Seq(Thread) /\ w \in Seq(Thread)
        /\ Distinct(q) /\ Distinct(w)
        /\ \A t \in Thread :
               /\ Occurs(t, q) <=>
                      Occurs(t, ready) \/ (Waiting(t) /\ Reported(t, maxfd))
               /\ Occurs(t, w) <=> Waiting(t) /\ ~Reported(t, maxfd)
        /\ current \in 1 .. Len(q) /\ q[current] = Running
        /\ Running \in Thread /\ Occurs(Running, ready)
    BY ScanQueues
  <1> HIDE DEF q, w
  <1>3. /\ ready' \in Seq(Thread) /\ Len(ready') = Len(q) - 1 /\ Distinct(ready')
        /\ \A t : Occurs(t, ready') <=> Occurs(t, q) /\ t # Running
    BY <1>1, <1>2, RemovedRunning
  <1>4. ~Occurs(Running, w)
    BY <1>2 DEF QueuesOK
  <1>5. /\ waiting' \in Seq(Thread) /\ Distinct(waiting')
        /\ \A t : Occurs(t, waiting') <=> Occurs(t, w) \/ t = Running
    BY <1>1, <1>2, <1>4, AddLast
  <1>6. current' \in 1 .. (IF ready' = <<>> THEN 1 ELSE Len(ready'))
    BY <1>1, <1>2, <1>3
  <1>7. waiting' # <<>>
    BY <1>1, <1>2
  <1>8. ready' = <<>> => current' = 1
    BY <1>6
  <1>9. \A t \in Thread : ~(Occurs(t, ready') /\ Occurs(t, waiting'))
    BY <1>2, <1>3, <1>5 DEF QueuesOK
  <1>10. QueuesOK' /\ mode' # "over"
    BY <1>1, <1>3, <1>5, <1>6, <1>7, <1>8, <1>9
    DEF QueuesOK, Waiting, Distinct, Occurs, Afterwards
  <1>11. \A t \in Thread : Occurs(t, ready') <=>
                               /\ Occurs(t, ready) \/ (Waiting(t) /\ Reported(t, maxfd))
                               /\ t # Running
    BY <1>2, <1>3
  <1>12. \A t \in Thread : Occurs(t, waiting') <=>
                               t = Running \/ (Waiting(t) /\ ~Reported(t, maxfd))
    BY <1>2, <1>5
  <1> QED
    BY <1>10, <1>11, <1>12 DEF Waiting, Occurs

\* One that leaves stands in no queue.
LEMMA LeaveQueues ==
    ASSUME QueuesOK, mode = "run", NEW n, Leave(n)
    PROVE  /\ QueuesOK'
           /\ \A t \in Thread :
                  /\ Occurs(t, ready)' <=>
                         /\ Occurs(t, ready) \/ (Waiting(t) /\ Reported(t, n))
                         /\ t # Running
                  /\ Waiting(t)' <=> Waiting(t) /\ ~Reported(t, n)
  <1> DEFINE q == Scanned(n)
             w == Sleeping(n)
  <1>1. /\ ready' = WithoutRunning(q) /\ waiting' = w
        /\ current' = IF current = Len(q) THEN 1 ELSE current
        /\ mode' = Afterwards(ready', waiting')
    BY DEF Leave
  <1>2. /\ q \in Seq(Thread) /\ w \in Seq(Thread)
        /\ Distinct(q) /\ Distinct(w)
        /\ \A t \in Thread :
               /\ Occurs(t, q) <=> Occurs(t, ready) \/ (Waiting(t) /\ Reported(t, n))
               /\ Occurs(t, w) <=> Waiting(t) /\ ~Reported(t, n)
        /\ current \in 1 .. Len(q) /\ q[current] = Running
    BY ScanQueues
  <1> HIDE DEF q, w
  <1>3. /\ ready' \in Seq(Thread) /\ Len(ready') = Len(q) - 1 /\ Distinct(ready')
        /\ \A t : Occurs(t, ready') <=> Occurs(t, q) /\ t # Running
    BY <1>1, <1>2, RemovedRunning
  <1>4. current' \in 1 .. (IF ready' = <<>> THEN 1 ELSE Len(ready'))
    BY <1>1, <1>2, <1>3
  <1>5. ready' = <<>> => current' = 1
    BY <1>4
  <1>6. \A t \in Thread : ~(Occurs(t, ready') /\ Occurs(t, waiting'))
    BY <1>1, <1>2, <1>3 DEF QueuesOK
  <1>7. QueuesOK'
    BY <1>1, <1>2, <1>3, <1>4, <1>5, <1>6
    DEF QueuesOK, Waiting, Distinct, Occurs, Afterwards
  <1>8. \A t \in Thread :
            /\ Occurs(t, ready') <=>
                   /\ Occurs(t, ready) \/ (Waiting(t) /\ Reported(t, n))
                   /\ t # Running
            /\ Occurs(t, waiting') <=> Waiting(t) /\ ~Reported(t, n)
    BY <1>1, <1>2, <1>3
  <1> QED
    BY <1>7, <1>8 DEF Waiting, Occurs

\* When select() returns to a scheduler without a ready thread, those it reports
\* become ready, and there is one.
LEMMA WakeQueues ==
    ASSUME QueuesOK, Wake
    PROVE  /\ QueuesOK' /\ mode' = "run"
           /\ \A t \in Thread :
                  /\ Occurs(t, ready)' <=> Waiting(t) /\ Unblocks(t)
                  /\ Waiting(t)' <=> Waiting(t) /\ ~Unblocks(t)
           /\ \A t \in Thread : ~Occurs(t, ready)
  <1> DEFINE woken == {t \in Thread : Unblocks(t)}
  <1>1. /\ mode = "select" /\ mode' = "run" /\ current' = current
        /\ ready' = Kept(waiting, woken)
        /\ waiting' = Kept(waiting, Thread \ woken)
        /\ \E k \in DOMAIN waiting : Unblocks(waiting[k])
    BY DEF Wake
  <1>2. waiting \in Seq(Thread) /\ ready = <<>> /\ current = 1 /\ Distinct(waiting)
    BY <1>1 DEF QueuesOK
  <1>3. /\ ready' \in Seq(Thread) /\ waiting' \in Seq(Thread)
        /\ Distinct(ready') /\ Distinct(waiting')
    BY <1>1, <1>2, KeptThreads
  <1>4. \A t \in Thread : /\ Occurs(t, ready') <=> Waiting(t) /\ Unblocks(t)
                          /\ Occurs(t, waiting') <=> Waiting(t) /\ ~Unblocks(t)
    BY <1>1, <1>2, KeptThreads DEF Waiting
  <1>5. ready' # <<>>
    <2>1. PICK t \in Thread : Occurs(t, waiting) /\ Unblocks(t)
      BY <1>1, <1>2 DEF Occurs
    <2>2. Occurs(t, ready')
      BY <1>4, <2>1 DEF Waiting
    <2> QED
      BY <1>3, <2>2, EmptyQueue
  <1>6. current' \in 1 .. Len(ready')
    BY <1>1, <1>2, <1>3, <1>5
  <1>7. \A t \in Thread : ~(Occurs(t, ready') /\ Occurs(t, waiting'))
    BY <1>4
  <1>8. QueuesOK'
    BY <1>1, <1>3, <1>5, <1>6, <1>7 DEF QueuesOK, Waiting, Distinct, Occurs
  <1>9. \A t \in Thread : ~Occurs(t, ready)
    BY <1>2 DEF Occurs
  <1> QED
    BY <1>1, <1>4, <1>8, <1>9 DEF Waiting, Occurs

-----------------------------------------------------------------------------
(* The invariant of the scheduler and the threads.  That a queue never loses  *)
(* a thread is not inductive alone: the scheduler may only be entered by the  *)
(* thread it jumped to, which stands in the ready queue at rq_current.        *)

\* The types of what is not a queue.
FieldsOK ==
    /\ at \in [Thread -> {"top", "read", "tstp", "alrm", "done"}]
    /\ i \in [Thread -> Nat]
    /\ x \in [Thread -> Int] /\ y \in [Thread -> Int]
    /\ buf \in [Thread -> Number \cup {0}]
    /\ maxfd \in Number \cup {0, TableSize + 1}
    /\ pending \subseteq {"TSTP", "ALRM"}
    /\ armed \in BOOLEAN
    /\ fifo \in [Thread -> Seq(Number)]
    /\ writer \in [Thread -> {"never", "open", "closed"}]

\* Exactly the threads that have not exited stand in a queue.
LiveStand == \A t \in Thread : Live(t) <=> Occurs(t, ready) \/ Waiting(t)

SchedInv ==
    /\ QueuesOK
    /\ FieldsOK
    /\ LiveStand
    /\ SwitchesWhereAllowed

\* The part of the invariant that a call of the scheduler is about.
StandInv == QueuesOK /\ LiveStand /\ SwitchesWhereAllowed

\* The thread that runs stands in the ready queue.
LEMMA RunningStands ==
    ASSUME QueuesOK, NEW t \in Thread, Runs(t)
    PROVE  mode = "run" /\ Running = t /\ Occurs(t, ready) /\ ~Waiting(t)
  <1>1. mode = "run" /\ Running = t
    BY DEF Runs
  <1>2. Occurs(t, ready)
    BY <1>1, ScanQueues
  <1> QED
    BY <1>1, <1>2 DEF QueuesOK

\* A step that leaves the queues alone and, of the threads, at most moves the
\* running one to another point of its own code.
LEMMA StayStands ==
    ASSUME StandInv, FieldsOK, NEW t \in Thread, Runs(t), UNCHANGED queues,
           NEW a \in {"top", "tstp", "alrm"}, at' = [at EXCEPT ![t] = a]
    PROVE  StandInv'
  <1>1. mode = "run" /\ Running = t /\ Occurs(t, ready) /\ ~Waiting(t)
    BY RunningStands DEF StandInv
  <1>2. QueuesOK' /\ Runs(t)'
    BY <1>1 DEF StandInv, QueuesOK, queues, Waiting, Occurs, Distinct, Runs, Running
  <1>3. \A u \in Thread : Occurs(u, ready)' = Occurs(u, ready) /\ Waiting(u)' = Waiting(u)
    BY DEF queues, Waiting, Occurs
  <1>4. \A u \in Thread : at'[u] = IF u = t THEN a ELSE at[u]
    BY DEF FieldsOK
  <1>5. LiveStand'
    BY <1>1, <1>3, <1>4 DEF StandInv, LiveStand, Live
  <1>6. ASSUME NEW u \in Thread
        PROVE  /\ Waiting(u)' => at'[u] = "read"
               /\ at'[u] \in {"tstp", "alrm"} => Runs(u)'
    <2>1. CASE u = t
      BY <1>1, <1>2, <1>3, <2>1
    <2>2. CASE u # t
      BY <1>1, <1>3, <1>4, <2>2 DEF StandInv, SwitchesWhereAllowed, Runs
    <2> QED
      BY <2>1, <2>2
  <1> QED
    BY <1>2, <1>5, <1>6 DEF StandInv, SwitchesWhereAllowed

\* A round ends with a call of thread_exit or goes on to the windows.
LEMMA EndRoundStands ==
    ASSUME StandInv, FieldsOK, NEW t \in Thread, Runs(t), NEW n,
           NEW last, EndRound(t, last, n)
    PROVE  StandInv'
  <1>1. mode = "run" /\ Running = t /\ Occurs(t, ready) /\ ~Waiting(t)
    BY RunningStands DEF StandInv
  <1>2. CASE last
    <2>1. at' = [at EXCEPT ![t] = "done"] /\ Leave(n)
      BY <1>2 DEF EndRound
    <2>2. /\ QueuesOK'
          /\ \A u \in Thread :
                 /\ Occurs(u, ready)' <=>
                        /\ Occurs(u, ready) \/ (Waiting(u) /\ Reported(u, n))
                        /\ u # t
                 /\ Waiting(u)' <=> Waiting(u) /\ ~Reported(u, n)
      BY <1>1, <2>1, LeaveQueues DEF StandInv
    <2>3. \A u \in Thread : at'[u] = IF u = t THEN "done" ELSE at[u]
      BY <2>1 DEF FieldsOK
    <2>4. LiveStand'
      BY <1>1, <2>2, <2>3 DEF StandInv, LiveStand, Live
    <2>5. SwitchesWhereAllowed'
      BY <1>1, <2>2, <2>3 DEF StandInv, SwitchesWhereAllowed, Runs
    <2> QED
      BY <2>2, <2>4, <2>5 DEF StandInv
  <1>3. CASE ~last
    BY <1>3, StayStands DEF EndRound
  <1> QED
    BY <1>2, <1>3

\* A thread that is preempted in a window continues behind both.
LEMMA PreemptStands ==
    ASSUME StandInv, FieldsOK, NEW t \in Thread, Runs(t), Preempt,
           at' = [at EXCEPT ![t] = Resumed]
    PROVE  StandInv'
  <1>1. mode = "run" /\ Running = t /\ Occurs(t, ready) /\ ~Waiting(t)
    BY RunningStands DEF StandInv
  <1>2. /\ QueuesOK'
        /\ \A u \in Thread :
               /\ Occurs(u, ready)' <=>
                      Occurs(u, ready) \/ (Waiting(u) /\ Reported(u, maxfd))
               /\ Waiting(u)' <=> Waiting(u) /\ ~Reported(u, maxfd)
    BY <1>1, PreemptQueues DEF StandInv
  <1>3. \A u \in Thread : at'[u] = IF u = t THEN "top" ELSE at[u]
    BY DEF FieldsOK, Resumed
  <1>4. LiveStand'
    BY <1>1, <1>2, <1>3 DEF StandInv, LiveStand, Live
  <1>5. SwitchesWhereAllowed'
    BY <1>1, <1>2, <1>3 DEF StandInv, SwitchesWhereAllowed, Runs
  <1> QED
    BY <1>2, <1>4, <1>5 DEF StandInv

\* A thread that waits continues in async_read.
LEMMA AwaitStands ==
    ASSUME StandInv, FieldsOK, NEW t \in Thread, Runs(t), Await,
           at' = [at EXCEPT ![t] = "read"]
    PROVE  StandInv'
  <1>1. mode = "run" /\ Running = t /\ Occurs(t, ready) /\ ~Waiting(t)
    BY RunningStands DEF StandInv
  <1>2. /\ QueuesOK'
        /\ \A u \in Thread :
               /\ Occurs(u, ready)' <=>
                      /\ Occurs(u, ready) \/ (Waiting(u) /\ Reported(u, maxfd))
                      /\ u # t
               /\ Waiting(u)' <=> u = t \/ (Waiting(u) /\ ~Reported(u, maxfd))
    BY <1>1, AwaitQueues DEF StandInv
  <1>3. \A u \in Thread : at'[u] = IF u = t THEN "read" ELSE at[u]
    BY DEF FieldsOK
  <1>4. LiveStand'
    BY <1>1, <1>2, <1>3 DEF StandInv, LiveStand, Live
  <1>5. SwitchesWhereAllowed'
    BY <1>1, <1>2, <1>3 DEF StandInv, SwitchesWhereAllowed, Runs
  <1> QED
    BY <1>2, <1>4, <1>5 DEF StandInv

\* The scheduler wakes up.
LEMMA WakeStands ==
    ASSUME StandInv, FieldsOK, Wake
    PROVE  StandInv'
  <1>1. /\ QueuesOK'
        /\ \A u \in Thread :
               /\ Occurs(u, ready)' <=> Waiting(u) /\ Unblocks(u)
               /\ Waiting(u)' <=> Waiting(u) /\ ~Unblocks(u)
               /\ ~Occurs(u, ready)
    BY WakeQueues DEF StandInv
  <1>2. at' = at /\ mode = "select"
    BY DEF Wake, tcbs
  <1>3. LiveStand'
    BY <1>1, <1>2 DEF StandInv, LiveStand, Live
  <1>4. SwitchesWhereAllowed'
    BY <1>1, <1>2 DEF StandInv, SwitchesWhereAllowed, Runs
  <1> QED
    BY <1>1, <1>3, <1>4 DEF StandInv

\* A step that touches neither a queue nor a thread's point of return.
LEMMA QuietStands ==
    ASSUME StandInv, UNCHANGED <<queues, at>>
    PROVE  StandInv'
  BY DEF StandInv, QueuesOK, LiveStand, Live, SwitchesWhereAllowed, queues,
         Waiting, Occurs, Distinct, Runs, Running

\* Every step keeps the threads in their queues.
LEMMA NextStands == StandInv /\ FieldsOK /\ [Next]_vars => StandInv'
  <1> SUFFICES ASSUME StandInv, FieldsOK, [Next]_vars PROVE StandInv'
    OBVIOUS
  <1>1. CASE UNCHANGED vars \/ Terminated
    BY <1>1, QuietStands DEF vars, Terminated, sched, tcbs
  <1>2. CASE Alarm \/ Suspend
    BY <1>2, QuietStands DEF Alarm, Suspend, sched, tcbs
  <1>3. ASSUME NEW t \in Thread, Writes(t) \/ CloseWriter(t)
        PROVE  StandInv'
    BY <1>3, QuietStands DEF Writes, Write, CloseWriter, sched, tcbs
  <1>4. CASE Wake
    BY <1>4, WakeStands
  <1>5. ASSUME NEW t \in Thread, Round(t)
        PROVE  StandInv'
    <2>1. CASE Fibonacci(t)
      BY <2>1, EndRoundStands DEF Fibonacci
    <2>2. CASE Collatz(t)
      BY <2>2, EndRoundStands DEF Collatz
    <2>3. CASE AsyncRead(t)
      BY <2>3, AwaitStands DEF AsyncRead
    <2>4. CASE MaxSubarray(t)
      BY <2>4, EndRoundStands DEF MaxSubarray
    <2>5. CASE YieldTstp(t)
      BY <2>5, PreemptStands, StayStands DEF YieldTstp
    <2>6. CASE YieldAlrm(t)
      BY <2>6, PreemptStands, StayStands DEF YieldAlrm, Resumed
    <2> QED
      BY <1>5, <2>1, <2>2, <2>3, <2>4, <2>5, <2>6 DEF Round
  <1> QED
    BY <1>1, <1>2, <1>3, <1>4, <1>5 DEF Next, Program

\* What a call of the scheduler does to a thread's point of return keeps its
\* type.
LEMMA EndRoundType ==
    ASSUME FieldsOK, NEW t \in Thread, NEW last, NEW n, EndRound(t, last, n)
    PROVE  at' \in [Thread -> {"top", "read", "tstp", "alrm", "done"}]
  BY DEF FieldsOK, EndRound

\* A number read from a FIFO is one that was written; otherwise buf stays.
LEMMA ReadType ==
    ASSUME FieldsOK, NEW t \in Thread, MaxSubarray(t)
    PROVE  /\ buf' \in [Thread -> Number \cup {0}]
           /\ fifo' \in [Thread -> Seq(Number)]
           /\ buf'[t] \in Int
           /\ buf'[t] \in Number \cup {0}
  <1>1. fifo[t] \in Seq(Number) /\ buf[t] \in Number \cup {0}
    BY DEF FieldsOK
  <1>2. fifo[t] # <<>> => Head(fifo[t]) \in Number /\ Tail(fifo[t]) \in Seq(Number)
    BY <1>1
  <1>3. /\ buf' = [buf EXCEPT ![t] = IF fifo[t] = <<>> THEN @ ELSE Head(fifo[t])]
        /\ fifo' = [fifo EXCEPT ![t] = IF @ = <<>> THEN @ ELSE Tail(@)]
    BY DEF MaxSubarray
  <1>4. buf' \in [Thread -> Number \cup {0}] /\ fifo' \in [Thread -> Seq(Number)]
    <2>1. CASE fifo[t] = <<>>
      BY <1>3, <2>1 DEF FieldsOK
    <2>2. CASE fifo[t] # <<>>
      <3>1. /\ buf' = [buf EXCEPT ![t] = Head(fifo[t])]
            /\ fifo' = [fifo EXCEPT ![t] = Tail(fifo[t])]
        BY <1>3, <2>2 DEF FieldsOK
      <3> QED
        BY <1>2, <2>2, <3>1 DEF FieldsOK
    <2> QED
      BY <2>1, <2>2
  <1>5. buf'[t] \in Number \cup {0}
    BY <1>4
  <1>6. Number \cup {0} \subseteq Int
    BY ThreadAssumption
  <1> QED
    BY <1>4, <1>5, <1>6

\* Every step keeps the types of the fields.
LEMMA NextFields == FieldsOK /\ [Next]_vars => FieldsOK'
  <1> SUFFICES ASSUME FieldsOK, [Next]_vars PROVE FieldsOK'
    OBVIOUS
  <1>1. CASE UNCHANGED vars \/ Terminated
    BY <1>1 DEF FieldsOK, vars, Terminated, sched, tcbs, signals, fifos
  <1>2. CASE Alarm \/ Suspend
    BY <1>2 DEF FieldsOK, Alarm, Suspend, sched, tcbs, fifos
  <1>3. ASSUME NEW t \in Thread, Writes(t)
        PROVE  FieldsOK'
    <2>1. PICK n \in Number : Write(t, n)
      BY <1>3 DEF Writes
    <2>2. fifo' \in [Thread -> Seq(Number)]
      BY <2>1 DEF Write, FieldsOK
    <2> QED
      BY <2>1, <2>2 DEF FieldsOK, Write, sched, tcbs, signals
  <1>4. ASSUME NEW t \in Thread, CloseWriter(t)
        PROVE  FieldsOK'
    BY <1>4 DEF FieldsOK, CloseWriter, sched, tcbs, signals
  <1>5. CASE Wake
    BY <1>5 DEF FieldsOK, Wake, tcbs, signals, fifos
  <1>6. ASSUME NEW t \in Thread, Round(t)
        PROVE  FieldsOK'
    <2>1. CASE Fibonacci(t)
      <3>1. /\ i' \in [Thread -> Nat]
            /\ x' \in [Thread -> Int] /\ y' \in [Thread -> Int]
        BY <2>1 DEF Fibonacci, FieldsOK
      <3>2. at' \in [Thread -> {"top", "read", "tstp", "alrm", "done"}]
        BY <2>1, EndRoundType DEF Fibonacci
      <3> QED
        BY <2>1, <3>1, <3>2 DEF Fibonacci, FieldsOK, signals, fifos
    <2>2. CASE Collatz(t)
      <3> DEFINE n == IF i[t] = 0 THEN Arg[t] ELSE x[t]
      <3>1. n \in Int
        BY ThreadAssumption DEF FieldsOK
      <3>2. n \div 2 \in Int /\ 3 * n + 1 \in Int
        BY <3>1
      <3>3. x' = [x EXCEPT ![t] = IF n % 2 = 0 THEN n \div 2 ELSE 3 * n + 1]
        BY <2>2 DEF Collatz
      <3> HIDE DEF n
      <3>4. x' \in [Thread -> Int] /\ i' \in [Thread -> Nat]
        BY <2>2, <3>2, <3>3 DEF Collatz, FieldsOK
      <3>5. at' \in [Thread -> {"top", "read", "tstp", "alrm", "done"}]
        BY <2>2, EndRoundType DEF Collatz
      <3> QED
        BY <2>2, <3>4, <3>5 DEF Collatz, FieldsOK, signals, fifos
    <2>3. CASE AsyncRead(t)
      BY <2>3 DEF AsyncRead, FieldsOK, signals, fifos
    <2>4. CASE MaxSubarray(t)
      <3>1. /\ buf' \in [Thread -> Number \cup {0}]
            /\ fifo' \in [Thread -> Seq(Number)]
            /\ buf'[t] \in Int /\ buf'[t] \in Number \cup {0}
        BY <2>4, ReadType
      <3>2. /\ x' = [x EXCEPT ![t] = Extend(@, buf'[t])]
            /\ y' = [y EXCEPT ![t] = IF x'[t] > @ THEN x'[t] ELSE @]
            /\ maxfd' = IF SharedSlot THEN buf'[t] ELSE maxfd
            /\ UNCHANGED <<i, signals, writer>>
        BY <2>4 DEF MaxSubarray
      <3>3. Extend(x[t], buf'[t]) \in Int
        BY <3>1 DEF Extend, FieldsOK
      <3>4. x' \in [Thread -> Int]
        BY <3>2, <3>3 DEF FieldsOK
      <3>5. y' \in [Thread -> Int]
        BY <3>2, <3>4 DEF FieldsOK
      <3>6. maxfd' \in Number \cup {0, TableSize + 1}
        BY <3>1, <3>2 DEF FieldsOK
      <3>7. at' \in [Thread -> {"top", "read", "tstp", "alrm", "done"}]
        BY <2>4, EndRoundType DEF MaxSubarray
      <3> QED
        BY <3>1, <3>2, <3>4, <3>5, <3>6, <3>7 DEF FieldsOK, signals
    <2>5. CASE YieldTstp(t)
      BY <2>5 DEF YieldTstp, Resumed, FieldsOK, fifos
    <2>6. CASE YieldAlrm(t)
      <3>1. at' \in [Thread -> {"top", "read", "tstp", "alrm", "done"}]
        BY <2>6 DEF YieldAlrm, Resumed, FieldsOK
      <3>2. pending' \subseteq {"TSTP", "ALRM"}
        BY <2>6 DEF YieldAlrm, FieldsOK, signals
      <3>3. Rearmed \in BOOLEAN
        BY DEF Rearmed
      <3>4. armed' = Rearmed \/ armed' = armed
        BY <2>6 DEF YieldAlrm, signals
      <3>5. armed' \in BOOLEAN
        BY <3>3, <3>4 DEF FieldsOK
      <3> QED
        BY <2>6, <3>1, <3>2, <3>5 DEF YieldAlrm, FieldsOK, fifos
    <2> QED
      BY <1>6, <2>1, <2>2, <2>3, <2>4, <2>5, <2>6 DEF Round
  <1> QED
    BY <1>1, <1>2, <1>3, <1>4, <1>5, <1>6 DEF Next, Program

\* The threads start in the ready queue.
LEMMA InitSched == Init => SchedInv
  <1> SUFFICES ASSUME Init PROVE SchedInv
    OBVIOUS
  <1>1. /\ Created \in Seq(Thread) /\ Created # <<>>
        /\ \A t \in Thread : Occurs(t, Created)
        /\ Distinct(Created)
    BY ThreadAssumption DEF Occurs, Distinct
  <1>2. ready = Created /\ waiting = <<>> /\ current = 1 /\ mode = "run"
    BY DEF Init
  <1>3. \A t \in Thread : Occurs(t, ready) /\ ~Waiting(t)
    BY <1>1, <1>2 DEF Waiting, Occurs
  <1>4. 1 \in 1 .. Len(Created) /\ <<>> \in Seq(Thread) /\ Distinct(<<>>)
    BY <1>1 DEF Distinct
  <1>5. QueuesOK
    BY <1>1, <1>2, <1>3, <1>4 DEF QueuesOK
  <1>6. FieldsOK
    BY ThreadAssumption DEF Init, FieldsOK
  <1>7. LiveStand /\ SwitchesWhereAllowed
    BY <1>3 DEF Init, LiveStand, Live, SwitchesWhereAllowed
  <1> QED
    BY <1>5, <1>6, <1>7 DEF SchedInv

\* In every run the queues are in order, hold exactly the threads that have not
\* exited, and every thread but the running one continues where the scheduler
\* was entered.
THEOREM SchedInvariant == Spec => []SchedInv
  <1>1. SchedInv /\ [Next]_vars => SchedInv'
    BY NextStands, NextFields DEF SchedInv, StandInv
  <1> QED
    BY <1>1, InitSched, PTL DEF Spec

\* rq_current never points behind the queue, and the variables have their types.
THEOREM SchedTypes == Spec => []TypeOK
  <1>1. SchedInv => TypeOK
    BY DEF SchedInv, QueuesOK, FieldsOK, TypeOK
  <1> QED
    BY <1>1, SchedInvariant, PTL

\* No thread is left between the two windows, and one that waits continues in
\* async_read.
THEOREM SwitchesAllowed == Spec => []SwitchesWhereAllowed
  <1>1. SchedInv => SwitchesWhereAllowed
    BY DEF SchedInv
  <1> QED
    BY <1>1, SchedInvariant, PTL

\* The scheduler jumps only to a thread, blocks only while threads wait, and
\* returns exactly when all have exited.
THEOREM JumpsSafe == Spec => []JumpsToReady
  <1>1. ASSUME SchedInv
        PROVE  JumpsToReady
    <2>1. ready \in Seq(Thread) /\ waiting \in Seq(Thread)
      BY <1>1 DEF SchedInv, QueuesOK
    <2>2. ready = <<>> <=> \A t \in Thread : ~Occurs(t, ready)
      BY <2>1, EmptyQueue
    <2>3. waiting = <<>> <=> \A t \in Thread : ~Waiting(t)
      BY <2>1, EmptyQueue DEF Waiting
    <2> QED
      BY <1>1, <2>2, <2>3 DEF SchedInv, QueuesOK, LiveStand, JumpsToReady
  <1> QED
    BY <1>1, SchedInvariant, PTL

\* A thread that has not exited stands in the two queues exactly once, and one
\* that has in none: no switch loses or doubles a thread.
THEOREM QueuesKeepThreads == Spec => []QueuesExact
  <1>1. ASSUME SchedInv, NEW t \in Thread
        PROVE  Cardinality({k \in DOMAIN (ready \o waiting) :
                               (ready \o waiting)[k] = t}) = IF Live(t) THEN 1 ELSE 0
    <2> DEFINE q == ready \o waiting
               places == {k \in DOMAIN q : q[k] = t}
    <2>1. /\ Distinct(q)
          /\ Occurs(t, q) <=> Occurs(t, ready) \/ Occurs(t, waiting)
      BY <1>1, Joined DEF SchedInv, QueuesOK, Waiting
    <2>2. Live(t) <=> Occurs(t, q)
      BY <1>1, <2>1 DEF SchedInv, LiveStand, Waiting
    <2> HIDE DEF q
    <2>3. CASE Live(t)
      <3>1. PICK k \in DOMAIN q : q[k] = t
        BY <2>2, <2>3 DEF Occurs
      <3>2. places = {k}
        BY <2>1, <3>1 DEF Distinct
      <3> QED
        BY <2>3, <3>2, FS_Singleton DEF q
    <2>4. CASE ~Live(t)
      <3>1. places = {}
        BY <2>2, <2>4 DEF Occurs
      <3> QED
        BY <2>4, <3>1, FS_EmptySet DEF q
    <2> QED
      BY <2>3, <2>4
  <1>2. SchedInv => QueuesExact
    BY <1>1 DEF QueuesExact
  <1> QED
    BY <1>2, SchedInvariant, PTL

-----------------------------------------------------------------------------
(* Preemption.                                                              *)

\* With a time slice, every step keeps an alarm counting or a SIGALRM waiting
\* for a window, until the program ends: the alarm sets the signal, and only
\* the handler, which sets the alarm again, takes it away.
THEOREM PreemptionStays == Spec => []PreemptionAlive
  <1>1. Init => PreemptionAlive
    BY DEF Init, PreemptionAlive
  <1>2. PreemptionAlive /\ [Next]_vars => PreemptionAlive'
    <2> SUFFICES ASSUME PreemptionAlive, [Next]_vars PROVE PreemptionAlive'
      OBVIOUS
    <2>1. CASE UNCHANGED vars \/ Terminated
      BY <2>1 DEF PreemptionAlive, vars, Terminated, sched, queues, signals
    <2>2. CASE Alarm \/ Suspend
      BY <2>2 DEF PreemptionAlive, Alarm, Suspend, sched, queues
    <2>3. ASSUME NEW t \in Thread, Writes(t) \/ CloseWriter(t)
          PROVE  PreemptionAlive'
      BY <2>3
      DEF PreemptionAlive, Writes, Write, CloseWriter, sched, queues, signals
    <2>4. CASE Wake
      BY <2>4 DEF PreemptionAlive, Wake, signals
    <2>5. ASSUME NEW t \in Thread,
                 Fibonacci(t) \/ Collatz(t) \/ AsyncRead(t) \/ MaxSubarray(t)
          PROVE  PreemptionAlive'
      BY <2>5
      DEF PreemptionAlive, Fibonacci, Collatz, AsyncRead, MaxSubarray, Runs, signals
    <2>6. ASSUME NEW t \in Thread, YieldTstp(t)
          PROVE  PreemptionAlive'
      BY <2>6 DEF PreemptionAlive, YieldTstp, Runs
    <2>7. ASSUME NEW t \in Thread, YieldAlrm(t)
          PROVE  PreemptionAlive'
      BY <2>7 DEF PreemptionAlive, YieldAlrm, Rearmed, Runs, signals
    <2> QED
      BY <2>1, <2>2, <2>3, <2>4, <2>5, <2>6, <2>7 DEF Next, Program, Round
  <1> QED
    BY <1>1, <1>2, PTL DEF Spec

-----------------------------------------------------------------------------
(* Numbers are counted once: where maxfd keeps its value and no writer leaves, *)
(* a thread that select() reported finds a number when it gets to read.       *)

\* A number that moves from the head of one sequence to the end of the other.
LEMMA MoveHead ==
    ASSUME NEW T, NEW c \in Seq(T), NEW s \in Seq(T), s # <<>>
    PROVE  Append(c, Head(s)) \o Tail(s) = c \o s
  <1>1. /\ Append(c, Head(s)) \in Seq(T) /\ Tail(s) \in Seq(T)
        /\ Len(Append(c, Head(s))) = Len(c) + 1
        /\ Len(Tail(s)) = Len(s) - 1
        /\ Len(c) \in Nat /\ Len(s) \in Nat /\ Len(s) >= 1
    OBVIOUS
  <1> DEFINE p == Append(c, Head(s)) \o Tail(s)
             q == c \o s
  <1>2. p \in Seq(T) /\ q \in Seq(T)
        /\ Len(p) = Len(c) + Len(s) /\ Len(q) = Len(c) + Len(s)
    BY <1>1
  <1>3. ASSUME NEW k \in 1 .. Len(p)
        PROVE  p[k] = q[k]
    <2>1. CASE k <= Len(c)
      BY <1>1, <1>2, <2>1
    <2>2. CASE k = Len(c) + 1
      BY <1>1, <1>2, <2>2
    <2>3. CASE k > Len(c) + 1
      BY <1>1, <1>2, <2>3
    <2> QED
      BY <1>1, <1>2, <2>1, <2>2, <2>3
  <1> HIDE DEF p, q
  <1>4. p = q
    BY <1>2, <1>3, SeqEqual
  <1> QED
    BY <1>4 DEF p, q

\* Adding e to c followed by s, or to s alone, is the same.
GoesBehind(c, s, e) == Append(c \o s, e) = c \o Append(s, e)

\* A number that is written goes behind what was written before.
LEMMA MoveLast ==
    ASSUME NEW T, NEW c \in Seq(T), NEW s \in Seq(T), NEW e \in T
    PROVE  GoesBehind(c, s, e)
  <1> DEFINE p == Append(c \o s, e)
             q == c \o Append(s, e)
  <1>1. Len(c) \in Nat /\ Len(s) \in Nat /\ Append(s, e) \in Seq(T)
        /\ Len(Append(s, e)) = Len(s) + 1
    OBVIOUS
  <1>2. p \in Seq(T) /\ q \in Seq(T)
        /\ Len(p) = Len(c) + Len(s) + 1 /\ Len(q) = Len(c) + Len(s) + 1
    BY <1>1
  <1>3. ASSUME NEW k \in 1 .. Len(p)
        PROVE  p[k] = q[k]
    BY <1>1, <1>2
  <1> HIDE DEF p, q
  <1>4. p = q
    BY <1>2, <1>3, SeqEqual
  <1> QED
    BY <1>4 DEF p, q, GoesBehind

\* A thread that is to read and does not wait has something to read.
Arrived == \A t \in Thread : at[t] = "read" /\ Occurs(t, ready) => fifo[t] # <<>>

\* Nothing overwrote maxfd, and no FIFO is at its end.
Unspoilt == maxfd = TableSize + 1 /\ \A t \in Thread : writer[t] # "closed"

HistoryOK ==
    /\ counted \in [Thread -> Seq(Number \cup {0})]
    /\ written \in [Thread -> Seq(Number \cup {0})]
    /\ CountedOnce

\* select() then reports only threads whose number has arrived.
LEMMA ReportedArrived ==
    ASSUME Unspoilt, NEW t \in Thread, Reported(t, maxfd) \/ Unblocks(t)
    PROVE  fifo[t] # <<>>
  BY ThreadAssumption DEF Unspoilt, Reported, Unblocks, Readable

\* A thread's call of the scheduler brings back only threads that were ready or
\* are reported, and it does not itself continue in async_read as a ready one.
LEMMA CallArrived ==
    ASSUME Unspoilt, Arrived, NEW t \in Thread,
           \A u \in Thread \ {t} : /\ at'[u] = at[u] /\ fifo'[u] = fifo[u]
                                   /\ Occurs(u, ready)' =>
                                          \/ Occurs(u, ready)
                                          \/ Reported(u, maxfd) \/ Unblocks(u),
           at'[t] = "read" => ~Occurs(t, ready)'
    PROVE  Arrived'
  <1> SUFFICES ASSUME NEW u \in Thread, at'[u] = "read", Occurs(u, ready)'
               PROVE  fifo'[u] # <<>>
    BY DEF Arrived
  <1>1. u # t /\ at[u] = "read" /\ fifo'[u] = fifo[u]
    OBVIOUS
  <1>2. Occurs(u, ready) \/ Reported(u, maxfd) \/ Unblocks(u)
    BY <1>1
  <1> QED
    BY <1>1, <1>2, ReportedArrived DEF Arrived

\* The end of a round, with maxfd as it was.
LEMMA EndRoundArrived ==
    ASSUME SchedInv, Unspoilt, Arrived, NEW t \in Thread, Runs(t), NEW last,
           EndRound(t, last, maxfd),
           \A u \in Thread \ {t} : fifo'[u] = fifo[u]
    PROVE  Arrived'
  <1>1. mode = "run" /\ Running = t
    BY DEF Runs
  <1>2. CASE last
    <2>1. at' = [at EXCEPT ![t] = "done"] /\ Leave(maxfd)
      BY <1>2 DEF EndRound
    <2>2. at'[t] = "done" /\ \A u \in Thread \ {t} : at'[u] = at[u]
      BY <2>1 DEF SchedInv, FieldsOK
    <2>3. \A u \in Thread : Occurs(u, ready)' => Occurs(u, ready) \/ Reported(u, maxfd)
      BY <1>1, <2>1, LeaveQueues DEF SchedInv
    <2> QED
      BY <2>2, <2>3, CallArrived
  <1>3. CASE ~last
    <2>1. at' = [at EXCEPT ![t] = "tstp"] /\ UNCHANGED queues
      BY <1>3 DEF EndRound
    <2>2. at'[t] = "tstp" /\ \A u \in Thread \ {t} : at'[u] = at[u]
      BY <2>1 DEF SchedInv, FieldsOK
    <2>3. \A u \in Thread : Occurs(u, ready)' => Occurs(u, ready)
      BY <2>1 DEF queues, Occurs
    <2> QED
      BY <2>2, <2>3, CallArrived
  <1> QED
    BY <1>2, <1>3

\* Preemption, or a window in which nothing was pending.
LEMMA WindowArrived ==
    ASSUME SchedInv, Unspoilt, Arrived, NEW t \in Thread, Runs(t),
           Preempt \/ UNCHANGED queues, UNCHANGED fifo,
           NEW a \in {"top", "alrm"}, at' = [at EXCEPT ![t] = a]
    PROVE  Arrived'
  <1>1. at'[t] = a /\ \A u \in Thread \ {t} : at'[u] = at[u]
    BY DEF SchedInv, FieldsOK
  <1>2. \A u \in Thread : Occurs(u, ready)' => Occurs(u, ready) \/ Reported(u, maxfd)
    <2>1. CASE Preempt
      BY <2>1, PreemptQueues DEF SchedInv, Runs
    <2>2. CASE UNCHANGED queues
      BY <2>2 DEF queues, Occurs
    <2> QED
      BY <2>1, <2>2
  <1> QED
    BY <1>1, <1>2, CallArrived

\* A step that moves no thread and takes no number away.
LEMMA QuietArrived ==
    ASSUME Arrived, UNCHANGED <<queues, at>>,
           \A u \in Thread : fifo[u] # <<>> => fifo'[u] # <<>>
    PROVE  Arrived'
  BY DEF Arrived, queues, Occurs

\* A step that neither writes nor reads a number.
LEMMA QuietHistory ==
    ASSUME HistoryOK, UNCHANGED <<counted, written, fifo>>
    PROVE  HistoryOK'
  BY DEF HistoryOK, CountedOnce

\* Every step keeps the counts right.
LEMMA NextCounted ==
    ASSUME SharedSlot = FALSE, WriterLeaves = FALSE,
           SchedInv, Unspoilt, Arrived, HistoryOK, [Next]_vars
    PROVE  Unspoilt' /\ Arrived' /\ HistoryOK'
  <1>1. CASE UNCHANGED vars \/ Terminated \/ Alarm \/ Suspend
    <2>1. UNCHANGED <<queues, maxfd, at, fifo, writer, counted, written>>
      BY <1>1 DEF vars, Terminated, Alarm, Suspend, sched, tcbs, fifos
    <2> QED
      BY <2>1, QuietArrived, QuietHistory DEF Unspoilt
  <1>2. ASSUME NEW t \in Thread, Writes(t) \/ CloseWriter(t)
        PROVE  Unspoilt' /\ Arrived' /\ HistoryOK'
    <2>1. PICK n \in Number : Write(t, n)
      BY <1>2 DEF Writes, CloseWriter
    <2>2. /\ fifo' = [fifo EXCEPT ![t] = Append(@, n)]
          /\ written' = [written EXCEPT ![t] = Append(@, n)]
          /\ writer' = [writer EXCEPT ![t] = "open"]
          /\ UNCHANGED <<queues, maxfd, at, counted>>
      BY <2>1 DEF Write, sched, tcbs
    <2>3. \A u \in Thread : fifo[u] \in Seq(Number)
      BY DEF SchedInv, FieldsOK
    <2>4. ASSUME NEW u \in Thread
          PROVE  fifo'[u] = IF u = t THEN Append(fifo[u], n) ELSE fifo[u]
      BY <2>2 DEF SchedInv, FieldsOK
    <2>5. ASSUME NEW u \in Thread, fifo[u] # <<>>
          PROVE  fifo'[u] # <<>>
      <3>1. fifo[u] \in Seq(Number) /\ Append(fifo[u], n) # <<>>
        BY <2>3
      <3> QED
        BY <2>4, <2>5, <3>1
    <2>6. Arrived'
      BY <2>2, <2>5, QuietArrived
    <2>7. Unspoilt'
      BY <2>2 DEF Unspoilt, SchedInv, FieldsOK
    <2>8. ASSUME NEW u \in Thread
          PROVE  written'[u] = counted'[u] \o fifo'[u]
      <3>1. CASE u = t
        <4> DEFINE T == Number \cup {0}
        <4>1. counted[t] \in Seq(T) /\ fifo[t] \in Seq(T) /\ n \in T
          BY <2>3 DEF HistoryOK
        <4>2. written'[t] = Append(counted[t] \o fifo[t], n)
          BY <2>2 DEF HistoryOK, CountedOnce
        <4>3. GoesBehind(counted[t], fifo[t], n)
          <5> HIDE DEF T
          <5> QED
            BY <4>1, MoveLast
        <4>4. fifo'[t] = Append(fifo[t], n) /\ counted'[t] = counted[t]
          BY <2>2, <2>4
        <4> QED
          BY <3>1, <4>2, <4>3, <4>4 DEF GoesBehind
      <3>2. CASE u # t
        BY <2>2, <2>4, <3>2 DEF HistoryOK, CountedOnce
      <3> QED
        BY <3>1, <3>2
    <2>9. written' \in [Thread -> Seq(Number \cup {0})]
      BY <2>2 DEF HistoryOK
    <2> QED
      BY <2>2, <2>6, <2>7, <2>8, <2>9 DEF HistoryOK, CountedOnce
  <1>3. CASE Wake
    <2>1. UNCHANGED <<maxfd, at, fifo, writer, counted, written>>
      BY <1>3 DEF Wake, tcbs, fifos
    <2>2. \A u \in Thread : Occurs(u, ready)' => Unblocks(u)
      BY <1>3, WakeQueues DEF SchedInv
    <2>3. Arrived'
      BY <2>1, <2>2, ReportedArrived DEF Arrived
    <2> QED
      BY <2>1, <2>3, QuietHistory DEF Unspoilt
  <1>4. ASSUME NEW t \in Thread, Fibonacci(t) \/ Collatz(t)
        PROVE  Unspoilt' /\ Arrived' /\ HistoryOK'
    <2>1. UNCHANGED <<maxfd, fifo, writer, counted, written>> /\ Runs(t)
      BY <1>4 DEF Fibonacci, Collatz, fifos
    <2>2. Arrived'
      BY <1>4, <2>1, EndRoundArrived DEF Fibonacci, Collatz
    <2> QED
      BY <2>1, <2>2, QuietHistory DEF Unspoilt
  <1>5. ASSUME NEW t \in Thread, AsyncRead(t)
        PROVE  Unspoilt' /\ Arrived' /\ HistoryOK'
    <2>1. /\ UNCHANGED <<maxfd, fifo, writer, counted, written>>
          /\ mode = "run" /\ Running = t /\ Await
          /\ at' = [at EXCEPT ![t] = "read"]
      BY <1>5 DEF AsyncRead, fifos, Runs
    <2>2. \A u \in Thread : Occurs(u, ready)' =>
              u # t /\ (Occurs(u, ready) \/ Reported(u, maxfd))
      BY <2>1, AwaitQueues DEF SchedInv
    <2>3. \A u \in Thread \ {t} : at'[u] = at[u]
      BY <2>1 DEF SchedInv, FieldsOK
    <2>4. Arrived'
      BY <2>1, <2>2, <2>3, CallArrived
    <2> QED
      BY <2>1, <2>4, QuietHistory DEF Unspoilt
  <1>6. ASSUME NEW t \in Thread, MaxSubarray(t)
        PROVE  Unspoilt' /\ Arrived' /\ HistoryOK'
    <2>1. Runs(t) /\ at[t] = "read" /\ fifo[t] # <<>>
      BY <1>6, RunningStands DEF MaxSubarray, Arrived, SchedInv
    <2>2. /\ maxfd' = maxfd
          /\ writer' = writer /\ written' = written
          /\ fifo' = [fifo EXCEPT ![t] = Tail(fifo[t])]
          /\ counted' = [counted EXCEPT ![t] = Append(@, buf'[t])]
          /\ buf' = [buf EXCEPT ![t] = Head(fifo[t])]
          /\ EndRound(t, i[t] >= Arg[t], maxfd)
      BY <1>6, <2>1 DEF MaxSubarray, SchedInv, FieldsOK
    <2>3. buf'[t] = Head(fifo[t]) /\ fifo'[t] = Tail(fifo[t])
      BY <2>2 DEF SchedInv, FieldsOK
    <2>4. \A u \in Thread \ {t} : fifo'[u] = fifo[u]
      BY <2>2 DEF SchedInv, FieldsOK
    <2>5. Arrived'
      BY <2>1, <2>2, <2>4, EndRoundArrived
    <2>6. /\ counted[t] \in Seq(Number \cup {0})
          /\ fifo[t] \in Seq(Number \cup {0})
          /\ Head(fifo[t]) \in Number \cup {0}
      <3>1. fifo[t] \in Seq(Number)
        BY DEF SchedInv, FieldsOK
      <3> QED
        BY <2>1, <3>1 DEF HistoryOK
    <2>7. counted' \in [Thread -> Seq(Number \cup {0})]
      BY <2>2, <2>3, <2>6 DEF HistoryOK
    <2>8. ASSUME NEW u \in Thread
          PROVE  written'[u] = counted'[u] \o fifo'[u]
      <3>1. CASE u = t
        <4>1. counted'[t] = Append(counted[t], Head(fifo[t]))
          BY <2>2, <2>3 DEF HistoryOK
        <4>2. written[t] = counted[t] \o fifo[t]
          BY DEF HistoryOK, CountedOnce
        <4>3. Append(counted[t], Head(fifo[t])) \o Tail(fifo[t])
                  = counted[t] \o fifo[t]
          BY <2>1, <2>6, MoveHead
        <4> QED
          BY <2>2, <2>3, <3>1, <4>1, <4>2, <4>3
      <3>2. CASE u # t
        <4>1. counted'[u] = counted[u]
          BY <2>2, <3>2 DEF HistoryOK
        <4> QED
          BY <2>2, <2>4, <3>2, <4>1 DEF HistoryOK, CountedOnce
      <3> QED
        BY <3>1, <3>2
    <2> QED
      BY <2>2, <2>5, <2>7, <2>8 DEF Unspoilt, HistoryOK, CountedOnce
  <1>7. ASSUME NEW t \in Thread, YieldTstp(t) \/ YieldAlrm(t)
        PROVE  Unspoilt' /\ Arrived' /\ HistoryOK'
    <2>1. /\ UNCHANGED <<maxfd, fifo, writer, counted, written>> /\ Runs(t)
          /\ Preempt \/ UNCHANGED queues
          /\ \E a \in {"top", "alrm"} : at' = [at EXCEPT ![t] = a]
      BY <1>7 DEF YieldTstp, YieldAlrm, fifos, Resumed
    <2>2. Arrived'
      BY <2>1, WindowArrived
    <2> QED
      BY <2>1, <2>2, QuietHistory DEF Unspoilt
  <1> QED
    BY <1>1, <1>2, <1>3, <1>4, <1>5, <1>6, <1>7 DEF Next, Program, Round

\* Where the compiler gives maxfd a place of its own and no writer closes its
\* FIFO, what a thread has counted and what it has still to read is, in order,
\* exactly what was written.
THEOREM NumbersCountedOnce ==
    SharedSlot = FALSE /\ WriterLeaves = FALSE => (Spec => []CountedOnce)
  <1> SUFFICES ASSUME SharedSlot = FALSE, WriterLeaves = FALSE
               PROVE  Spec => []CountedOnce
    OBVIOUS
  <1> DEFINE Inv == SchedInv /\ Unspoilt /\ Arrived /\ HistoryOK
  <1>1. Init => Inv
    <2> SUFFICES ASSUME Init PROVE Inv
      OBVIOUS
    <2>1. HistoryOK
      BY DEF Init, HistoryOK, CountedOnce
    <2> QED
      BY <2>1, InitSched DEF Init, Unspoilt, Arrived
  <1>2. Inv /\ [Next]_vars => Inv'
    BY NextCounted, NextStands, NextFields DEF SchedInv, StandInv
  <1>3. Inv => CountedOnce
    BY DEF HistoryOK
  <1> QED
    BY <1>1, <1>2, <1>3, PTL DEF Spec

-----------------------------------------------------------------------------
(* The largest sum of a subarray.  y is the largest one so far, x the largest *)
(* one that ends with the last number: neither is inductive without the other. *)

\* g[n] is the sum of the first n numbers of s.
Adds(g, s) ==
    /\ g \in [0 .. Len(s) -> Int]
    /\ g[0] = 0
    /\ \A n \in 1 .. Len(s) : g[n] = g[n - 1] + s[n]

\* PrefixSum adds number by number.
LEMMA PrefixSteps ==
    ASSUME NEW s \in Seq(Int)
    PROVE  Adds(PrefixSum(s), s)
  <1> DEFINE N == Len(s)
             step == [p \in Nat \X Int |->
                         IF p[1] \in 1 .. N THEN p[2] + s[p[1]] ELSE p[2]]
             chosen == CHOOSE g : g = [n \in 0 .. N |->
                           IF n = 0 THEN 0 ELSE g[n - 1] + s[n]]
             zero == 0
             Z == Int
  <1>1. N \in Nat /\ zero \in Z /\ \A n \in 1 .. N : s[n] \in Int
    OBVIOUS
  <1>2. step \in [Nat \X Z -> Z]
    OBVIOUS
  <1>3. ASSUME NEW n \in 1 .. N, NEW v \in Int
        PROVE  step[<<n, v>>] = v + s[n]
    <2>1. <<n, v>> \in Nat \X Int
      OBVIOUS
    <2> QED
      BY <2>1
  <1> HIDE DEF step, N, chosen, zero, Z
  <1>4. PICK f : Lists(f, N, Z, zero, step)
    BY <1>1, <1>2, Iterates
  <1>5. f \in [0 .. N -> Int] /\ f[0] = 0
    BY <1>4 DEF Lists, zero, Z
  <1>6. ASSUME NEW n \in 1 .. N
        PROVE  f[n] = f[n - 1] + s[n]
    <2>1. f[n] = step[<<n, f[n - 1]>>]
      BY <1>4 DEF Lists
    <2>2. f[n - 1] \in Int
      BY <1>1, <1>5
    <2> QED
      BY <1>3, <2>1, <2>2
  <1> DEFINE Solution(g) ==
                 g = [n \in 0 .. N |-> IF n = 0 THEN 0 ELSE g[n - 1] + s[n]]
  <1>7. Solution(f)
    <2>1. ASSUME NEW n \in 0 .. N
          PROVE  f[n] = IF n = 0 THEN 0 ELSE f[n - 1] + s[n]
      <3>1. n = 0 \/ n \in 1 .. N
        BY <1>1
      <3> QED
        BY <1>5, <1>6, <3>1
    <2>2. f = [n \in 0 .. N |-> f[n]]
      BY <1>5
    <2> QED
      BY <2>1, <2>2
  <1>8. Solution(chosen)
    <2>1. chosen = CHOOSE g : Solution(g)
      BY DEF chosen
    <2> HIDE DEF Solution
    <2> QED
      BY <1>7, <2>1
  <1>9. chosen[0] = f[0]
    BY <1>1, <1>5, <1>8
  <1>10. ASSUME NEW n \in 1 .. N, chosen[n - 1] = f[n - 1]
         PROVE  chosen[n] = f[n]
    <2>1. n \in 0 .. N /\ n # 0
      BY <1>1
    <2>2. chosen[n] = chosen[n - 1] + s[n]
      BY <1>8, <2>1
    <2> QED
      BY <1>6, <1>10, <2>2
  <1>11. \A n \in 0 .. N : chosen[n] = f[n]
    <2> HIDE DEF Solution, chosen, N
    <2>1. N \in Nat /\ RunsAlike(chosen, f, N)
      BY <1>1, <1>9, <1>10 DEF RunsAlike
    <2> QED
      BY <2>1, SameIteration
  <1>12. chosen = f
    <2>1. chosen = [n \in 0 .. N |-> chosen[n]]
      BY <1>8
    <2>2. f = [n \in 0 .. N |-> f[n]]
      BY <1>5
    <2> HIDE DEF Solution
    <2> QED
      BY <1>11, <2>1, <2>2
  <1>13. PrefixSum(s) = f
    BY <1>12 DEF PrefixSum, chosen, N
  <1> QED
    BY <1>5, <1>6, <1>13 DEF N, Adds

\* One number more leaves the sums before it alone.
LEMMA PrefixAppend ==
    ASSUME NEW s \in Seq(Int), NEW e \in Int
    PROVE  /\ \A n \in 0 .. Len(s) :
                  PrefixSum(Append(s, e))[n] = PrefixSum(s)[n]
           /\ PrefixSum(Append(s, e))[Len(s) + 1] = PrefixSum(s)[Len(s)] + e
  <1> DEFINE r == Append(s, e)
             p == PrefixSum(s)
             q == PrefixSum(r)
             N == Len(s)
  <1>1. /\ r \in Seq(Int) /\ N \in Nat /\ Len(r) = N + 1 /\ r[N + 1] = e
        /\ \A n \in 1 .. N : r[n] = s[n]
    OBVIOUS
  <1>2. Adds(p, s) /\ Adds(q, r)
    BY <1>1, PrefixSteps
  <1>3. /\ p[0] = 0 /\ q[0] = 0
        /\ \A n \in 1 .. N : p[n] = p[n - 1] + s[n]
        /\ \A n \in 1 .. N + 1 : q[n] = q[n - 1] + r[n]
    BY <1>1, <1>2 DEF Adds
  <1> HIDE DEF p, q, r, N
  <1>4. q[0] = p[0]
    BY <1>3
  <1>5. \A n \in 0 .. N : q[n] = p[n]
    <2>1. ASSUME NEW n \in 1 .. N, q[n - 1] = p[n - 1]
          PROVE  q[n] = p[n]
      <3>1. n \in 1 .. N + 1
        BY <1>1
      <3> QED
        BY <1>1, <1>3, <2>1, <3>1
    <2>2. N \in Nat /\ RunsAlike(q, p, N)
      BY <1>1, <1>4, <2>1 DEF RunsAlike
    <2> QED
      BY <2>2, SameIteration
  <1>6. q[N + 1] = p[N] + e
    <2>1. N + 1 \in 1 .. N + 1 /\ N \in 0 .. N /\ (N + 1) - 1 = N
      BY <1>1
    <2> QED
      BY <1>1, <1>3, <1>5, <2>1
  <1> QED
    BY <1>5, <1>6 DEF p, q, r, N

\* Of the sums p[b] - p[a], best is the largest with b = n and a < b, and top
\* the largest of all.
Largest(p, n, best, top) ==
    /\ best \in Int /\ top \in Int
    /\ \E a \in 0 .. n : best = p[n] - p[a]
    /\ \A a \in 0 .. n - 1 : p[n] - p[a] <= best
    /\ \E b \in 0 .. n : \E a \in 0 .. b : top = p[b] - p[a]
    /\ \A b \in 0 .. n : \A a \in 0 .. b : p[b] - p[a] <= top

\* One round of max_subarray finds them for one number more.
LEMMA LargestStep ==
    ASSUME NEW n \in Nat, NEW e \in Int, NEW best, NEW top,
           NEW p \in [0 .. n -> Int], NEW q \in [0 .. n + 1 -> Int],
           \A k \in 0 .. n : q[k] = p[k],
           q[n + 1] = p[n] + e,
           Largest(p, n, best, top)
    PROVE  Largest(q, n + 1, Extend(best, e),
                   IF Extend(best, e) > top THEN Extend(best, e) ELSE top)
  <1> DEFINE ext == Extend(best, e)
             max == IF ext > top THEN ext ELSE top
  <1>1. /\ best \in Int /\ top \in Int /\ ext \in Int /\ max \in Int
        /\ ext = (IF best > 0 THEN best + e ELSE e)
        /\ max >= top /\ max >= ext
    <2>1. best \in Int /\ top \in Int
      BY DEF Largest
    <2>2. ext \in Int /\ ext = (IF best > 0 THEN best + e ELSE e)
      BY <2>1 DEF Extend
    <2> HIDE DEF ext
    <2> QED
      BY <2>1, <2>2
  <1>2. \A k \in 0 .. n : p[k] \in Int
    OBVIOUS
  <1>3. \E a \in 0 .. n + 1 : ext = q[n + 1] - q[a]
    <2>1. CASE best > 0
      <3>1. PICK a \in 0 .. n : best = p[n] - p[a]
        BY DEF Largest
      <3>2. a \in 0 .. n + 1 /\ ext = q[n + 1] - q[a]
        BY <1>1, <1>2, <2>1, <3>1
      <3> QED
        BY <3>2
    <2>2. CASE ~(best > 0)
      <3>1. n \in 0 .. n + 1 /\ ext = q[n + 1] - q[n]
        BY <1>1, <1>2, <2>2
      <3> QED
        BY <3>1
    <2> QED
      BY <2>1, <2>2
  <1>4. ASSUME NEW a \in 0 .. n
        PROVE  q[n + 1] - q[a] <= ext
    <2>1. CASE a = n
      BY <1>1, <1>2, <2>1
    <2>2. CASE a # n
      <3>1. a \in 0 .. n - 1 /\ p[n] - p[a] <= best
        BY <2>2 DEF Largest
      <3> QED
        BY <1>1, <1>2, <3>1
    <2> QED
      BY <2>1, <2>2
  <1>5. \E b \in 0 .. n + 1 : \E a \in 0 .. b : max = q[b] - q[a]
    <2>1. CASE ext > top
      <3>1. PICK a \in 0 .. n + 1 : ext = q[n + 1] - q[a]
        BY <1>3
      <3>2. n + 1 \in 0 .. n + 1 /\ max = ext
        BY <2>1
      <3> QED
        BY <3>1, <3>2
    <2>2. CASE ~(ext > top)
      <3>1. PICK b \in 0 .. n : \E a \in 0 .. b : top = p[b] - p[a]
        BY DEF Largest
      <3>2. PICK a \in 0 .. b : top = p[b] - p[a]
        BY <3>1
      <3>3. a \in 0 .. n /\ b \in 0 .. n + 1 /\ max = top
        BY <2>2, <3>2
      <3>4. q[b] = p[b] /\ q[a] = p[a]
        BY <3>3
      <3> QED
        BY <3>2, <3>3, <3>4
    <2> QED
      BY <2>1, <2>2
  <1>6. ASSUME NEW b \in 0 .. n + 1, NEW a \in 0 .. b
        PROVE  q[b] - q[a] <= max
    <2>1. CASE b \in 0 .. n
      <3>1. a \in 0 .. n /\ p[b] - p[a] <= top
        <4>1. a \in 0 .. n /\ a \in 0 .. b
          BY <2>1
        <4>2. \A d \in 0 .. n : \A c \in 0 .. d : p[d] - p[c] <= top
          BY DEF Largest
        <4> QED
          BY <2>1, <4>1, <4>2
      <3>2. q[a] = p[a] /\ q[b] = p[b] /\ p[a] \in Int /\ p[b] \in Int
        BY <1>2, <2>1, <3>1
      <3> QED
        BY <1>1, <3>1, <3>2
    <2>2. CASE b = n + 1 /\ a \in 0 .. n
      <3>1. q[b] - q[a] <= ext /\ q[a] \in Int /\ q[b] \in Int
        BY <1>4, <2>2
      <3> QED
        BY <1>1, <3>1
    <2>3. CASE b = n + 1 /\ a = n + 1
      <3>1. p[0] - p[0] <= top /\ p[0] \in Int /\ q[b] \in Int
        BY <1>2 DEF Largest
      <3> QED
        BY <1>1, <2>3, <3>1
    <2> QED
      BY <2>1, <2>2, <2>3
  <1>7. (n + 1) - 1 = n
    OBVIOUS
  <1> HIDE DEF ext, max
  <1>8. Largest(q, n + 1, ext, max)
    BY <1>1, <1>3, <1>4, <1>5, <1>6, <1>7 DEF Largest
  <1> QED
    BY <1>8 DEF ext, max

\* x and y are what max_subarray has to know of the numbers it counted.
SumsOK ==
    /\ counted \in [Thread -> Seq(Int)]
    /\ \A t \in Thread : Task[t] = "max_subarray" =>
           Largest(PrefixSum(counted[t]), Len(counted[t]), x[t], y[t])

\* A step that does not concern the sums of a max_subarray thread.
LEMMA QuietSums ==
    ASSUME SumsOK, counted' = counted,
           \A t \in Thread : Task[t] = "max_subarray" => x'[t] = x[t] /\ y'[t] = y[t]
    PROVE  SumsOK'
  BY DEF SumsOK

\* A round of max_subarray.
LEMMA RoundSums ==
    ASSUME FieldsOK, SumsOK, NEW t \in Thread, MaxSubarray(t)
    PROVE  SumsOK'
  <1> DEFINE e == buf'[t]
             s == counted[t]
  <1>1. e \in Int /\ s \in Seq(Int) /\ x[t] \in Int /\ y[t] \in Int
    BY ReadType DEF SumsOK, FieldsOK
  <1>2. /\ counted' = [counted EXCEPT ![t] = Append(@, e)]
        /\ x' = [x EXCEPT ![t] = Extend(@, e)]
        /\ y' = [y EXCEPT ![t] = IF x'[t] > @ THEN x'[t] ELSE @]
    BY DEF MaxSubarray
  <1>3. /\ counted'[t] = Append(s, e)
        /\ x'[t] = Extend(x[t], e)
        /\ y'[t] = IF Extend(x[t], e) > y[t] THEN Extend(x[t], e) ELSE y[t]
    <2>1. x'[t] = Extend(x[t], e)
      BY <1>2 DEF FieldsOK
    <2>2. y'[t] = IF x'[t] > y[t] THEN x'[t] ELSE y[t]
      BY <1>2 DEF FieldsOK
    <2>3. counted'[t] = Append(s, e)
      BY <1>2 DEF SumsOK
    <2> QED
      BY <2>1, <2>2, <2>3
  <1>4. \A u \in Thread \ {t} :
            counted'[u] = counted[u] /\ x'[u] = x[u] /\ y'[u] = y[u]
    BY <1>2 DEF SumsOK, FieldsOK
  <1> HIDE DEF e
  <1>5. Append(s, e) \in Seq(Int) /\ Len(Append(s, e)) = Len(s) + 1 /\ Len(s) \in Nat
    BY <1>1
  <1>6. counted' \in [Thread -> Seq(Int)]
    BY <1>2, <1>5 DEF SumsOK
  <1>7. ASSUME NEW u \in Thread, Task[u] = "max_subarray"
        PROVE  Largest(PrefixSum(counted'[u]), Len(counted'[u]), x'[u], y'[u])
    <2>1. CASE u # t
      BY <1>4, <1>7, <2>1 DEF SumsOK
    <2>2. CASE u = t
      <3> DEFINE n == Len(s)
                 p == PrefixSum(s)
                 q == PrefixSum(Append(s, e))
      <3>1. Largest(p, n, x[t], y[t])
        BY <1>7, <2>2 DEF SumsOK
      <3>2. p \in [0 .. n -> Int] /\ q \in [0 .. n + 1 -> Int]
        BY <1>1, <1>5, PrefixSteps DEF Adds
      <3>3. (\A k \in 0 .. n : q[k] = p[k]) /\ q[n + 1] = p[n] + e
        BY <1>1, PrefixAppend
      <3> HIDE DEF p, q, n
      <3>4. n \in Nat
        BY <1>5 DEF n
      <3>5. Largest(q, n + 1, Extend(x[t], e),
                    IF Extend(x[t], e) > y[t] THEN Extend(x[t], e) ELSE y[t])
        BY <1>1, <3>1, <3>2, <3>3, <3>4, LargestStep
      <3> QED
        BY <1>3, <1>5, <2>2, <3>5 DEF q, n
    <2> QED
      BY <2>1, <2>2
  <1> QED
    BY <1>6, <1>7 DEF SumsOK

\* Every step keeps them.
LEMMA NextSums ==
    ASSUME FieldsOK, SumsOK, [Next]_vars
    PROVE  SumsOK'
  <1>1. CASE UNCHANGED <<x, y, counted>>
    BY <1>1, QuietSums
  <1>2. ASSUME NEW t \in Thread, Fibonacci(t) \/ Collatz(t)
        PROVE  SumsOK'
    <2>1. /\ counted' = counted /\ Task[t] # "max_subarray"
          /\ \A u \in Thread \ {t} : x'[u] = x[u] /\ y'[u] = y[u]
      <3>1. CASE Fibonacci(t)
        <4>1. CASE i'[t] <= 2
          BY <3>1, <4>1 DEF Fibonacci, FieldsOK
        <4>2. CASE ~(i'[t] <= 2)
          BY <3>1, <4>2 DEF Fibonacci, FieldsOK
        <4> QED
          BY <4>1, <4>2
      <3>2. CASE Collatz(t)
        BY <3>2 DEF Collatz, FieldsOK
      <3> QED
        BY <1>2, <3>1, <3>2
    <2> QED
      BY <2>1, QuietSums
  <1>3. ASSUME NEW t \in Thread, AsyncRead(t) \/ YieldTstp(t) \/ YieldAlrm(t)
        PROVE  UNCHANGED <<x, y, counted>>
    BY <1>3 DEF AsyncRead, YieldTstp, YieldAlrm
  <1>4. Wake \/ Alarm \/ Suspend \/ Terminated \/ UNCHANGED vars
            => UNCHANGED <<x, y, counted>>
    BY DEF Wake, Alarm, Suspend, Terminated, vars, tcbs
  <1>5. ASSUME NEW t \in Thread, Writes(t) \/ CloseWriter(t)
        PROVE  UNCHANGED <<x, y, counted>>
    BY <1>5 DEF Writes, Write, CloseWriter, tcbs
  <1> QED
    BY <1>1, <1>2, <1>3, <1>4, <1>5, RoundSums DEF Next, Program, Round

\* A largest sum is the one that BestOf chooses.
LEMMA LargestIsBest ==
    ASSUME NEW s \in Seq(Int), NEW best, NEW top,
           Largest(PrefixSum(s), Len(s), best, top)
    PROVE  top = BestOf(s)
  <1> DEFINE p == PrefixSum(s)
             n == Len(s)
  <1>1. n \in Nat /\ p \in [0 .. n -> Int]
    BY PrefixSteps DEF Adds
  <1> HIDE DEF p
  <1>2. ASSUME NEW v
        PROVE  v \in Sums(s) <=> \E b \in 0 .. n : \E a \in 0 .. b : v = p[b] - p[a]
    BY DEF Sums, p
  <1>3. Sums(s) \subseteq Int
    <2> SUFFICES ASSUME NEW v, v \in Sums(s) PROVE v \in Int
      OBVIOUS
    <2>1. PICK b \in 0 .. n : \E a \in 0 .. b : v = p[b] - p[a]
      BY <1>2
    <2>2. PICK a \in 0 .. b : v = p[b] - p[a]
      BY <2>1
    <2>3. a \in 0 .. n
      BY <1>1
    <2> QED
      BY <1>1, <2>2, <2>3
  <1>4. top \in Sums(s)
    BY <1>2 DEF Largest, p
  <1>5. ASSUME NEW v \in Sums(s)
        PROVE  v <= top
    BY <1>2 DEF Largest, p
  <1> DEFINE m == CHOOSE v \in Sums(s) : \A w \in Sums(s) : w <= v
  <1>6. m \in Sums(s) /\ \A w \in Sums(s) : w <= m
    BY <1>4, <1>5
  <1>7. m = BestOf(s)
    BY DEF BestOf
  <1> HIDE DEF m
  <1> QED
    BY <1>3, <1>4, <1>5, <1>6, <1>7

\* What max_subarray prints is at every moment the largest sum of a subarray of
\* what it has read, however its rounds are interleaved with the other threads'
\* and whatever is in maxfd.
THEOREM SubarrayBest == Spec => []BestSum
  <1> DEFINE Inv == SchedInv /\ SumsOK
  <1>1. Init => Inv
    <2> SUFFICES ASSUME Init PROVE Inv
      OBVIOUS
    <2> DEFINE none == <<>>
    <2>1. none \in Seq(Int) /\ Len(none) = 0
      OBVIOUS
    <2>2. Adds(PrefixSum(none), none)
      BY <2>1, PrefixSteps
    <2>3. Largest(PrefixSum(none), Len(none), 0, 0)
      <3>1. PrefixSum(none)[0] = 0 /\ 0 \in 0 .. 0 /\ 0 = 0 - 0
        BY <2>2 DEF Adds
      <3>2. \A b \in 0 .. 0 : b = 0
        OBVIOUS
      <3> QED
        BY <2>1, <3>1, <3>2 DEF Largest
    <2>4. \A t \in Thread : counted[t] = none /\ x[t] = 0 /\ y[t] = 0
      BY DEF Init
    <2>5. counted \in [Thread -> Seq(Int)]
      BY DEF Init
    <2> HIDE DEF none
    <2>6. SumsOK
      BY <2>3, <2>4, <2>5 DEF SumsOK
    <2> QED
      BY <2>6, InitSched
  <1>2. Inv /\ [Next]_vars => Inv'
    BY NextSums, NextStands, NextFields DEF SchedInv, StandInv
  <1>3. Inv => BestSum
    BY LargestIsBest DEF SumsOK, BestSum
  <1> QED
    BY <1>1, <1>2, <1>3, PTL DEF Spec

=============================================================================
