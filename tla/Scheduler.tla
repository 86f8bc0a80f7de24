------------------------------ MODULE Scheduler ------------------------------
(***************************************************************************)
(* The user-level threads of hw3: scheduler.c, threadtools.h, threads.c.   *)
(* All threads run in one process, one at a time.  A thread enters the     *)
(* scheduler by longjmp(sched_buf, n): with 1 from the signal handler when *)
(* it is preempted, with 2 when it waits for its FIFO, with 3 when it      *)
(* exits.  SIGTSTP and SIGALRM are blocked except in two short windows of  *)
(* thread_yield(), so that a stretch of a thread between two such points,  *)
(* and a run of the scheduler, is one step here.                           *)
(***************************************************************************)
EXTENDS Integers, FiniteSets, Sequences, SequencesExt

CONSTANTS
    Thread,        \* the threads main creates, in the order of Created
    Created,       \* the ready queue init_threads leaves
    Task,          \* Task[t]: which function t runs
    Arg,           \* Arg[t]: its argument
    Fd,            \* Fd[t]: the descriptor of t's FIFO
    TableSize,     \* getdtablesize()
    SharedSlot,    \* whether num of max_subarray overwrites maxfd: scheduler()
                   \* and the threads' functions run on the same stretch of
                   \* stack, and gcc -O0 gives the two locals one address
    Timeslice,     \* seconds between two alarms; 0 sets none
    Number,        \* the numbers written into the FIFOs
    WriterLeaves,  \* whether a FIFO's writer may close it
    MaxWrites      \* bound: numbers written into one FIFO

ASSUME ThreadAssumption ==
    /\ Created \in Seq(Thread)
    /\ Created # <<>>
    /\ \A t \in Thread : \E k \in DOMAIN Created : Created[k] = t
    /\ \A j, k \in DOMAIN Created : Created[j] = Created[k] => j = k
    /\ Task \in [Thread -> {"fibonacci", "collatz", "max_subarray"}]
    /\ Arg \in [Thread -> Nat]
    /\ TableSize \in Nat
    /\ Fd \in [Thread -> 0 .. TableSize]
    /\ SharedSlot \in BOOLEAN
    /\ Timeslice \in Nat
    /\ Number \subseteq Int
    /\ WriterLeaves \in BOOLEAN
    /\ MaxWrites \in Nat

VARIABLES
    ready,         \* ready_queue[0 .. rq_size - 1]
    current,       \* rq_current + 1
    waiting,       \* waiting_queue[0 .. wq_size - 1]
    maxfd,         \* what is in scheduler()'s local of that name
    mode,          \* "run", "select" (blocked in the scheduler) or "over"
    at,            \* at[t]: where the environment of t continues
    i, x, y, buf,  \* the fields of t's tcb
    pending,       \* the blocked signals that were raised
    armed,         \* alarm() is counting
    fifo,          \* fifo[t]: numbers written and not yet read
    writer,        \* writer[t]: "never" opened, "open", or "closed"
    counted,       \* history: the numbers t has added up
    written        \* history: the numbers written for t

queues == <<ready, current, waiting, mode>>
sched == <<queues, maxfd>>
tcbs == <<at, i, x, y, buf, counted>>
signals == <<pending, armed>>
fifos == <<fifo, writer, written>>
vars == <<sched, tcbs, signals, fifos>>

Running == ready[current]

-----------------------------------------------------------------------------
(* The scheduler.                                                           *)

\* The kernel calls a FIFO readable that has data or whose last writer is gone.
Readable_closedOnly(t) == writer[t] = "closed"
Readable_always(t) == TRUE
Readable(t) == fifo[t] # <<>> \/ writer[t] = "closed"

\* select(n, ...) with a zero timeout leaves t in the set: it looks at the
\* descriptors below n and, when there are none, leaves the set alone.
Reported(t, n) == n <= 0 \/ (n > Fd[t] /\ Readable(t))

\* select(maxfd, ...) without a timeout returns because of t: a negative maxfd
\* is an error, which returns at once; 0 is a wait for nothing.
Unblocks(t) == maxfd < 0 \/ (maxfd > Fd[t] /\ Readable(t))

\* The entries of queue q that are in S, in their order.  (SelectSeq says the
\* same, but the provers know nothing of it.)
Kept(q, S) ==
    LET kept[k \in 0 .. Len(q)] ==
            IF k = 0 THEN <<>>
            ELSE IF q[k] \in S THEN Append(kept[k - 1], q[k])
            ELSE kept[k - 1]
    IN  kept[Len(q)]

\* The scan of the waiting queue every entry into the scheduler begins with,
\* when its local maxfd holds n: who becomes ready and who goes on waiting.
Due(n) == {t \in Thread : Reported(t, n)}
Woken(n) == Kept(waiting, Due(n))
Sleeping_none(n) == waiting
Sleeping(n) == Kept(waiting, Thread \ Due(n))
Scanned(n) == ready \o Woken(n)

\* The running thread leaves queue q: the last entry takes its place.
WithoutRunning_shift(q) == SubSeq(q, 1, Len(q) - 1)
WithoutRunning(q) ==
    IF current = Len(q) THEN Front(q)
    ELSE [Front(q) EXCEPT ![current] = Last(q)]

\* longjmp(sched_buf, 1): the next thread in the queue runs.
Rotated_stay(q) == current
Rotated_past(q) == current + 1
Rotated(q) == IF current = Len(q) THEN 1 ELSE current + 1

Preempt ==
    /\ ready' = Scanned(maxfd)
    /\ waiting' = Sleeping(maxfd)
    /\ current' = Rotated(ready')
    /\ UNCHANGED mode

\* Whom the scheduler jumps to when its ready queue is r and its waiting one w.
Afterwards_noSelect(r, w) == IF r # <<>> THEN "run" ELSE "over"
Afterwards(r, w) ==
    IF r # <<>> THEN "run" ELSE IF w # <<>> THEN "select" ELSE "over"

\* longjmp(sched_buf, 2): the running thread waits for its FIFO.
Await ==
    /\ ready' = WithoutRunning(Scanned(maxfd))
    /\ waiting' = Append(Sleeping(maxfd), Running)
    /\ current' = IF current = Len(Scanned(maxfd)) THEN 1 ELSE current
    /\ mode' = Afterwards(ready', waiting')

\* longjmp(sched_buf, 3): the running thread, which left n in maxfd, is gone.
Leave(n) ==
    /\ ready' = WithoutRunning(Scanned(n))
    /\ waiting' = Sleeping(n)
    /\ current' = IF current = Len(Scanned(n)) THEN 1 ELSE current
    /\ mode' = Afterwards(ready', waiting')

\* The scheduler's select() without a timeout returns.
Wake ==
    /\ mode = "select"
    /\ \E k \in DOMAIN waiting : Unblocks(waiting[k])
    /\ LET woken == {t \in Thread : Unblocks(t)}
       IN  /\ ready' = Kept(waiting, woken)
           /\ waiting' = Kept(waiting, Thread \ woken)
    /\ mode' = "run"
    /\ UNCHANGED <<current, maxfd, tcbs, signals, fifos>>

-----------------------------------------------------------------------------
(* The threads.                                                             *)

Runs(t) == mode = "run" /\ Running = t

\* A round of thread t ends with n in maxfd: it exits or it yields.
EndRound(t, last, n) ==
    IF last THEN /\ at' = [at EXCEPT ![t] = "done"]
                 /\ Leave(n)
            ELSE /\ at' = [at EXCEPT ![t] = "tstp"]
                 /\ UNCHANGED queues

Fibonacci(t) ==
    /\ Runs(t) /\ at[t] = "top" /\ Task[t] = "fibonacci"
    /\ i' = [i EXCEPT ![t] = @ + 1]
    /\ IF i'[t] <= 2 THEN /\ x' = [x EXCEPT ![t] = 1]
                          /\ y' = [y EXCEPT ![t] = 1]
                     ELSE /\ x' = [x EXCEPT ![t] = y[t]]
                          /\ y' = [y EXCEPT ![t] = x[t] + y[t]]
    /\ EndRound(t, i'[t] = Arg[t], maxfd)
    /\ UNCHANGED <<buf, counted, maxfd, signals, fifos>>

\* Of i, only whether this is the first round is looked at.
Collatz(t) ==
    /\ Runs(t) /\ at[t] = "top" /\ Task[t] = "collatz"
    /\ i' = [i EXCEPT ![t] = 1]
    /\ LET n == IF i[t] = 0 THEN Arg[t] ELSE x[t]
       IN  x' = [x EXCEPT ![t] = IF n % 2 = 0 THEN n \div 2 ELSE 3 * n + 1]
    /\ EndRound(t, x'[t] = 1, maxfd)
    /\ UNCHANGED <<y, buf, counted, maxfd, signals, fifos>>

AsyncRead(t) ==
    /\ Runs(t) /\ at[t] = "top" /\ Task[t] = "max_subarray"
    /\ i' = [i EXCEPT ![t] = @ + 1]
    /\ at' = [at EXCEPT ![t] = "read"]
    /\ Await
    /\ UNCHANGED <<x, y, buf, counted, maxfd, signals, fifos>>

\* The best sum that ends here, after a sum of best and the number num.
Extend_always(best, num) == best + num
Extend(best, num) == IF best + num > num THEN best + num ELSE num

\* read() of an empty FIFO, at its end or with EAGAIN, leaves the earlier number
\* in buf.
MaxSubarray(t) ==
    /\ Runs(t) /\ at[t] = "read"
    /\ buf' = [buf EXCEPT ![t] = IF fifo[t] = <<>> THEN @ ELSE Head(fifo[t])]
    /\ fifo' = [fifo EXCEPT ![t] = IF @ = <<>> THEN @ ELSE Tail(@)]
    /\ counted' = [counted EXCEPT ![t] = Append(@, buf'[t])]
    /\ maxfd' = IF SharedSlot THEN buf'[t] ELSE maxfd
    /\ x' = [x EXCEPT ![t] = Extend(@, buf'[t])]
    /\ y' = [y EXCEPT ![t] = IF x'[t] > @ THEN x'[t] ELSE @]
    /\ EndRound(t, i[t] >= Arg[t], maxfd')
    /\ UNCHANGED <<i, signals, writer, written>>

\* Where a thread that was preempted in a window continues: behind both.
Resumed_again == "tstp"
Resumed == "top"

\* The first window of thread_yield(): only SIGTSTP can be delivered.
YieldTstp(t) ==
    /\ Runs(t) /\ at[t] = "tstp"
    /\ IF "TSTP" \in pending
       THEN /\ pending' = pending \ {"TSTP"}
            /\ at' = [at EXCEPT ![t] = Resumed]
            /\ Preempt
       ELSE /\ at' = [at EXCEPT ![t] = "alrm"]
            /\ UNCHANGED <<pending, queues>>
    /\ UNCHANGED <<armed, maxfd, i, x, y, buf, counted, fifos>>

\* The second window: only SIGALRM.  Its handler sets the alarm again.
Rearmed_not == armed
Rearmed == Timeslice > 0
YieldAlrm(t) ==
    /\ Runs(t) /\ at[t] = "alrm"
    /\ at' = [at EXCEPT ![t] = Resumed]
    /\ IF "ALRM" \in pending
       THEN /\ pending' = pending \ {"ALRM"}
            /\ armed' = Rearmed
            /\ Preempt
       ELSE UNCHANGED <<signals, queues>>
    /\ UNCHANGED <<maxfd, i, x, y, buf, counted, fifos>>

-----------------------------------------------------------------------------
(* The kernel, the user and the FIFOs' writers.                             *)

Alarm ==
    /\ armed
    /\ mode # "over"
    /\ armed' = FALSE
    /\ pending' = pending \cup {"ALRM"}
    /\ UNCHANGED <<sched, tcbs, fifos>>

Suspend ==
    /\ mode # "over"
    /\ "TSTP" \notin pending
    /\ pending' = pending \cup {"TSTP"}
    /\ UNCHANGED <<sched, tcbs, armed, fifos>>

Write(t, n) ==
    /\ Task[t] = "max_subarray" /\ at[t] # "done"
    /\ Len(written[t]) < MaxWrites
    /\ fifo' = [fifo EXCEPT ![t] = Append(@, n)]
    /\ written' = [written EXCEPT ![t] = Append(@, n)]
    /\ writer' = [writer EXCEPT ![t] = "open"]
    /\ UNCHANGED <<sched, tcbs, signals>>

CloseWriter(t) ==
    /\ WriterLeaves
    /\ writer[t] = "open"
    /\ writer' = [writer EXCEPT ![t] = "closed"]
    /\ UNCHANGED <<sched, tcbs, signals, fifo, written>>

\* The scheduler returns and the program ends.
Terminated == mode = "over" /\ UNCHANGED vars

-----------------------------------------------------------------------------
Init ==
    /\ ready = Created
    /\ current = 1
    /\ waiting = <<>>
    /\ maxfd = TableSize + 1
    /\ mode = "run"
    /\ at = [t \in Thread |-> "top"]
    /\ i = [t \in Thread |-> 0]
    /\ x = [t \in Thread |-> 0]
    /\ y = [t \in Thread |-> 0]
    /\ buf = [t \in Thread |-> 0]
    /\ pending = {}
    /\ armed = (Timeslice > 0)
    /\ fifo = [t \in Thread |-> <<>>]
    /\ writer = [t \in Thread |-> "never"]
    /\ counted = [t \in Thread |-> <<>>]
    /\ written = [t \in Thread |-> <<>>]

Round(t) ==
    Fibonacci(t) \/ Collatz(t) \/ AsyncRead(t) \/ MaxSubarray(t)
        \/ YieldTstp(t) \/ YieldAlrm(t)

Program == Wake \/ \E t \in Thread : Round(t)

Writes(t) == \E n \in Number : Write(t, n)

Next ==
    \/ Program
    \/ Alarm
    \/ Suspend
    \/ \E t \in Thread : Writes(t) \/ CloseWriter(t)
    \/ Terminated

Spec == Init /\ [][Next]_vars

\* The kernel runs the process and raises the alarm.
FairSpec == Spec /\ WF_vars(Program) /\ WF_vars(Alarm)

\* Besides, the writers write as many numbers as they may.
FedSpec == FairSpec /\ \A t \in Thread : WF_vars(Writes(t))

-----------------------------------------------------------------------------
Occurs(t, q) == \E k \in DOMAIN q : q[k] = t
Waiting(t) == Occurs(t, waiting)
Live(t) == at[t] # "done"

\* The types of the variables; rq_current never points behind the queue.
TypeOK ==
    /\ ready \in Seq(Thread)
    /\ waiting \in Seq(Thread)
    /\ current \in 1 .. (IF ready = <<>> THEN 1 ELSE Len(ready))
    /\ mode \in {"run", "select", "over"}
    /\ at \in [Thread -> {"top", "read", "tstp", "alrm", "done"}]
    /\ i \in [Thread -> Nat]
    /\ x \in [Thread -> Int] /\ y \in [Thread -> Int]
    /\ buf \in [Thread -> Number \cup {0}]
    /\ maxfd \in Number \cup {0, TableSize + 1}
    /\ pending \subseteq {"TSTP", "ALRM"}
    /\ armed \in BOOLEAN
    /\ fifo \in [Thread -> Seq(Number)]
    /\ writer \in [Thread -> {"never", "open", "closed"}]

\* A thread that has not exited stands in exactly one of the two queues and
\* there once, and one that has exited (its tcb's descriptor is closed) in
\* none: swapping the last entry into the place of the one that leaves
\* (scheduler.c 81-89, 118-124) loses no thread and keeps none twice, also
\* when the scan before it has just lengthened the queue.
QueuesExact ==
    \A t \in Thread :
        Cardinality({k \in DOMAIN (ready \o waiting) : (ready \o waiting)[k] = t})
            = IF Live(t) THEN 1 ELSE 0

\* The scheduler jumps only into a queue with a thread in it, blocks without a timeout only for the threads that wait, and
\* it returns only when no thread is left (scheduler.c 90-115, 126-152).
JumpsToReady ==
    /\ mode = "run" => ready # <<>>
    /\ mode = "select" => ready = <<>> /\ waiting # <<>> /\ current = 1
    /\ mode = "over" <=> \A t \in Thread : ~Live(t)

\* Every thread but the running one continues at a point where the scheduler
\* was entered: a thread that waits continues in async_read, and none is left
\* between the two windows of thread_yield(), where it would skip one.
SwitchesWhereAllowed ==
    \A t \in Thread :
        /\ Waiting(t) => at[t] = "read"
        /\ at[t] \in {"tstp", "alrm"} => Runs(t)

\* With a time slice there is, until the program ends, an alarm that counts
\* or a SIGALRM that waits for a window: one lost re-arm would end preemption.
PreemptionAlive ==
    Timeslice > 0 /\ mode # "over" => armed \/ "ALRM" \in pending

\* PrefixSum(s)[n] is the sum of the first n entries of s.
PrefixSum(s) ==
    LET sum[n \in 0 .. Len(s)] == IF n = 0 THEN 0 ELSE sum[n - 1] + s[n]
    IN  sum

\* The largest sum of consecutive entries of s; the empty one sums to 0.
Sums(s) ==
    UNION {{PrefixSum(s)[b] - PrefixSum(s)[a] : a \in 0 .. b} : b \in 0 .. Len(s)}
BestOf(s) == CHOOSE m \in Sums(s) : \A n \in Sums(s) : n <= m

\* What max_subarray prints is the largest sum of a subarray of what it read,
\* however its rounds are interleaved with switches (threads.c 54-88).
BestSum ==
    \A t \in Thread : Task[t] = "max_subarray" => y[t] = BestOf(counted[t])

\* While no writer closes its FIFO, a thread is woken for every number once
\* and counts the numbers in the order they were written (scheduler.c 42-67,
\* threads.c 62): sample_execution.sh 24-26 relies on it.
CountedOnce == \A t \in Thread : written[t] = counted[t] \o fifo[t]

\* A thread in the ready queue runs some day, although others never end.
NoStarvation == \A t \in Thread : Occurs(t, ready) ~> Runs(t)

\* A thread whose number has arrived leaves the waiting queue and runs, as
\* long as scheduler() hands its descriptor to select().
FifoServed ==
    \A t \in Thread :
        Waiting(t) /\ fifo[t] # <<>> /\ maxfd > Fd[t] ~> Runs(t)

\* When the tasks are finite and the numbers are written, all threads exit
\* and the scheduler returns to main.
AllFinish == <>(mode = "over" /\ \A t \in Thread : ~Live(t))

=============================================================================
