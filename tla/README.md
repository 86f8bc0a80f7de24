# A TLA+ model of SP_Homework

The repository holds four system-programming assignments in C. They are four
programs that do not talk to each other, and each is modelled on its own:

| directory | program | models |
|---|---|---|
| `src/hw1` | booking servers that share one record file | `BookingServers`, `BookingStore` |
| `src/hw2` | a championship fought by a tree of processes | `Tournament` |
| `src/hw3` | user-level threads with a scheduler | `Scheduler` |
| `src/hw4` | movie recommendation by threads or processes | `Ranking`, `Recommend`, `Recommender` |

## 1. Inventory

### hw1: read servers and write servers

* **State.** Per process: `requestP[]` (descriptor, `buf`, `id`, `stage`), the
  sets `master_set` and `working_set`, the tables `readLock[]` and
  `writeLock[]`. Shared: the file `bookingRecord` and the kernel's `fcntl` locks
  on it.
* **Operations.** One pass of the loop: `select`, at most one `accept`, then the
  handler of every ready descriptor. Stage 0 takes an id and opens a session,
  stage 1 ends it: `Exit` on a read server, one booking command on a write
  server.
* **Interaction.** Clients through sockets; processes only through the file and
  its locks. Any number of servers of both kinds may run.
* **Hard.** `fcntl` locks do not conflict inside a process and the tables do not
  reach across processes; clients hang up at any moment; a server dies with
  locks held, by a signal or by its own `exit` in several places; the file is
  read twice in one write session.
* **Correct when** sessions exclude each other, the lock tables and the record
  locks agree, what a client was shown stays true, accepted commands keep the
  booking rules, locks are given back, no connection is starved.

### hw2: battles, players and agents

* **State.** Per battle process: its round, its winner and the passing mode. Per
  player: its status. Between them pipes; between a beaten real player and its
  agent a FIFO in the file system.
* **Operations.** A battle reads both statuses, fights a round and answers both;
  after the last round it reaps the loser's process and carries statuses between
  the winner and its own parent. Players return, heal, hand over or finish.
* **Hard.** Twenty-nine processes run at once and block on pipes, on `waitpid` and
  on FIFOs that may not exist yet; whether each process leaves its loop in time
  is decided by the content of a status that others have changed.
* **Correct when** one champion is named, whatever the order of the processes,
  and every process ends, children before parents.

### hw3: scheduler and threads

* **State.** `ready_queue`, `waiting_queue`, `rq_current`; a tcb per thread; the
  signal masks, the pending signals and the alarm; the local `maxfd` of
  `scheduler()`.
* **Operations.** A thread enters `scheduler()` by `longjmp` with 1 (preempted by
  SIGTSTP or SIGALRM), 2 (waits for its FIFO) or 3 (exits). Signals are let in
  only in the two windows of `thread_yield()`.
* **Hard.** Queue surgery on indices that the scan before it has just changed,
  pending signals, an alarm that only its own handler sets again, and control
  that jumps back into frames that have returned.
* **Correct when** no thread is lost or doubled, all get their turns, input is
  taken once and in order, and the program ends when its threads have.

### hw4: recommendation servers

* **State.** `movies[]`, `reqs[]` and the loop variable of `main()`; per request the
  arrays of matching titles and scores, the worker tree's arguments (`l`, `r`,
  `layer`) and the output file.
* **Operations.** `main()` reads the requests and, built as `tserver`, starts a
  thread for each and ends itself; `deal_request` copies the matching titles,
  starts `merge_sort` and prints. A worker creates two workers for its halves,
  waits for both and merges; on the last layer it calls `sort()`. Built as
  `pserver`, `main()` does the same for the first request with processes and
  arrays in shared memory.
* **Interaction.** Only through the arrays, with no lock: `pthread_create`,
  `pthread_join`, `fork` and `wait` are the whole synchronisation.
* **Hard.** Which worker may touch which slot at which moment; whether the
  division into layers leaves every leaf a slot to sort; a leaf `exit(0)` that the
  main process takes when there are few matches; `thread_id[]`, which is written
  past its end when there are many requests; a title that is copied without its
  terminator; answers that stdio writes in pieces while another request may crash
  the process.
* **Correct when** no two workers race, no merge loses or doubles a title, each
  answer is the ranking of the matches, each request that can be answered is, and
  the server does not go down on a request it accepts.

Makefiles, samples and test data have no behaviour of their own.

## 2. Modules

### `BookingServers` (hw1)

One module for both builds of `server.c`: the constant `Reader` names the read
servers. A step is a pass through `select`/`accept`, or the **whole** handling of
one ready descriptor (`RdGrant`, `RdReject`, `RdLeave`, `WrGrant`, `WrCommit`,
...); the processes are single-threaded, and no handler of one process waits for
another (`F_SETLK` does not block). The one thing coarser than the system calls is
the atomicity of a handler between *processes*: a handler takes its lock before it
reads the file and gives it back after it has written, so that another process's
handler cannot tell where inside of it it ran.

* `file`, `flock`: the records and each process's lock on each record.
* `peer`, `inbox`, `backlog`: what the kernel knows of a connection.
* `stage`, `id`, `buf`, `master`, `working`, `readLock`, `writeLock`: the program's
  variables of these names. `working` holds the descriptors a pass has still to
  visit. A write server's `buf` is looked at only in the handler that filled it,
  and is not kept.
* `view[s][c]`: a history variable, the bookings the client was last shown.
* A handler that ends the process (`exit` in `handle_read`, `accept` with a full
  table, a NULL token) is `Exit`: tables, descriptors and locks are gone, the
  file stays.

Lines are members of a small set; `IdOf` and `Args` say what `validId` and `strtok`
with `isint` make of each, among them malformed, truncated and over-large ones. A
command is a C int per item and `Add` wraps at `WordMax`. What `read` returns is
`LinesRead`: the first line of what has arrived, the rest is dropped, and a
fragment without a newline is the program's `ERR_EXIT`. `AliasFd` stands for the
descriptor whose bit `FD_CLR(-1)` clears after a double close; the runs set it to
none.

### `BookingStore` (hw1, abstract)

What the service promises without processes, locks and descriptors: sessions
that open on a record, shared or alone, that close, and one legal update at the
end of a write session. `BookingServers!ImplementsStore` maps an open connection
in stage 1 to a session.

### `Scheduler` (hw3)

Control changes hands only where signals are open or `longjmp` is called, so a
step is a stretch of one thread up to the next such point: a round of
`fibonacci` or `collatz`, the way into `async_read`, the round behind it, and each
of the two windows of `thread_yield()`. The scheduler's part of the step is
`Preempt`, `Await` or `Leave`, each with the scan of the waiting queue that every
entry begins with. `mode = "select"` is the scheduler blocked in a `select` without
a timeout. `Kept(q, S)` is what remains of a queue after the loop that moves entries
one by one. The scan takes the value of `maxfd` as a parameter, because the exit of
`max_subarray` scans with the value it has itself just written.

`maxfd` is a local of `scheduler()` that is set once and used after every jump.
The thread functions are entered by `longjmp` into frames that have returned, on
the same stretch of stack, so what that local holds is undefined. `SharedSlot`
chooses between two builds: the value survives, or it is overwritten by `num` of
`max_subarray`. The second is what `gcc` makes of the Makefile's command line on
x86-64 (gcc 12: `maxfd` and `num` have one address; the effect was observed by
running the sample). `Reported` and `Unblocks` say what `select` does for a
`maxfd` that is negative, zero or too small. The other locals are written before
they are read.

### `Tournament` (hw2)

One program counter per process, two pipes per process to its parent, a FIFO per
agent. The bracket is a constant: `Left`, `Right`, `LoserAgent`, `Field` are the tables
`btl`, `field` and the agent table of `player.c`. `TreeAssumption` says that `btl` is a tree,
`SeedingAssumption` what else both tables have in common with any that can be played:
an agent plays on for the loser of one battle, every battle that a real player can
lose before the final has an agent (in `player.c` the battles D, E and G to J, and B), and
the battles can be fought one by one, each after those that feed it (`Feeds`). ATK and attribute never change and
are looked up by the player's id. `fork` and `exec` come before the first step: a
process that is not created yet is one that has not taken a step yet. `Prompt`
says whether an agent has its FIFO open before a loser's `sleep(1)` is over;
`HandOver` and `Depart` model what happens to a status when it has not. FIFOs of
an earlier championship may be there at the start.

### `Ranking` (hw4)

`sort()` of `lib.c` and the merge of `server.c` as functions on the two parallel
arrays, and the order they are meant to produce. Both loops are a `turn` and the
state `after` n turns. Strings are compared by the
rank of their title, by what a missing terminator appends and by the number of
secrets appended; two slots that are alike in score and title may be swapped.

### `Recommend` (hw4)

Both builds of `server.c`; `build` is chosen at the start. Workers are numbered as
in a heap (the children of `k` are `2k` and `2k + 1`), which is what the tree of
`create_thread` and of `fork` looks like without its thread and process ids. A step
is what one worker does between two points at which it creates, awaits or ends
another one, or one call of `sort()`: the workers share nothing but the arrays, and
`RaceFree` is what makes this granularity sound, since it says that a step
touches no slot another worker may touch meanwhile.

* `input` holds per request what `read_request` makes of its line: the matching
  movies and the score with each. `BadInput` are the inputs on which reading fails
  an assertion or runs into a wild pointer: too many requests, none for `pserver`, a
  number behind the last one (`SecondNumber`), a line with fewer than 19 genres
  (`ShortLine`, where `strtod` gets the NULL of `strtok`).
* `stage[q]`, `pc[q][k]`: where the request's thread and each worker are. `array[q]`
  and `arg[q][k]`: their data under the program's names.
* `Small` is the 10 of `deal_request`'s choice of a layer, 20 and 40 are its multiples. `Room` is the
  number of threads `main()` can start before `thread_id[i]` lies where its own `i` is:
  the loop then ends, and later requests are never started. `Dirty` are the sets
  of slots that happen to have garbage behind the title.
* The loop that prints is `Flush`, whenever it has filled stdio's buffer, and `PrintAnswer`,
  the `fclose` that writes the rest. Each `Flush` adds at least `Buffer` lines, and any number
  above that, since titles differ in length; a line of which it writes the beginning
  only is not counted until the rest of it is there.
* `Crash` is the end of a whole process by a signal; what has not been flushed is lost. In the `PROCESS` build only the
  main process can meet it (a `sort()` of no slots needs a request without a match).

### `Recommender` (hw4, abstract)

What stands in the answer to a request is the beginning of the ranking of its
matches; it grows (`Write`), is never revised, and is the whole ranking once it is
closed (`Close`). A server that goes down leaves an answer unfinished, but not wrong.
`Recommend!ImplementsRecommender` maps the lines of an output file to an answer and the
requests in stage `"done"` to the closed ones. It looks at which title a line holds, not
at garbage behind it (section 5).

### `Iteration`

No part of the program: induction over numbers and the solution of recursive
definitions, for the proofs.

### MC modules

`MCBooking`, `MCScheduler`, `MCTournament` and `MCRecommend` give the constants their
values. Definitions with an underscore in their name (`Booked_replaced`) are slips
one could make in the definition after them; each property is required to tell
one of them from the code.

## 3. Runs

| run | instance | shows |
|---|---|---|
| `booking_safety` | a read server with 2 connections, a write server with 1, one record, kills and restarts | exclusion across processes, lock accounting, views, legal bookings, and that the servers implement `BookingStore` |
| `booking_writer` | a write server with 2 connections, 2 records, every kind of line | the same inside one process, malformed and truncated lines, `master_set` |
| `booking_fair` | a read and a write server with 2 connections each, one record; clients of the read server hang up only in a session | nobody is starved in either, although a hang-up breaks off the write server's pass; read locks are given back; what is open is watched |
| `booking_orphan` | a read server whose clients hang up in stage 0 too | **violation**: a read lock nobody gives back |
| `booking_overflow` | a write server, a command whose sum wraps | **violation**: more than 15 items booked |
| `sched_finite` | the three threads, tasks that end, signals at any time | the sum is right, numbers are counted once, all exit |
| `sched_endless` | `collatz(0)`, a reader whose writer may leave, `maxfd` overwritten | queues exact, preemption alive, no starvation |
| `sched_recount` | sample 3 of `sample_execution.sh`, `maxfd` overwritten | **violation**: -1 is counted twice |
| `tournament` | 6 battles, 4 real players, 3 agents, all small HP | one champion, that of the sequential reference; all processes end in order |
| `tournament_slow` | 2 players, an agent more than a second late | **violation**: no champion |
| `recommend` | both builds; one request with 0 to 5 or 8 matches, or up to four requests at once; `pserver` with 15 and 16 matches (60 and 64 before scaling) too, the latter with layer 0 | no race, parts in order, nothing lost, crashes explained, files hold the beginning of the ranking at any moment, each request that can be answered is |
| `recommend_few` | `pserver`, one request of 1 to 5 matches | **violation**: an empty file |

**Bounds.** `MaxConn`, `MaxBacklog` (1) and `MaxInbox` (1 or 2) bound connections,
pending connections and unread chunks: two sessions of one process and one of
another are what exclusion, sharing and the last reader's unlock need; with two
connections a broken-off pass already leaves somebody behind, and a table of
two is full often enough for `EMFILE`. `CutStages` names the stages in which
clients of a read server may hang up: `{1}` leaves out the hang-up in stage 0 that
`booking_orphan` is about. `MaxLeak` bounds how often the
orphan grant is repeated, since each repetition raises a count for ever. Ints are
of six bits (`WordMax` 31) so that two commands reach the limit of 15 and one sum
wraps. `MaxWrites` (3) is the number of numbers the reader asks for; with numbers
of both signs this covers every shape of Kadane's step. The bracket of six
battles is the half of the real one under B with the agents' battles joined: it has
an agent that meets agents, a real player that meets an agent in the final, and
passing modes two deep. `MCRecommend` scales the limits 10, 20, 40 of the layers to 4, 8,
16: eight movies give trees that split twice, and 4 is the least value with which
no leaf is empty (an assumption of `Recommend`, so that it cannot be set lower).
Three scores for up to four matches and two for five give every pattern of ties.
`MaxReq` is 3 and `Room` 2, so that three requests exceed the latter and four the former.
`Buffer` is 5 and stands for 15 or 16: 4096 bytes of lines of up to 255. Eight matches then
fill a buffer once and 16 up to three times, and `<<Mixed, Req(0, <<>>)>>` lets a crash
meet a file that is half written. Every number of matches up to 5, 8, 15 and 16 are run, and
the last two with processes only: a tree of four layers has 15 workers, and with threads,
whose leaves sort in two steps, more states than a run of a few minutes visits. The proofs
have no such bound.

**Deadlock** is checked in every run but the violation run `tournament_slow`, in
which the processes do stop. `Terminated` and the last disjunct of
`Tournament!Next` are the regular ends.

**Fairness.** A process that can run is run by the kernel: weak fairness of
`Serve(s)`, of the scheduler's `Program`, of each process of the championship, of
hw4's `main()` and of each request together with its workers (`Serve(q)`).
`Alarm` is fair because time passes; in `sched_finite` the writers of FIFOs are fair
too, since nothing ends otherwise. Nothing is assumed of clients, of kills, of
restarts, of SIGTSTP, of FIFO writers elsewhere.

## 4. Proofs

All for every value of the constants, under the assumptions named in the modules that
declare them, which TLC evaluates in every run. Where a theorem needs more than
those, its statement says so. No step depends on a fast machine: the proof modules
check with a tenth of the provers' default timeouts (`tlapm --stretch 0.1`).

**hw1**, of `Spec` of `BookingServers`.

* `BookingServers_proofs`: `TypeCorrect`, one lemma per group of actions.
* `BookingSafety_proofs`: `SafetyInvariant`, the inductive invariant
  `TypeOK /\ WatchedOpen /\ LockInv /\ views`, and from it `LocksAccounted`,
  `SessionsExclude`, `ViewsCurrent`. Why each part is needed: `Exclusion` across
  processes follows from the compatibility of the processes' record locks, but
  only if every session is covered by its process's lock; that is
  `LockAccounting`, which counts sessions and so must know that a closing session
  is one of the counted ones; that needs `WatchedOpen` (whatever is in
  `working_set` is open), since a handler that ran on a closed descriptor would
  decrement a count twice. `ViewCurrent` rests on exclusion: only the one write
  session on a record can change it.
* `OpenAreWatched`: under `AliasFd \notin Conn` what is open is watched. Without that
  hypothesis it is false, since `FD_CLR(-1)` may take any bit; `WatchedUpToAlias` is what
  holds then, for write servers without any exception.
* `NoLockOrphaned`: under `0 \notin CutStages`, the hypothesis that no client of a read server
  hangs up before it has a session. Run `booking_orphan` shows that it cannot be
  dropped. The invariant behind it is that the counts of `readLock` are exact, where
  `LockAccounting` only bounds them. `WriteServerNoOrphan` needs no hypothesis.
* `BookingStore_proofs`: `CommitsOnly` for all commands; `BookingsStayLegal` and the
  refinement `ServersImplementStore` under two stated assumptions, that the file is
  legal at the start and that no command's sum leaves the C int. `CommitOnly` names the
  command: the one in the inbox of the client with the write session. The run
  `booking_overflow` shows that the second cannot be dropped.

**hw2**, of `Spec` of `Tournament`, in `Tournament_proofs`, for every bracket that is a tree:

* `TournamentTypes` and `ParentsOutliveChildren`, from `EndOrder`: a battle that is over knows a
  child as its winner and the loser's process is gone.
* `FightersMeetAlive`. That two different living players meet needs to know where
  every status in the pipes comes from. `OneStatus`: at most one is under way between a
  process and its parent, and only while the process waits. `OneBelow`: while a
  battle waits for its parent, the pipes to its winner are empty. `OwnStatus`: what a
  battle passes on is of the player that won it. `WinnerBegan` keeps the two sides
  of one battle apart, `OnePlace` says that no player is in two places, the FIFOs
  of the agents included, and `Alive` that only living statuses go up.
* `ChampionFixed`: the champion is that of the reference, whatever the order of the
  processes. The reference recurs over the battles and, in a battle, over the
  rounds, so both recursions are first shown to have a solution (`ResultsSolved`,
  `RoundsSolved`): a round takes HP from both, and a battle comes after those that feed
  it (`SeedingAssumption`). The invariant, `FollowsReference`, then says that the processes
  are somewhere on the way to that solution. `top[n]` is the last process on its way
  up that a status from `n` can come to before another battle stops it, and `hp[m]` what
  the player that comes from `m` has left in the battle above `m`. Every status on its way
  belongs to the player that comes from `top[n]` in the reference and has `hp[top[n]]`
  (`GoingOK`); a battle in progress has, from `hp` of its two children on, the result of
  the reference (`RoundsOK`); whoever is told an end is the winner or the loser of the
  reference (`ToldOK`); who has not come yet has the HP of the reference (`FreshOK`). `top`
  and `hp` exist in every state, which is all the proof needs of them: a round
  changes `hp` of two children, the end of a battle `top` of what is below the winner.
  Both recursions only terminate because no ATK is 0 (`StatusAssumption`; section 6).

**hw3**, of `Spec` of `Scheduler`, in `Scheduler_proofs`, for any threads, tasks and signals:

* `SchedInvariant`, and from it `SchedTypes`, `SwitchesAllowed`, `JumpsSafe` and `QueuesKeepThreads`: the
  two queues together hold each thread that has not exited once. It is a fact
  about `Kept`, the loop that moves what `select` reported, for every value of
  `maxfd`, so it does not depend on what the compiler makes of that local.
* `PreemptionStays`, for every order of the signals.
* `NumbersCountedOnce`, under `SharedSlot = FALSE` and `WriterLeaves = FALSE`. Run `sched_recount` violates it
  without the first; a writer that leaves makes `select` report an end of file,
  which the program takes for a number.
* `SubarrayBest`: after any sequence of numbers `max_subarray` holds the greatest sum of a run of
  them. The invariant (`SumsOK`) adds what the variable `num` is, the greatest sum of a run that
  ends here. Prefix sums make both facts about two positions of one function.

**hw4**, of `Spec` of `Recommend`, in `Recommend_proofs`: `TreesSound`, the invariant `Inv`, and from
it `NoRace` and `CrashesExplained`, for every data set, every input, every order of the
workers and any limit `Small` of at least 4. The tree of one request is
described by its functions `p` (where each worker is) and `a` (its part):

* `Bounded`, `Nested`, `Halved`, `Apart` give the absence of races. `Apart` says that workers of
  which neither is under the other have separate parts; a worker that is above
  another is not busy, since by `Nested` it is still waiting or finds all below it
  done. `Apart` is kept by creating a right child only because what is under the left
  one has stayed in the left half (`Halved`, `Nested`).
* `Sized` and `Alone` give `CrashOnlyOnNothing`: with the layer a worker is on grows the
  number of slots it must have left, 2 for a leaf (a thread sorts two halves of it), 4,
  8 and 16 above; `Layer` gives the root that many, and halving loses one layer at a
  time. A single match is the exception that `deal_request` sorts itself.
* `MainInOrder` and `RequestInOrder` tie this to `main()`: no request has workers before
  it has its arrays, and results are printed when worker 1 is done.

What is in the arrays is proved on top of that. `Ranking_proofs` proves of the sort and the
merge, for arrays of any length, that they permute the slots of their part,
touch no other, and leave it in order (`SortDoes`, `MergeDoes`, `KeptPart`). `DataInvariant` carries this
through the tree (`DataInv`): a finished worker has left its part in order, with
every title once and each secret added once (`WorkDone`); a worker that merges finds this true of both
halves (`Handed`), because nobody else may touch them (`Apart`). From it follow
`RecommendTypes`, `PartsStaySorted`, `NothingLost` and the refinement `RecommenderImplemented`. The refinement
needs one more step, that the sorted array is the reference `Ranked`: the title in
slot `i` has exactly `i` matches before it, and no other one has (`SlotCount`, `RankTaken`),
which is where equal titles with equal scores are the hard case. A flush then writes a
beginning of the ranking because the arrays are final once worker 1 is done (`Printable`,
`PrintsRanking`), for any `Buffer` of at least one line.

**Induction.** `Iteration` derives induction over the natural numbers from the library's
fact that `<` is well-founded. A recursive function names a solution of its
equation only if there is one, so each loop that is written as one (`Selected`, `Merged`,
`PrefixSum`) is shown to have one (`Iterates`, `SameIteration`) before it is reasoned about;
`Repetition` does the same for the recursions of the championship, where what is
defined next depends on all that was defined before.

**Only model-checked.** Every invariant and action property of a passing run is a theorem.
What is left is liveness: `Answered`, `AllFinish`, `NoStarvation`, `FifoServed`,
`ChampionNamed`, `AnswersCome`. Liveness needs `ENABLED`, which the provers do not reason about.

## 5. Findings

1. `server.c:248`: a hang-up in stage 0 of the read server can open a session from
   the last client's id; its read lock is never given back.
2. `server.c:394`: the sum compared with 15 wraps.
3. `scheduler.c:34`: `maxfd` does not survive the jumps in the Makefile's build: a
   number at or below 0 makes the reader count it again, one that is positive and
   not above the FIFO's descriptor leaves it waiting for ever.
4. `player.c:98`: `sleep(1)` stands for the synchronisation with the agent.
5. `server.c:195` (hw4): with fewer than 10 matches `pserver`'s main process is a leaf
   and exits before it prints; the file stays empty. Running the program on five
   matches shows it, and `tserver` writes them.

Met on the way in hw4, where the model has them but no run is devoted to them:

* A request that matches nothing brings either server down (`CrashOnlyOnNothing`), and a
  line with too few genres (`server.c:369`) or a number behind the last request
  (`server.c:277`) does so before any is answered (`BadInput`).
* `server.c:329`: more requests than `thread_id[]` holds overwrite the variable of the
  loop that starts them, and those behind are never started (`Room`; 34 in a build with
  gcc 12 at `-O0`). `AnswersCome` claims an answer for those in front only.
* `server.c:139`: titles are copied without a terminator, and what lies behind them on the heap
  is printed. Seen with 3000 movies and eight requests for `*` that differ in
  nothing but their id, on one processor, where glibc lets the threads share arenas: one of
  the files differs. `Dirty` has this for the comparisons of titles, where it does no
  harm (`PartsSorted`); no property is about the garbage in the files.

## 6. Not modelled

Message texts, logs and prompts; the octal reading of tokens with a leading zero;
`ENFILE`; where `FD_CLR(-1)` lands (a constant); a client that waits for the answer
to a line the server has dropped; FIFO records that are not five bytes; overflow
of the threads' sums; an ATK of 0. In hw4: how keywords and genre strings become
matches and normalised scores (floating point arithmetic; scores are small
naturals, and each request may have any; a negative one, which takes a negative
genre in the input, would fail the assertion of `argmax`); the piece of a line that a flush,
and a crash after it, may leave at the end of a file; garbage behind a title so long that
the assertion of `add_secret` fails; titles that are the beginning of
another title; two requests with one id, which share a file; `pthread_create`, `fork`
or `malloc` that fail.

## 7. Plan

1. Done: the models of all four programs, the abstract `BookingStore` and `Recommender`, and
   proofs of every safety property the runs check.
2. hw1: a client that waits for its answer, composed with a server, for the dropped
   second line.
