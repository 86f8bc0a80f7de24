--------------------------- MODULE BookingServers ---------------------------
(***************************************************************************)
(* The read servers and write servers of hw1/server.c.  Every server is a  *)
(* single-threaded process: a select() loop over its client connections.   *)
(* The processes share one file of booking records and keep each other out *)
(* of a record with fcntl() record locks; inside a process, where fcntl    *)
(* locks do not conflict, the tables readLock and writeLock count the      *)
(* sessions.                                                               *)
(*                                                                         *)
(* A step of this specification is one pass through select(), or the whole *)
(* handling of one ready descriptor.  Between any two steps clients may    *)
(* connect, send and hang up, other servers may run, and a server may be   *)
(* killed; the kernel then drops its locks and its connections.            *)
(***************************************************************************)
EXTENDS Integers, Sequences, FiniteSets

CONSTANTS
    Server,        \* the server processes
    Reader,        \* those built with READ_SERVER; the others are WRITE_SERVER
    MaxConn,       \* MaxConn[s]: free entries of the descriptor table of s (maxfd)
    NumRecords,    \* records in the file bookingRecord
    WordMax,       \* INT_MAX, scaled down
    InitFile,      \* the contents of the file when the system starts
    AliasFd,       \* the connection whose bit FD_CLR(-1) clears, or no connection
    Line,          \* the lines clients send
    IdOf,          \* validId() of a line: the record it names, or NoId
    Args,          \* the three blank-separated tokens of a line
    ExitLine,      \* "Exit"
    BlankLine,     \* what a never used buffer holds
    GarbledLine,   \* telnet's interrupt bytes followed by a line
    Fragment,      \* a piece of a line without its newline
    Interrupt,     \* telnet's interrupt bytes IAC IP alone
    Chunk,         \* Chunk[s]: what the clients of s send in this instance
    CutStages,     \* the stages in which clients of a read server hang up here
    NoId, NoView, BadToken, NoToken,
    MaxBacklog,    \* bound: connections waiting for accept()
    MaxInbox,      \* bound: chunks waiting in one socket buffer
    MaxLeak        \* bound: read counts after which no stage 0 client hangs up

Conn == UNION {1 .. MaxConn[s] : s \in Server}
Record == 0 .. NumRecords - 1
Item == 1 .. 3                          \* Food, Concert, Electronics
Word == -(WordMax + 1) .. WordMax       \* the values of a C int
Booking == [Item -> Word]
BookingLimit == 15

ASSUME ServerAssumption == Reader \subseteq Server
ASSUME SizeAssumption ==
    /\ MaxConn \in [Server -> Nat \ {0}]
    /\ IsFiniteSet(Conn)
    /\ NumRecords \in Nat \ {0}
    /\ WordMax \in Nat /\ WordMax >= BookingLimit
    /\ MaxBacklog \in Nat /\ MaxInbox \in Nat /\ MaxLeak \in Nat
ASSUME LineAssumption ==
    /\ IdOf \in [Line -> Record \cup {NoId}]
    /\ Args \in [Line -> [Item -> Word \cup {BadToken, NoToken}]]
    /\ {ExitLine, BlankLine, GarbledLine} \subseteq Line
    /\ {Fragment, Interrupt} \cap Line = {}
    /\ Chunk \in [Server -> SUBSET (Line \cup {Fragment, Interrupt})]
    /\ IdOf[BlankLine] = NoId
    /\ IdOf[GarbledLine] = NoId
ASSUME ValueAssumption ==
    /\ NoId \notin Record
    /\ NoView \notin Booking
    /\ CutStages \subseteq {0, 1}
ASSUME FileAssumption == InitFile \in [Record -> Booking]

VARIABLES
    file,        \* the bookings in bookingRecord
    flock,       \* flock[s][r]: the fcntl lock process s holds on record r
    up,          \* up[s]: process s runs
    backlog,     \* backlog[s]: connections the kernel holds for accept()
    peer,        \* peer[s][c]: descriptor c is closed, connected, or at end of file
    inbox,       \* inbox[s][c]: the unread chunks of descriptor c
    stage,       \* requestP[c].stage
    id,          \* requestP[c].id
    buf,         \* requestP[c].buf
    view,        \* view[s][c]: the bookings the client of c was last shown
    master,      \* master_set
    working,     \* the descriptors of working_set this pass has still to visit
    readLock,    \* readLock[s][r]
    writeLock    \* writeLock[s][r]

sockets  == <<peer, inbox>>
requests == <<stage, id, view>>
loop     == <<up, backlog>>
locks    == <<flock, readLock, writeLock>>
vars == <<file, flock, up, backlog, peer, inbox, stage, id, buf, view,
          master, working, readLock, writeLock>>

-----------------------------------------------------------------------------
(* Lines, words and the checks of a booking command.  A definition with an   *)
(* underscore in its name is a slip one could make in the definition that    *)
(* follows it; the runs are required to tell the two apart.                  *)

\* What one read() of the buffered chunks q makes of them.  Only the first
\* line is kept and everything behind it is dropped.  A fragment and what
\* completes it may be any line.
Unended(q) == \A k \in DOMAIN q : q[k] \notin Line
Disconnected(q) == Unended(q) /\ (q # <<>> => q[1] = Interrupt)
Unterminated(q) == Unended(q) /\ q # <<>> /\ q[1] # Interrupt
LinesRead(q) ==
    IF Unended(q) THEN {}
    ELSE IF q[1] \in Line THEN {q[1]}
    ELSE IF q[1] = Interrupt THEN {GarbledLine}
    ELSE Line

\* Addition of two C ints, which wraps in the unoptimised build.
Add(a, b) ==
    IF a + b > WordMax THEN a + b - 2 * (WordMax + 1)
    ELSE IF a + b < -(WordMax + 1) THEN a + b + 2 * (WordMax + 1)
    ELSE a + b

\* The tokens are converted from left to right: the first that is not a
\* number decides.  A missing one is a NULL that isint() dereferences.
WellFormed(l) == \A k \in Item : Args[l][k] \in Word
Malformed(l) == \E k \in Item : /\ Args[l][k] = BadToken
                                /\ \A j \in 1 .. k - 1 : Args[l][j] \in Word
Truncated(l) == \E k \in Item : /\ Args[l][k] = NoToken
                                /\ \A j \in 1 .. k - 1 : Args[l][j] \in Word

TotalAfter(b, a) ==
    Add(Add(Add(Add(Add(b[1], b[2]), b[3]), a[1]), a[2]), a[3])
TooMany_newItems(b, a) == Add(Add(a[1], a[2]), a[3]) > BookingLimit
TooMany(b, a) == TotalAfter(b, a) > BookingLimit
Negative_before(b, a) == \E k \in Item : b[k] < 0
Negative(b, a) == \E k \in Item : Add(a[k], b[k]) < 0
Booked_replaced(b, a) == a
Booked(b, a) == [k \in Item |-> Add(b[k], a[k])]

\* F_SETLK: only the locks of other processes conflict.
CanShare_always(s, r) == TRUE
CanShare(s, r) == \A t \in Server \ {s} : flock[t][r] # "wr"
CanOwn_besideReaders(s, r) == \A t \in Server \ {s} : flock[t][r] # "wr"
CanOwn(s, r) == \A t \in Server \ {s} : flock[t][r] = "none"

MayRead(s, r) == ~writeLock[s][r] /\ CanShare(s, r)
MayWrite_fcntlOnly(s, r) == CanOwn(s, r)
MayWrite(s, r) == ~writeLock[s][r] /\ readLock[s][r] = 0 /\ CanOwn(s, r)

-----------------------------------------------------------------------------
(* The pieces of the handlers.                                              *)

\* The id of a request that is not in use.
FreedId_minusOne == -1
FreedId == 0

\* The bits a FD_CLR of connection c takes out of master_set, where alias are
\* those it should not touch.
Cleared_none(c, alias) == alias
Cleared_all(c, alias) == Conn
Cleared(c, alias) == {c} \cup alias

\* FD_CLR, close and free_request of connection c; alias is what else FD_CLR
\* takes out of master_set.  free_request leaves buf as it is.
CloseConn(s, c, alias) ==
    /\ peer' = [peer EXCEPT ![s][c] = "none"]
    /\ inbox' = [inbox EXCEPT ![s][c] = <<>>]
    /\ stage' = [stage EXCEPT ![s][c] = 0]
    /\ id' = [id EXCEPT ![s][c] = FreedId]
    /\ view' = [view EXCEPT ![s][c] = NoView]
    /\ master' = [master EXCEPT ![s] = @ \ Cleared(c, alias)]

\* The record is read from the file and shown to the client.
ShowRecord(s, c, r) ==
    /\ inbox' = [inbox EXCEPT ![s][c] = <<>>]
    /\ stage' = [stage EXCEPT ![s][c] = 1]
    /\ id' = [id EXCEPT ![s][c] = r]
    /\ view' = [view EXCEPT ![s][c] = file[r]]
    /\ UNCHANGED <<peer, master>>

\* A process ends: its tables, descriptors and record locks are gone.
Exit(s) ==
    /\ up' = [up EXCEPT ![s] = FALSE]
    /\ backlog' = [backlog EXCEPT ![s] = 0]
    /\ peer' = [peer EXCEPT ![s] = [c \in Conn |-> "none"]]
    /\ inbox' = [inbox EXCEPT ![s] = [c \in Conn |-> <<>>]]
    /\ stage' = [stage EXCEPT ![s] = [c \in Conn |-> 0]]
    /\ id' = [id EXCEPT ![s] = [c \in Conn |-> FreedId]]
    /\ buf' = [buf EXCEPT ![s] = [c \in Conn |-> BlankLine]]
    /\ view' = [view EXCEPT ![s] = [c \in Conn |-> NoView]]
    /\ master' = [master EXCEPT ![s] = {}]
    /\ working' = [working EXCEPT ![s] = {}]
    /\ readLock' = [readLock EXCEPT ![s] = [r \in Record |-> 0]]
    /\ writeLock' = [writeLock EXCEPT ![s] = [r \in Record |-> FALSE]]
    /\ flock' = [flock EXCEPT ![s] = [r \in Record |-> "none"]]
    /\ UNCHANGED file

\* Descriptor c is the next one the for loop finds set in working_set.
Handles(s, c) ==
    /\ up[s]
    /\ c \in working[s]
    /\ \A d \in working[s] : c <= d

Visited(s, c) == working' = [working EXCEPT ![s] = @ \ {c}]

\* The write session of connection c ends and its record is unlocked.
EndWrite_idAfterFree(s, c) ==
    /\ CloseConn(s, c, {})
    /\ writeLock' = [writeLock EXCEPT ![s][FreedId] = FALSE]
    /\ flock' = [flock EXCEPT ![s][FreedId] = "none"]
    /\ UNCHANGED <<readLock, loop, buf>>
EndWrite(s, c) ==
    /\ CloseConn(s, c, {})
    /\ writeLock' = [writeLock EXCEPT ![s][id[s][c]] = FALSE]
    /\ flock' = [flock EXCEPT ![s][id[s][c]] = "none"]
    /\ UNCHANGED <<readLock, loop, buf>>

-----------------------------------------------------------------------------
(* Clients and the operating system.                                        *)

Connect(s) ==
    /\ up[s]
    /\ backlog[s] < MaxBacklog
    /\ backlog' = [backlog EXCEPT ![s] = @ + 1]
    /\ UNCHANGED <<file, up, sockets, requests, buf, master, working, locks>>

\* A client of a read server that would end its stage 0 connection without a
\* line does so only in the instances that allow it, and within MaxLeak.
MayCut(s, c) ==
    /\ s \in Reader => stage[s][c] \in CutStages
    /\ stage[s][c] = 0 => \A r \in Record : readLock[s][r] <= MaxLeak

Send(s, c, m) ==
    /\ peer[s][c] = "up"
    /\ Len(inbox[s][c]) < MaxInbox
    /\ m = Interrupt => MayCut(s, c)
    /\ inbox' = [inbox EXCEPT ![s][c] = Append(@, m)]
    /\ UNCHANGED <<file, loop, peer, requests, buf, master, working, locks>>

HangUp(s, c) ==
    /\ peer[s][c] = "up"
    /\ MayCut(s, c)
    /\ peer' = [peer EXCEPT ![s][c] = "gone"]
    /\ UNCHANGED <<file, loop, inbox, requests, buf, master, working, locks>>

\* A server is killed, or by SIGPIPE when it writes to a client that is gone.
Die(s) == up[s] /\ Exit(s)

Restart(s) ==
    /\ ~up[s]
    /\ up' = [up EXCEPT ![s] = TRUE]
    /\ UNCHANGED <<file, backlog, sockets, requests, buf, master, working, locks>>

-----------------------------------------------------------------------------
(* select() and accept().                                                   *)

Ready(s) == {c \in master[s] : \/ inbox[s][c] # <<>>
                               \/ peer[s][c] = "gone"}

Select(s) ==
    /\ up[s]
    /\ working[s] = {}
    /\ backlog[s] = 0
    /\ Ready(s) # {}
    /\ working' = [working EXCEPT ![s] = Ready(s)]
    /\ UNCHANGED <<file, loop, sockets, requests, buf, master, locks>>

\* One connection is accepted per pass, on the lowest free descriptor; it is
\* not in this pass's working_set.
SelectAccept(s, c) ==
    /\ up[s]
    /\ working[s] = {}
    /\ backlog[s] > 0
    /\ c <= MaxConn[s]
    /\ peer[s][c] = "none"
    /\ \A d \in Conn : d < c => peer[s][d] # "none"
    /\ working' = [working EXCEPT ![s] = Ready(s)]
    /\ backlog' = [backlog EXCEPT ![s] = @ - 1]
    /\ peer' = [peer EXCEPT ![s][c] = "up"]
    /\ stage' = [stage EXCEPT ![s][c] = 0]
    /\ master' = [master EXCEPT ![s] = @ \cup {c}]
    /\ UNCHANGED <<file, up, inbox, id, buf, view, locks>>

\* The descriptor table is full: accept() fails with EMFILE, which is none of
\* the errors the loop continues on.
SelectFull(s) ==
    /\ up[s]
    /\ working[s] = {}
    /\ backlog[s] > 0
    /\ \A c \in 1 .. MaxConn[s] : peer[s][c] # "none"
    /\ Exit(s)

\* handle_read() gives up on a buffer that holds no newline.
ReadUnterminated(s, c) ==
    /\ Handles(s, c)
    /\ Unterminated(inbox[s][c])
    /\ Exit(s)

-----------------------------------------------------------------------------
(* The read server.                                                         *)

\* The descriptor is open and a line was read: the id is looked at.
RdGrant(s, c, l) ==
    /\ s \in Reader
    /\ Handles(s, c)
    /\ stage[s][c] = 0
    /\ l \in LinesRead(inbox[s][c])
    /\ IdOf[l] # NoId
    /\ MayRead(s, IdOf[l])
    /\ ShowRecord(s, c, IdOf[l])
    /\ buf' = [buf EXCEPT ![s][c] = l]
    /\ readLock' = [readLock EXCEPT ![s][IdOf[l]] = @ + 1]
    /\ flock' = [flock EXCEPT ![s][IdOf[l]] = "rd"]
    /\ Visited(s, c)
    /\ UNCHANGED <<file, loop, writeLock>>

RdReject(s, c, l) ==
    /\ s \in Reader
    /\ Handles(s, c)
    /\ stage[s][c] = 0
    /\ l \in LinesRead(inbox[s][c])
    /\ IdOf[l] # NoId => ~MayRead(s, IdOf[l])
    /\ CloseConn(s, c, {})
    /\ buf' = [buf EXCEPT ![s][c] = l]
    /\ Visited(s, c)
    /\ UNCHANGED <<file, loop, locks>>

\* The client is gone.  Its request is freed, but the handler goes on to look
\* at the id left in buf by this descriptor's earlier client, and opens a read
\* session for it on the closed descriptor -1.
RdGoneGrant(s, c) ==
    /\ s \in Reader
    /\ Handles(s, c)
    /\ stage[s][c] = 0
    /\ Disconnected(inbox[s][c])
    /\ IdOf[buf[s][c]] # NoId
    /\ MayRead(s, IdOf[buf[s][c]])
    /\ peer' = [peer EXCEPT ![s][c] = "none"]
    /\ inbox' = [inbox EXCEPT ![s][c] = <<>>]
    /\ stage' = [stage EXCEPT ![s][c] = 1]
    /\ id' = [id EXCEPT ![s][c] = IdOf[buf[s][c]]]
    /\ master' = [master EXCEPT ![s] = @ \ Cleared(c, {})]
    /\ readLock' = [readLock EXCEPT ![s][IdOf[buf[s][c]]] = @ + 1]
    /\ flock' = [flock EXCEPT ![s][IdOf[buf[s][c]]] = "rd"]
    /\ Visited(s, c)
    /\ UNCHANGED <<file, loop, buf, view, writeLock>>

\* The same with no usable id: the request is freed a second time, and
\* FD_CLR(-1) clears a bit that is not this connection's.
RdGoneReject(s, c) ==
    /\ s \in Reader
    /\ Handles(s, c)
    /\ stage[s][c] = 0
    /\ Disconnected(inbox[s][c])
    /\ IdOf[buf[s][c]] # NoId => ~MayRead(s, IdOf[buf[s][c]])
    /\ CloseConn(s, c, {AliasFd})
    /\ Visited(s, c)
    /\ UNCHANGED <<file, loop, buf, locks>>

\* The count of the record's sessions reaches 0.
LastReader_always(s, r) == TRUE
LastReader_afterwards(s, r) == readLock[s][r] = 0
LastReader(s, r) == readLock[s][r] = 1

\* Exit, or the client is gone: the last session on the record unlocks it.
\* The comparison with Exit is not reached when nothing was read.
RdLeave(s, c) ==
    /\ s \in Reader
    /\ Handles(s, c)
    /\ stage[s][c] = 1
    /\ \/ Disconnected(inbox[s][c]) /\ UNCHANGED buf
       \/ /\ ExitLine \in LinesRead(inbox[s][c])
          /\ buf' = [buf EXCEPT ![s][c] = ExitLine]
    /\ CloseConn(s, c, {})
    /\ readLock' = [readLock EXCEPT ![s][id[s][c]] = @ - 1]
    /\ flock' = IF LastReader(s, id[s][c])
                THEN [flock EXCEPT ![s][id[s][c]] = "none"]
                ELSE flock
    /\ Visited(s, c)
    /\ UNCHANGED <<file, loop, writeLock>>

\* Any other line of a read session is taken and ignored.
RdIgnore(s, c, l) ==
    /\ s \in Reader
    /\ Handles(s, c)
    /\ stage[s][c] = 1
    /\ l \in LinesRead(inbox[s][c])
    /\ l # ExitLine
    /\ inbox' = [inbox EXCEPT ![s][c] = <<>>]
    /\ buf' = [buf EXCEPT ![s][c] = l]
    /\ Visited(s, c)
    /\ UNCHANGED <<file, loop, peer, requests, master, locks>>

-----------------------------------------------------------------------------
(* The write server.  It looks at buf only in the handler that filled it,   *)
(* so its buf is not kept from step to step.                                *)

WrGrant(s, c, l) ==
    /\ s \notin Reader
    /\ Handles(s, c)
    /\ stage[s][c] = 0
    /\ l \in LinesRead(inbox[s][c])
    /\ IdOf[l] # NoId
    /\ MayWrite(s, IdOf[l])
    /\ ShowRecord(s, c, IdOf[l])
    /\ writeLock' = [writeLock EXCEPT ![s][IdOf[l]] = TRUE]
    /\ flock' = [flock EXCEPT ![s][IdOf[l]] = "wr"]
    /\ Visited(s, c)
    /\ UNCHANGED <<file, loop, buf, readLock>>

\* The client is gone, its id is not valid, or the record is locked.
WrReject(s, c) ==
    /\ s \notin Reader
    /\ Handles(s, c)
    /\ stage[s][c] = 0
    /\ \/ Disconnected(inbox[s][c])
       \/ \E l \in LinesRead(inbox[s][c]) :
              IdOf[l] # NoId => ~MayWrite(s, IdOf[l])
    /\ CloseConn(s, c, {})
    /\ Visited(s, c)
    /\ UNCHANGED <<file, loop, buf, locks>>

\* A write client that is gone ends its session and the whole pass.
WrLeave(s, c) ==
    /\ s \notin Reader
    /\ Handles(s, c)
    /\ stage[s][c] = 1
    /\ Disconnected(inbox[s][c])
    /\ EndWrite(s, c)
    /\ working' = [working EXCEPT ![s] = {}]
    /\ UNCHANGED file

\* The record is read again and the command is refused.
Refused(s, c, l) ==
    \/ Malformed(l)
    \/ /\ WellFormed(l)
       /\ \/ TooMany(file[id[s][c]], Args[l])
          \/ Negative(file[id[s][c]], Args[l])

WrRefuse(s, c, l) ==
    /\ s \notin Reader
    /\ Handles(s, c)
    /\ stage[s][c] = 1
    /\ l \in LinesRead(inbox[s][c])
    /\ Refused(s, c, l)
    /\ EndWrite(s, c)
    /\ Visited(s, c)
    /\ UNCHANGED file

WrCommit(s, c, l) ==
    /\ s \notin Reader
    /\ Handles(s, c)
    /\ stage[s][c] = 1
    /\ l \in LinesRead(inbox[s][c])
    /\ WellFormed(l)
    /\ ~Refused(s, c, l)
    /\ file' = [file EXCEPT ![id[s][c]] = Booked(@, Args[l])]
    /\ EndWrite(s, c)
    /\ Visited(s, c)

\* A command of fewer than three tokens.
WrTruncated(s, c, l) ==
    /\ s \notin Reader
    /\ Handles(s, c)
    /\ stage[s][c] = 1
    /\ l \in LinesRead(inbox[s][c])
    /\ Truncated(l)
    /\ Exit(s)

-----------------------------------------------------------------------------
Init ==
    /\ file = InitFile
    /\ flock = [s \in Server |-> [r \in Record |-> "none"]]
    /\ up = [s \in Server |-> TRUE]
    /\ backlog = [s \in Server |-> 0]
    /\ peer = [s \in Server |-> [c \in Conn |-> "none"]]
    /\ inbox = [s \in Server |-> [c \in Conn |-> <<>>]]
    /\ stage = [s \in Server |-> [c \in Conn |-> 0]]
    /\ id = [s \in Server |-> [c \in Conn |-> FreedId]]
    /\ buf = [s \in Server |-> [c \in Conn |-> BlankLine]]
    /\ view = [s \in Server |-> [c \in Conn |-> NoView]]
    /\ master = [s \in Server |-> {}]
    /\ working = [s \in Server |-> {}]
    /\ readLock = [s \in Server |-> [r \in Record |-> 0]]
    /\ writeLock = [s \in Server |-> [r \in Record |-> FALSE]]

\* What the clients and the operating system do.
Environment(s) ==
    \/ Connect(s)
    \/ Die(s)
    \/ Restart(s)
    \/ \E c \in Conn : HangUp(s, c) \/ \E m \in Chunk[s] : Send(s, c, m)

\* One pass through select().
Poll(s) ==
    \/ Select(s)
    \/ SelectFull(s)
    \/ \E c \in Conn : SelectAccept(s, c)

\* The body of the for loop for descriptor c.
Handle(s, c) ==
    \/ ReadUnterminated(s, c)
    \/ RdGoneGrant(s, c)
    \/ RdGoneReject(s, c)
    \/ RdLeave(s, c)
    \/ WrReject(s, c)
    \/ WrLeave(s, c)
    \/ \E l \in Line : \/ RdGrant(s, c, l)
                       \/ RdReject(s, c, l)
                       \/ RdIgnore(s, c, l)
                       \/ WrGrant(s, c, l)
                       \/ WrRefuse(s, c, l)
                       \/ WrCommit(s, c, l)
                       \/ WrTruncated(s, c, l)

Serve(s) == Poll(s) \/ \E c \in Conn : Handle(s, c)

Next == \E s \in Server : Environment(s) \/ Serve(s)

Spec == Init /\ [][Next]_vars

\* A running server keeps running; nothing is asked of clients, of kills or
\* of restarts.
FairSpec == Spec /\ \A s \in Server : WF_vars(Serve(s))

-----------------------------------------------------------------------------
(* Properties.                                                              *)

\* The variables hold values the C types and the kernel allow.
TypeOK ==
    /\ file \in [Record -> Booking]
    /\ flock \in [Server -> [Record -> {"none", "rd", "wr"}]]
    /\ up \in [Server -> BOOLEAN]
    /\ backlog \in [Server -> Nat]
    /\ peer \in [Server -> [Conn -> {"none", "up", "gone"}]]
    /\ inbox \in [Server -> [Conn -> Seq(Line \cup {Fragment, Interrupt})]]
    /\ stage \in [Server -> [Conn -> {0, 1}]]
    /\ id \in [Server -> [Conn -> Record]]
    /\ buf \in [Server -> [Conn -> Line]]
    /\ view \in [Server -> [Conn -> Booking \cup {NoView}]]
    /\ master \in [Server -> SUBSET Conn]
    /\ working \in [Server -> SUBSET Conn]
    /\ readLock \in [Server -> [Record -> Int]]
    /\ writeLock \in [Server -> [Record -> BOOLEAN]]

\* Connection c of server s is in an open session: its client was shown a
\* record and may act on it.
Live(s, c) == peer[s][c] # "none" /\ stage[s][c] = 1
Sessions(s, r) == {c \in Conn : Live(s, c) /\ id[s][c] = r}

\* While a client edits a record through a write server, no other client has
\* a session on that record, in the same or in any other process: the fcntl
\* locks and the two tables together exclude them.
Exclusion ==
    \A s \in Server \ Reader, t \in Server, c, d \in Conn :
        (/\ Live(s, c) /\ Live(t, d) /\ <<s, c>> # <<t, d>>)
            => id[s][c] # id[t][d]

\* What a client was shown when its session opened is what the file holds for
\* as long as the session is open, although the handler that commits a command
\* reads the file again.
ViewCurrent ==
    \A s \in Server, c \in Conn :
        Live(s, c) => view[s][c] = file[id[s][c]]

\* The process's record lock and its tables agree, and cover every session:
\* closing one session never unlocks a record under another one.
LockAccounting ==
    \A s \in Server, r \in Record :
        /\ flock[s][r] = "rd" <=> readLock[s][r] > 0
        /\ flock[s][r] = "wr" <=> writeLock[s][r]
        /\ readLock[s][r] > 0 => s \in Reader
        /\ writeLock[s][r] => s \notin Reader
        /\ s \in Reader => Cardinality(Sessions(s, r)) <= readLock[s][r]
        /\ s \notin Reader =>
              Cardinality(Sessions(s, r)) = IF writeLock[s][r] THEN 1 ELSE 0

\* A command that is accepted leaves at most 15 items and no negative count.
Legal(b) == /\ b[1] + b[2] + b[3] <= BookingLimit
            /\ \A k \in Item : b[k] >= 0
BookingLegal == \A r \in Record : Legal(file[r])

\* A record lock is held only as long as some session of the process is open
\* on that record.
NoOrphanLock ==
    \A s \in Server, r \in Record : flock[s][r] # "none" => Sessions(s, r) # {}

\* Every open connection is in master_set, so that select() watches it, and
\* no closed one is.
OpenIsWatched ==
    \A s \in Server : master[s] = {c \in Conn : peer[s][c] # "none"}

\* A record changes only by the command that a client with a write session on
\* it has sent, and becomes what that client was shown plus what it asked for.
CommitOnly ==
    [][\A r \in Record : file'[r] # file[r] =>
          \E s \in Server \ Reader, c \in Conn : \E l \in LinesRead(inbox[s][c]) :
              /\ Live(s, c) /\ id[s][c] = r /\ WellFormed(l)
              /\ flock[s][r] = "wr"
              /\ \A k \in Item : file'[r][k] = Add(view[s][c][k], Args[l][k])
              /\ ~Live(s, c)']_vars

\* A line or a hang-up that reached an accepted connection is taken, whatever
\* the other clients do: neither the break of the write loop nor the order of
\* the descriptors starves a connection.
Pending(s, c) == peer[s][c] = "gone" \/ inbox[s][c] # <<>>
Answered == \A s \in Server, c \in Conn : Pending(s, c) ~> ~Pending(s, c)

\* The service as its clients see it: the sessions are the open connections in
\* stage 1.  The servers implement the abstract store.
OpenOn == [x \in Server \X Conn |->
              IF Live(x[1], x[2]) THEN id[x[1]][x[2]] ELSE NoId]

Store == INSTANCE BookingStore WITH
    Session <- Server \X Conn,
    Writer <- (Server \ Reader) \X Conn,
    NoRecord <- NoId,
    InitBookings <- InitFile,
    bookings <- file,
    on <- OpenOn
ImplementsStore == Store!StoreSpec

=============================================================================
