------------------------ MODULE BookingSafety_proofs ------------------------
(***************************************************************************)
(* The safety of the booking service for any number of servers,            *)
(* connections and records: the locks are accounted for, sessions exclude  *)
(* each other, and what a client was shown stays true.                     *)
(*                                                                         *)
(* None of these is inductive alone.  The exclusion of two sessions rests  *)
(* on the fcntl locks being compatible and on each process's tables        *)
(* counting its sessions; the tables stay right only because a handler     *)
(* runs for connections that are open; and a commit leaves the other       *)
(* sessions' views true only because of the exclusion.                     *)
(***************************************************************************)
EXTENDS BookingServers_proofs

\* Only open connections are watched or handled.
WatchedOpen ==
    \A s \in Server : \A c \in master[s] \cup working[s] : peer[s][c] # "none"

\* The kernel never grants a write lock beside another process's lock.
LocksCompatible ==
    \A s, t \in Server, r \in Record :
        s # t /\ flock[s][r] = "wr" => flock[t][r] = "none"

SafetyInv ==
    /\ TypeOK
    /\ WatchedOpen
    /\ LocksCompatible
    /\ LockAccounting
    /\ ViewCurrent

-----------------------------------------------------------------------------
(* Sets of sessions.                                                        *)

\* A process has finitely many sessions on a record.
LEMMA SessionsFinite ==
    ASSUME NEW s \in Server, NEW r \in Record
    PROVE  /\ IsFiniteSet(Sessions(s, r))
           /\ Cardinality(Sessions(s, r)) \in Nat
  <1>1. Sessions(s, r) \subseteq Conn
    BY DEF Sessions
  <1> QED
    BY <1>1, SizeAssumption, FS_Subset, FS_CardinalityType

\* A set of at most one element has no two.
LEMMA AtMostOne ==
    ASSUME NEW S, IsFiniteSet(S), Cardinality(S) <= 1, NEW x \in S, NEW y \in S
    PROVE  x = y
  <1>1. S \ {x} \subseteq S /\ IsFiniteSet(S \ {x})
    BY FS_RemoveElement
  <1>2. Cardinality(S \ {x}) = Cardinality(S) - 1
    BY FS_RemoveElement
  <1>3. Cardinality(S \ {x}) = 0
    BY <1>1, <1>2, FS_CardinalityType
  <1>4. S \ {x} = {}
    BY <1>1, <1>3, FS_EmptySet
  <1> QED
    BY <1>4

\* A set with an element is not counted as empty.
LEMMA AtLeastOne ==
    ASSUME NEW S, IsFiniteSet(S), NEW x \in S
    PROVE  Cardinality(S) \in Nat /\ Cardinality(S) >= 1
  BY FS_EmptySet, FS_CardinalityType

\* One session more, one session less.
LEMMA OneMore ==
    ASSUME NEW S, NEW T, IsFiniteSet(S), NEW x, x \notin S, T = S \cup {x}
    PROVE  Cardinality(T) \in Nat /\ Cardinality(T) = Cardinality(S) + 1
  BY FS_AddElement, FS_CardinalityType

\* Taking one element out of a finite set.
LEMMA OneLess ==
    ASSUME NEW S, NEW T, IsFiniteSet(S), NEW x \in S, T = S \ {x}
    PROVE  /\ Cardinality(T) \in Nat
           /\ Cardinality(S) \in Nat
           /\ Cardinality(T) = Cardinality(S) - 1
  BY FS_RemoveElement, FS_CardinalityType

\* Closing a connection takes it out of the sessions of its server.
LEMMA CloseSessions ==
    ASSUME TypeOK, NEW s \in Server, NEW c \in Conn, NEW alias,
           CloseConn(s, c, alias), NEW t \in Server, NEW r \in Record
    PROVE  Sessions(t, r)' = IF t = s THEN Sessions(t, r) \ {c} ELSE Sessions(t, r)
  BY DEF TypeOK, CloseConn, Sessions, Live

\* Granting a session on record r to a connection in stage 0 adds it to the
\* sessions on r, and to no other.
LEMMA ShowSessions ==
    ASSUME TypeOK, NEW s \in Server, NEW c \in Conn, NEW r \in Record,
           ShowRecord(s, c, r), peer[s][c] # "none", stage[s][c] = 0,
           NEW t \in Server, NEW q \in Record
    PROVE  /\ c \notin Sessions(s, q)
           /\ Sessions(t, q)' = IF t = s /\ q = r THEN Sessions(t, q) \cup {c}
                                                  ELSE Sessions(t, q)
  <1>1. ~Live(s, c)
    BY DEF Live
  <1>2. Live(s, c)' /\ id'[s][c] = r
    BY DEF TypeOK, ShowRecord, Live
  <1>3. ASSUME NEW d \in Conn, t # s \/ d # c
        PROVE  (Live(t, d)' <=> Live(t, d)) /\ id'[t][d] = id[t][d]
    <2>1. peer'[t][d] = peer[t][d] /\ id'[t][d] = id[t][d]
      BY <1>3 DEF TypeOK, ShowRecord
    <2>2. stage'[t][d] = stage[t][d]
      BY <1>3 DEF TypeOK, ShowRecord
    <2> QED
      BY <2>1, <2>2 DEF Live
  <1> QED
    BY <1>1, <1>2, <1>3 DEF Sessions

\* A process that exits has no sessions; those of the others stay.
LEMMA ExitSessions ==
    ASSUME TypeOK, NEW s \in Server, Exit(s), NEW t \in Server, NEW r \in Record
    PROVE  Sessions(t, r)' = IF t = s THEN {} ELSE Sessions(t, r)
  BY DEF TypeOK, Exit, Sessions, Live

\* A connection in stage 0 is no session.
LEMMA StageZero ==
    ASSUME TypeOK, NEW s \in Server, NEW c \in Conn, stage[s][c] = 0,
           NEW r \in Record
    PROVE  c \notin Sessions(s, r)
  BY DEF Sessions, Live

\* An open connection in stage 1 is a session on its record alone.
LEMMA StageOne ==
    ASSUME TypeOK, NEW s \in Server, NEW c \in Conn, stage[s][c] = 1,
           peer[s][c] # "none", NEW r \in Record
    PROVE  c \in Sessions(s, r) <=> r = id[s][c]
  BY DEF Sessions, Live

\* The descriptor a handler runs for is open.
LEMMA HandledOpen ==
    ASSUME WatchedOpen, NEW s \in Server, NEW c \in Conn, Handles(s, c)
    PROVE  peer[s][c] # "none"
  BY DEF WatchedOpen, Handles

-----------------------------------------------------------------------------
(* Only open connections are watched.                                       *)

\* Closing a connection and leaving the pass, or going on with it.
LEMMA CloseWatched ==
    ASSUME TypeOK, WatchedOpen, NEW s \in Server, NEW c \in Conn, NEW alias,
           CloseConn(s, c, alias),
           \/ Visited(s, c)
           \/ working' = [working EXCEPT ![s] = {}]
    PROVE  WatchedOpen'
  BY DEF TypeOK, WatchedOpen, CloseConn, Cleared, Visited

\* A process that ends watches nothing.
LEMMA ExitWatched ==
    ASSUME TypeOK, WatchedOpen, NEW s \in Server, Exit(s)
    PROVE  WatchedOpen'
  BY DEF TypeOK, WatchedOpen, Exit

\* A handler that closes nothing.
LEMMA VisitWatched ==
    ASSUME TypeOK, WatchedOpen, NEW s \in Server, NEW c \in Conn,
           UNCHANGED <<peer, master>>, Visited(s, c)
    PROVE  WatchedOpen'
  BY DEF TypeOK, WatchedOpen, Visited

\* Every step keeps what is watched open.
LEMMA NextWatched == TypeOK /\ WatchedOpen /\ [Next]_vars => WatchedOpen'
  <1> SUFFICES ASSUME TypeOK, WatchedOpen, [Next]_vars PROVE WatchedOpen'
    OBVIOUS
  <1>1. CASE UNCHANGED vars
    BY <1>1 DEF vars, WatchedOpen
  <1>2. ASSUME NEW s \in Server, Environment(s)
        PROVE  WatchedOpen'
    <2>1. CASE Connect(s) \/ Restart(s)
      BY <2>1 DEF Connect, Restart, WatchedOpen, sockets
    <2>2. CASE Die(s)
      BY <2>2, ExitWatched DEF Die
    <2>3. ASSUME NEW c \in Conn, HangUp(s, c)
          PROVE  WatchedOpen'
      BY <2>3 DEF HangUp, WatchedOpen, TypeOK
    <2>4. ASSUME NEW c \in Conn, NEW m \in Chunk[s], Send(s, c, m)
          PROVE  WatchedOpen'
      BY <2>4 DEF Send, WatchedOpen
    <2> QED
      BY <1>2, <2>1, <2>2, <2>3, <2>4 DEF Environment
  <1>3. ASSUME NEW s \in Server, Poll(s)
        PROVE  WatchedOpen'
    <2>1. CASE Select(s)
      BY <2>1 DEF Select, Ready, sockets, WatchedOpen, TypeOK
    <2>2. CASE SelectFull(s)
      BY <2>2, ExitWatched DEF SelectFull
    <2>3. ASSUME NEW c \in Conn, SelectAccept(s, c)
          PROVE  WatchedOpen'
      BY <2>3 DEF SelectAccept, Ready, WatchedOpen, TypeOK
    <2> QED
      BY <1>3, <2>1, <2>2, <2>3 DEF Poll
  <1>4. ASSUME NEW s \in Server, NEW c \in Conn, Handle(s, c)
        PROVE  WatchedOpen'
    <2>1. CASE ReadUnterminated(s, c) \/ \E l \in Line : WrTruncated(s, c, l)
      BY <2>1, ExitWatched DEF ReadUnterminated, WrTruncated
    <2>2. CASE RdGoneGrant(s, c)
      BY <2>2 DEF RdGoneGrant, Cleared, Visited, WatchedOpen, TypeOK
    <2>3. CASE RdGoneReject(s, c) \/ RdLeave(s, c) \/ WrReject(s, c)
      BY <2>3, CloseWatched DEF RdGoneReject, RdLeave, WrReject
    <2>4. CASE WrLeave(s, c)
      BY <2>4, CloseWatched DEF WrLeave, EndWrite
    <2>5. ASSUME NEW l \in Line,
                 RdReject(s, c, l) \/ WrRefuse(s, c, l) \/ WrCommit(s, c, l)
          PROVE  WatchedOpen'
      BY <2>5, CloseWatched DEF RdReject, WrRefuse, WrCommit, EndWrite
    <2>6. ASSUME NEW l \in Line,
                 RdGrant(s, c, l) \/ WrGrant(s, c, l) \/ RdIgnore(s, c, l)
          PROVE  WatchedOpen'
      BY <2>6, VisitWatched DEF RdGrant, WrGrant, RdIgnore, ShowRecord
    <2> QED
      BY <1>4, <2>1, <2>2, <2>3, <2>4, <2>5, <2>6 DEF Handle
  <1> QED
    BY <1>1, <1>2, <1>3, <1>4 DEF Next, Serve

-----------------------------------------------------------------------------
(* The locks are compatible and accounted for.                              *)

LockInv == LocksCompatible /\ LockAccounting

\* A step that changes neither a lock nor a session.
LEMMA QuietLocks ==
    ASSUME LockInv, UNCHANGED locks,
           \A t \in Server, q \in Record : Sessions(t, q)' = Sessions(t, q)
    PROVE  LockInv'
  BY DEF LockInv, LocksCompatible, LockAccounting, locks

\* A process that ends holds no lock and counts no session.
LEMMA ExitLocks ==
    ASSUME TypeOK, LockInv, NEW s \in Server, Exit(s)
    PROVE  LockInv'
  <1>1. ASSUME NEW r \in Record
        PROVE  flock'[s][r] = "none" /\ readLock'[s][r] = 0 /\ ~writeLock'[s][r]
    BY <1>1 DEF Exit, TypeOK
  <1>2. ASSUME NEW t \in Server, t # s, NEW r \in Record
        PROVE  /\ flock'[t][r] = flock[t][r]
               /\ readLock'[t][r] = readLock[t][r]
               /\ writeLock'[t][r] = writeLock[t][r]
    BY <1>2 DEF Exit, TypeOK
  <1>3. LocksCompatible'
    BY <1>1, <1>2 DEF LockInv, LocksCompatible
  <1>4. ASSUME NEW r \in Record
        PROVE  Cardinality(Sessions(s, r)') = 0
    BY ExitSessions, FS_EmptySet
  <1>5. ASSUME NEW t \in Server, t # s, NEW r \in Record
        PROVE  Sessions(t, r)' = Sessions(t, r)
    BY <1>5, ExitSessions
  <1>6. LockAccounting'
    BY <1>1, <1>2, <1>4, <1>5 DEF LockInv, LockAccounting
  <1> QED
    BY <1>3, <1>6 DEF LockInv

\* A handler that closes a connection in stage 0.
LEMMA RejectLocks ==
    ASSUME TypeOK, LockInv, NEW s \in Server, NEW c \in Conn, NEW alias,
           stage[s][c] = 0, CloseConn(s, c, alias), UNCHANGED locks
    PROVE  LockInv'
  BY QuietLocks, CloseSessions, StageZero

\* What granting a read lock on r to s changes, with one session more or none.
LEMMA ReadGrantLocks ==
    ASSUME TypeOK, LockInv, NEW s \in Reader, NEW r \in Record, MayRead(s, r),
           readLock' = [readLock EXCEPT ![s][r] = @ + 1],
           flock' = [flock EXCEPT ![s][r] = "rd"],
           UNCHANGED writeLock,
           \A t \in Server, q \in Record :
               t # s \/ q # r => Sessions(t, q)' = Sessions(t, q),
           Cardinality(Sessions(s, r)') <= Cardinality(Sessions(s, r)) + 1,
           Cardinality(Sessions(s, r)') \in Nat
    PROVE  LockInv'
  <1> USE ServerAssumption
  <1>1. readLock'[s][r] = readLock[s][r] + 1 /\ flock'[s][r] = "rd"
    BY DEF TypeOK
  <1>2. ASSUME NEW t \in Server, NEW q \in Record, t # s \/ q # r
        PROVE  /\ readLock'[t][q] = readLock[t][q]
               /\ flock'[t][q] = flock[t][q]
               /\ writeLock'[t][q] = writeLock[t][q]
    BY <1>2 DEF TypeOK
  <1>3. LocksCompatible'
    BY <1>1, <1>2 DEF LockInv, LocksCompatible, MayRead, CanShare
  <1>4. readLock'[s][r] > 0
    <2>1. Cardinality(Sessions(s, r)) \in Nat /\ readLock[s][r] \in Int
      BY SessionsFinite DEF TypeOK
    <2>2. readLock[s][r] >= Cardinality(Sessions(s, r))
      BY DEF LockInv, LockAccounting
    <2> QED
      BY <1>1, <2>1, <2>2
  <1>5. Cardinality(Sessions(s, r)') <= readLock'[s][r]
    <2>1. Cardinality(Sessions(s, r)) \in Nat /\ readLock[s][r] \in Int
      BY SessionsFinite DEF TypeOK
    <2>2. readLock[s][r] >= Cardinality(Sessions(s, r))
      BY DEF LockInv, LockAccounting
    <2> QED
      BY <1>1, <2>1, <2>2
  <1>6. ~writeLock'[s][r]
    BY DEF MayRead
  <1>7. LockAccounting'
    <2> SUFFICES ASSUME NEW t \in Server, NEW q \in Record
                 PROVE  /\ flock'[t][q] = "rd" <=> readLock'[t][q] > 0
                        /\ flock'[t][q] = "wr" <=> writeLock'[t][q]
                        /\ readLock'[t][q] > 0 => t \in Reader
                        /\ writeLock'[t][q] => t \notin Reader
                        /\ t \in Reader =>
                              Cardinality(Sessions(t, q)') <= readLock'[t][q]
                        /\ t \notin Reader =>
                              Cardinality(Sessions(t, q)')
                                  = IF writeLock'[t][q] THEN 1 ELSE 0
      BY DEF LockAccounting
    <2>1. CASE t = s /\ q = r
      BY <2>1, <1>1, <1>4, <1>5, <1>6
    <2>2. CASE t # s \/ q # r
      BY <2>2, <1>2 DEF LockInv, LockAccounting
    <2> QED
      BY <2>1, <2>2
  <1> QED
    BY <1>3, <1>7 DEF LockInv

\* A session that a read server opens is counted and locked.
LEMMA RdGrantLocks ==
    ASSUME TypeOK, WatchedOpen, LockInv, NEW s \in Server, NEW c \in Conn,
           NEW l \in Line, RdGrant(s, c, l)
    PROVE  LockInv'
  <1>0. PICK r \in Record : r = IdOf[l]
    BY LineAssumption DEF RdGrant
  <1>1. s \in Reader
    BY DEF RdGrant
  <1>2. ShowRecord(s, c, r) /\ peer[s][c] # "none" /\ stage[s][c] = 0
    BY <1>0, HandledOpen DEF RdGrant
  <1>3. ASSUME NEW t \in Server, NEW q \in Record, t # s \/ q # r
        PROVE  Sessions(t, q)' = Sessions(t, q)
    BY <1>1, <1>2, <1>3, ShowSessions
  <1>4. Sessions(s, r)' = Sessions(s, r) \cup {c} /\ c \notin Sessions(s, r)
    BY <1>1, <1>2, ShowSessions
  <1>5. /\ Cardinality(Sessions(s, r)') <= Cardinality(Sessions(s, r)) + 1
        /\ Cardinality(Sessions(s, r)') \in Nat
    BY <1>4, SessionsFinite, OneMore
  <1>6. /\ MayRead(s, r)
        /\ readLock' = [readLock EXCEPT ![s][r] = @ + 1]
        /\ flock' = [flock EXCEPT ![s][r] = "rd"]
        /\ UNCHANGED writeLock
    BY <1>0 DEF RdGrant
  <1> QED
    BY <1>1, <1>3, <1>5, <1>6, ReadGrantLocks

\* So is the session of a client that has hung up.
LEMMA RdGoneGrantLocks ==
    ASSUME TypeOK, LockInv, NEW s \in Server, NEW c \in Conn, RdGoneGrant(s, c)
    PROVE  LockInv'
  <1>0. PICK r \in Record : r = IdOf[buf[s][c]]
    BY LineAssumption DEF RdGoneGrant, TypeOK
  <1>1. s \in Reader
    BY DEF RdGoneGrant
  <1>2. ASSUME NEW t \in Server, NEW q \in Record
        PROVE  Sessions(t, q)' = Sessions(t, q)
    <2>1. PICK x : /\ stage[s][c] = 0
                   /\ peer' = [peer EXCEPT ![s][c] = "none"]
                   /\ stage' = [stage EXCEPT ![s][c] = 1]
                   /\ id' = [id EXCEPT ![s][c] = x]
      BY DEF RdGoneGrant
    <2>2. ASSUME NEW d \in Conn
          PROVE  (Live(t, d)' <=> Live(t, d)) /\ (Live(t, d) => id'[t][d] = id[t][d])
      <3>1. CASE t = s /\ d = c
        BY <2>1, <3>1 DEF TypeOK, Live
      <3>2. CASE t # s \/ d # c
        <4>1. peer'[t][d] = peer[t][d]
          BY <2>1, <3>2 DEF TypeOK
        <4>2. stage'[t][d] = stage[t][d]
          BY <2>1, <3>2 DEF TypeOK
        <4>3. id'[t][d] = id[t][d]
          BY <2>1, <3>2 DEF TypeOK
        <4> QED
          BY <4>1, <4>2, <4>3 DEF Live
      <3> QED
        BY <3>1, <3>2
    <2> QED
      BY <2>2 DEF Sessions
  <1>3. /\ MayRead(s, r)
        /\ readLock' = [readLock EXCEPT ![s][r] = @ + 1]
        /\ flock' = [flock EXCEPT ![s][r] = "rd"]
        /\ UNCHANGED writeLock
    BY <1>0 DEF RdGoneGrant
  <1>4. /\ Cardinality(Sessions(s, r)') <= Cardinality(Sessions(s, r)) + 1
        /\ Cardinality(Sessions(s, r)') \in Nat
    BY <1>1, <1>2, SessionsFinite
  <1> QED
    BY <1>1, <1>2, <1>3, <1>4, ReadGrantLocks

\* A read session ends: the lock stays exactly as long as the count does not
\* reach 0, and the count stays above the number of sessions.
LEMMA RdLeaveLocks ==
    ASSUME TypeOK, WatchedOpen, LockInv, NEW s \in Server, NEW c \in Conn,
           RdLeave(s, c)
    PROVE  LockInv'
  <1> USE ServerAssumption
  <1>0. PICK r \in Record : r = id[s][c]
    BY DEF TypeOK
  <1>1. s \in Reader
    BY DEF RdLeave
  <1>2. CloseConn(s, c, {}) /\ peer[s][c] # "none" /\ stage[s][c] = 1
    BY HandledOpen DEF RdLeave
  <1>3. ASSUME NEW t \in Server, NEW q \in Record, t # s \/ q # r
        PROVE  Sessions(t, q)' = Sessions(t, q)
    BY <1>0, <1>2, <1>3, CloseSessions, StageOne
  <1>4. Sessions(s, r)' = Sessions(s, r) \ {c} /\ c \in Sessions(s, r)
    BY <1>0, <1>2, CloseSessions, StageOne
  <1>5. /\ Cardinality(Sessions(s, r)') = Cardinality(Sessions(s, r)) - 1
        /\ Cardinality(Sessions(s, r)) \in Nat
        /\ Cardinality(Sessions(s, r)) >= 1
    BY <1>4, SessionsFinite, OneLess, AtLeastOne
  <1>6. /\ readLock' = [readLock EXCEPT ![s][r] = @ - 1]
        /\ flock' = IF readLock[s][r] = 1 THEN [flock EXCEPT ![s][r] = "none"]
                                          ELSE flock
        /\ UNCHANGED writeLock
    BY <1>0 DEF RdLeave, LastReader
  <1>7. /\ readLock[s][r] \in Int
        /\ readLock[s][r] >= Cardinality(Sessions(s, r))
        /\ flock[s][r] = "rd" <=> readLock[s][r] > 0
        /\ flock[s][r] = "wr" <=> writeLock[s][r]
    BY <1>1 DEF TypeOK, LockInv, LockAccounting
  <1>8. readLock'[s][r] = readLock[s][r] - 1 /\ writeLock'[s][r] = writeLock[s][r]
    BY <1>1, <1>6 DEF TypeOK
  <1>9. flock'[s][r] = IF readLock[s][r] = 1 THEN "none" ELSE "rd"
    BY <1>1, <1>5, <1>6, <1>7 DEF TypeOK
  <1>10. ASSUME NEW t \in Server, NEW q \in Record, t # s \/ q # r
         PROVE  /\ readLock'[t][q] = readLock[t][q]
                /\ flock'[t][q] = flock[t][q]
                /\ writeLock'[t][q] = writeLock[t][q]
    BY <1>1, <1>6, <1>10 DEF TypeOK
  <1>11. flock[s][r] = "rd" /\ ~writeLock[s][r]
    BY <1>5, <1>7
  <1>12. LocksCompatible'
    BY <1>9, <1>10, <1>11 DEF LockInv, LocksCompatible
  <1>13. LockAccounting'
    <2> SUFFICES ASSUME NEW t \in Server, NEW q \in Record
                 PROVE  /\ flock'[t][q] = "rd" <=> readLock'[t][q] > 0
                        /\ flock'[t][q] = "wr" <=> writeLock'[t][q]
                        /\ readLock'[t][q] > 0 => t \in Reader
                        /\ writeLock'[t][q] => t \notin Reader
                        /\ t \in Reader =>
                              Cardinality(Sessions(t, q)') <= readLock'[t][q]
                        /\ t \notin Reader =>
                              Cardinality(Sessions(t, q)')
                                  = IF writeLock'[t][q] THEN 1 ELSE 0
      BY DEF LockAccounting
    <2>1. CASE t = s /\ q = r
      BY <2>1, <1>1, <1>5, <1>7, <1>8, <1>9, <1>11
    <2>2. CASE t # s \/ q # r
      BY <2>2, <1>3, <1>10 DEF LockInv, LockAccounting
    <2> QED
      BY <2>1, <2>2
  <1> QED
    BY <1>12, <1>13 DEF LockInv

\* A write session opens: MayWrite saw no lock of another process on the
\* record and no session of its own.
LEMMA WrGrantLocks ==
    ASSUME TypeOK, WatchedOpen, LockInv, NEW s \in Server, NEW c \in Conn,
           NEW l \in Line, WrGrant(s, c, l)
    PROVE  LockInv'
  <1>0. PICK r \in Record : r = IdOf[l]
    BY LineAssumption DEF WrGrant
  <1>1. s \notin Reader
    BY DEF WrGrant
  <1>2. ShowRecord(s, c, r) /\ peer[s][c] # "none" /\ stage[s][c] = 0
    BY <1>0, HandledOpen DEF WrGrant
  <1>3. ASSUME NEW t \in Server, NEW q \in Record, t # s \/ q # r
        PROVE  Sessions(t, q)' = Sessions(t, q)
    BY <1>1, <1>2, <1>3, ShowSessions
  <1>4. Sessions(s, r)' = Sessions(s, r) \cup {c} /\ c \notin Sessions(s, r)
    BY <1>1, <1>2, ShowSessions
  <1>5. /\ MayWrite(s, r)
        /\ writeLock' = [writeLock EXCEPT ![s][r] = TRUE]
        /\ flock' = [flock EXCEPT ![s][r] = "wr"]
        /\ UNCHANGED readLock
    BY <1>0 DEF WrGrant
  <1>6. ~writeLock[s][r] /\ readLock[s][r] = 0
    BY <1>5 DEF MayWrite
  <1>7. Cardinality(Sessions(s, r)) = 0
    BY <1>1, <1>6 DEF LockInv, LockAccounting
  <1>8. Cardinality(Sessions(s, r)') = 1
    BY <1>4, <1>7, SessionsFinite, OneMore
  <1>9. writeLock'[s][r] /\ flock'[s][r] = "wr" /\ readLock'[s][r] = 0
    BY <1>1, <1>5, <1>6 DEF TypeOK
  <1>10. ASSUME NEW t \in Server, NEW q \in Record, t # s \/ q # r
         PROVE  /\ readLock'[t][q] = readLock[t][q]
                /\ flock'[t][q] = flock[t][q]
                /\ writeLock'[t][q] = writeLock[t][q]
    BY <1>1, <1>5, <1>10 DEF TypeOK
  <1>11. ASSUME NEW t \in Server, t # s
         PROVE  flock[t][r] = "none"
    BY <1>5, <1>11 DEF MayWrite, CanOwn
  <1>12. LocksCompatible'
    BY <1>1, <1>9, <1>10, <1>11 DEF LockInv, LocksCompatible
  <1>13. LockAccounting'
    <2> SUFFICES ASSUME NEW t \in Server, NEW q \in Record
                 PROVE  /\ flock'[t][q] = "rd" <=> readLock'[t][q] > 0
                        /\ flock'[t][q] = "wr" <=> writeLock'[t][q]
                        /\ readLock'[t][q] > 0 => t \in Reader
                        /\ writeLock'[t][q] => t \notin Reader
                        /\ t \in Reader =>
                              Cardinality(Sessions(t, q)') <= readLock'[t][q]
                        /\ t \notin Reader =>
                              Cardinality(Sessions(t, q)')
                                  = IF writeLock'[t][q] THEN 1 ELSE 0
      BY DEF LockAccounting
    <2>1. CASE t = s /\ q = r
      BY <2>1, <1>1, <1>8, <1>9
    <2>2. CASE t # s \/ q # r
      BY <2>2, <1>3, <1>10 DEF LockInv, LockAccounting
    <2> QED
      BY <2>1, <2>2
  <1> QED
    BY <1>12, <1>13 DEF LockInv

\* A write session ends: it was the only one on its record.
LEMMA EndWriteLocks ==
    ASSUME TypeOK, LockInv, NEW s \in Server, NEW c \in Conn, s \notin Reader,
           EndWrite(s, c), peer[s][c] # "none", stage[s][c] = 1
    PROVE  LockInv'
  <1>0. PICK r \in Record : r = id[s][c]
    BY DEF TypeOK
  <1>1. CloseConn(s, c, {})
    BY DEF EndWrite
  <1>2. ASSUME NEW t \in Server, NEW q \in Record, t # s \/ q # r
        PROVE  Sessions(t, q)' = Sessions(t, q)
    <2>1. CASE t = s
      <3>1. c \notin Sessions(s, q)
        BY <1>0, <1>2, <2>1, StageOne
      <3> QED
        BY <1>1, <2>1, <3>1, CloseSessions
    <2>2. CASE t # s
      BY <1>1, <2>2, CloseSessions
    <2> QED
      BY <2>1, <2>2
  <1>3. Sessions(s, r)' = Sessions(s, r) \ {c} /\ c \in Sessions(s, r)
    BY <1>0, <1>1, CloseSessions, StageOne
  <1>4. /\ Cardinality(Sessions(s, r)') = Cardinality(Sessions(s, r)) - 1
        /\ Cardinality(Sessions(s, r)) \in Nat
        /\ Cardinality(Sessions(s, r)) >= 1
    BY <1>3, SessionsFinite, OneLess, AtLeastOne
  <1>5. /\ writeLock' = [writeLock EXCEPT ![s][r] = FALSE]
        /\ flock' = [flock EXCEPT ![s][r] = "none"]
        /\ UNCHANGED readLock
    BY <1>0 DEF EndWrite
  <1>6. /\ writeLock[s][r]
        /\ Cardinality(Sessions(s, r)) = 1
        /\ ~(readLock[s][r] > 0)
    BY <1>4 DEF LockInv, LockAccounting
  <1>7. ~writeLock'[s][r] /\ flock'[s][r] = "none" /\ ~(readLock'[s][r] > 0)
    BY <1>5, <1>6 DEF TypeOK
  <1>8. ASSUME NEW t \in Server, NEW q \in Record, t # s \/ q # r
        PROVE  /\ readLock'[t][q] = readLock[t][q]
               /\ flock'[t][q] = flock[t][q]
               /\ writeLock'[t][q] = writeLock[t][q]
    BY <1>5, <1>8 DEF TypeOK
  <1>9. LocksCompatible'
    BY <1>7, <1>8 DEF LockInv, LocksCompatible
  <1>10. LockAccounting'
    <2> SUFFICES ASSUME NEW t \in Server, NEW q \in Record
                 PROVE  /\ flock'[t][q] = "rd" <=> readLock'[t][q] > 0
                        /\ flock'[t][q] = "wr" <=> writeLock'[t][q]
                        /\ readLock'[t][q] > 0 => t \in Reader
                        /\ writeLock'[t][q] => t \notin Reader
                        /\ t \in Reader =>
                              Cardinality(Sessions(t, q)') <= readLock'[t][q]
                        /\ t \notin Reader =>
                              Cardinality(Sessions(t, q)')
                                  = IF writeLock'[t][q] THEN 1 ELSE 0
      BY DEF LockAccounting
    <2>1. CASE t = s /\ q = r
      BY <2>1, <1>4, <1>6, <1>7
    <2>2. CASE t # s \/ q # r
      BY <2>2, <1>2, <1>8 DEF LockInv, LockAccounting
    <2> QED
      BY <2>1, <2>2
  <1> QED
    BY <1>9, <1>10 DEF LockInv

\* The steps of clients and of select() change no lock and no session.
LEMMA EnvironmentLocks ==
    ASSUME TypeOK, WatchedOpen, LockInv, NEW s \in Server,
           Environment(s) \/ Poll(s)
    PROVE  LockInv'
  <1>1. CASE Connect(s) \/ Restart(s) \/ Select(s)
    <2>1. UNCHANGED <<locks, sockets, requests>>
      BY <1>1 DEF Connect, Restart, Select
    <2>2. \A t \in Server, q \in Record : Sessions(t, q)' = Sessions(t, q)
      BY <2>1 DEF Sessions, Live, sockets, requests
    <2> QED
      BY <2>1, <2>2, QuietLocks
  <1>2. CASE Die(s) \/ SelectFull(s)
    BY <1>2, ExitLocks DEF Die, SelectFull
  <1>3. ASSUME NEW c \in Conn, HangUp(s, c)
        PROVE  LockInv'
    <2>1. \A t \in Server, q \in Record : Sessions(t, q)' = Sessions(t, q)
      BY <1>3 DEF HangUp, TypeOK, Sessions, Live, requests
    <2> QED
      BY <1>3, <2>1, QuietLocks DEF HangUp
  <1>4. ASSUME NEW c \in Conn, NEW m \in Chunk[s], Send(s, c, m)
        PROVE  LockInv'
    <2>1. \A t \in Server, q \in Record : Sessions(t, q)' = Sessions(t, q)
      BY <1>4 DEF Send, Sessions, Live, requests
    <2> QED
      BY <1>4, <2>1, QuietLocks DEF Send
  <1>5. ASSUME NEW c \in Conn, SelectAccept(s, c)
        PROVE  LockInv'
    <2>1. \A t \in Server, q \in Record : Sessions(t, q)' = Sessions(t, q)
      BY <1>5 DEF SelectAccept, TypeOK, Sessions, Live
    <2> QED
      BY <1>5, <2>1, QuietLocks DEF SelectAccept
  <1> QED
    BY <1>1, <1>2, <1>3, <1>4, <1>5 DEF Environment, Poll

\* Every step keeps tables, record locks and sessions in agreement.
LEMMA NextLocks == TypeOK /\ WatchedOpen /\ LockInv /\ [Next]_vars => LockInv'
  <1> SUFFICES ASSUME TypeOK, WatchedOpen, LockInv, [Next]_vars PROVE LockInv'
    OBVIOUS
  <1>1. CASE UNCHANGED vars
    <2>1. \A t \in Server, q \in Record : Sessions(t, q)' = Sessions(t, q)
      BY <1>1 DEF vars, Sessions, Live
    <2> QED
      BY <1>1, <2>1, QuietLocks DEF vars, locks
  <1>2. ASSUME NEW s \in Server, Environment(s) \/ Poll(s)
        PROVE  LockInv'
    BY <1>2, EnvironmentLocks
  <1>3. ASSUME NEW s \in Server, NEW c \in Conn, Handle(s, c)
        PROVE  LockInv'
    <2>1. CASE ReadUnterminated(s, c) \/ \E l \in Line : WrTruncated(s, c, l)
      BY <2>1, ExitLocks DEF ReadUnterminated, WrTruncated
    <2>2. CASE RdGoneGrant(s, c)
      BY <2>2, RdGoneGrantLocks
    <2>3. CASE RdLeave(s, c)
      BY <2>3, RdLeaveLocks
    <2>4. CASE RdGoneReject(s, c) \/ WrReject(s, c)
      BY <2>4, RejectLocks DEF RdGoneReject, WrReject
    <2>5. CASE WrLeave(s, c)
      BY <2>5, HandledOpen, EndWriteLocks DEF WrLeave
    <2>6. ASSUME NEW l \in Line, RdReject(s, c, l)
          PROVE  LockInv'
      BY <2>6, RejectLocks DEF RdReject
    <2>7. ASSUME NEW l \in Line, RdIgnore(s, c, l)
          PROVE  LockInv'
      <3>1. \A t \in Server, q \in Record : Sessions(t, q)' = Sessions(t, q)
        BY <2>7 DEF RdIgnore, Sessions, Live, requests
      <3> QED
        BY <2>7, <3>1, QuietLocks DEF RdIgnore
    <2>8. ASSUME NEW l \in Line, RdGrant(s, c, l)
          PROVE  LockInv'
      BY <2>8, RdGrantLocks
    <2>9. ASSUME NEW l \in Line, WrGrant(s, c, l)
          PROVE  LockInv'
      BY <2>9, WrGrantLocks
    <2>10. ASSUME NEW l \in Line, WrRefuse(s, c, l) \/ WrCommit(s, c, l)
           PROVE  LockInv'
      BY <2>10, HandledOpen, EndWriteLocks DEF WrRefuse, WrCommit
    <2> QED
      BY <1>3, <2>1, <2>2, <2>3, <2>4, <2>5, <2>6, <2>7, <2>8, <2>9, <2>10
      DEF Handle
  <1> QED
    BY <1>1, <1>2, <1>3 DEF Next, Serve

\* The locks and the tables exclude a second session beside a write session.
LEMMA LocksExclude == TypeOK /\ LockInv => Exclusion
  <1> SUFFICES ASSUME TypeOK, LockInv, NEW s \in Server \ Reader, NEW t \in Server,
                      NEW c \in Conn, NEW d \in Conn,
                      Live(s, c), Live(t, d), id[s][c] = id[t][d]
               PROVE  s = t /\ c = d
    BY DEF Exclusion
  <1>0. PICK r \in Record : r = id[s][c]
    BY DEF TypeOK
  <1>1. c \in Sessions(s, r) /\ d \in Sessions(t, r)
    BY <1>0 DEF Sessions
  <1>2. /\ Cardinality(Sessions(s, r)) \in Nat /\ Cardinality(Sessions(s, r)) >= 1
        /\ Cardinality(Sessions(t, r)) \in Nat /\ Cardinality(Sessions(t, r)) >= 1
    BY <1>1, SessionsFinite, AtLeastOne
  <1>3. flock[s][r] = "wr" /\ Cardinality(Sessions(s, r)) <= 1
    BY <1>2 DEF LockInv, LockAccounting
  <1>4. flock[t][r] # "none"
    <2>1. CASE t \in Reader
      <3>1. readLock[t][r] \in Int /\ readLock[t][r] >= Cardinality(Sessions(t, r))
        BY <2>1 DEF LockInv, LockAccounting, TypeOK
      <3>2. readLock[t][r] > 0
        BY <1>2, <3>1
      <3> QED
        BY <3>2 DEF LockInv, LockAccounting
    <2>2. CASE t \notin Reader
      <3>1. writeLock[t][r]
        BY <1>2, <2>2 DEF LockInv, LockAccounting
      <3> QED
        BY <3>1 DEF LockInv, LockAccounting
    <2> QED
      BY <2>1, <2>2
  <1>5. s = t
    BY <1>3, <1>4 DEF LockInv, LocksCompatible
  <1> QED
    BY <1>1, <1>3, <1>5, SessionsFinite, AtMostOne

-----------------------------------------------------------------------------
(* What a client was shown stays true.                                      *)

\* A handler that closes a connection and leaves the file alone.
LEMMA CloseView ==
    ASSUME TypeOK, ViewCurrent, NEW s \in Server, NEW c \in Conn, NEW alias,
           CloseConn(s, c, alias), UNCHANGED file
    PROVE  ViewCurrent'
  BY DEF TypeOK, ViewCurrent, Live, CloseConn

\* A process that ends shows nothing to anybody.
LEMMA ExitView ==
    ASSUME TypeOK, ViewCurrent, NEW s \in Server, Exit(s)
    PROVE  ViewCurrent'
  BY DEF TypeOK, ViewCurrent, Live, Exit

\* A new session is shown the record as it is.
LEMMA ShowView ==
    ASSUME TypeOK, ViewCurrent, NEW s \in Server, NEW c \in Conn, NEW r \in Record,
           ShowRecord(s, c, r), UNCHANGED file
    PROVE  ViewCurrent'
  BY DEF TypeOK, ViewCurrent, Live, ShowRecord

\* A commit changes only the record of its own session, which no other
\* session is on.
LEMMA CommitView ==
    ASSUME TypeOK, WatchedOpen, Exclusion, ViewCurrent,
           NEW s \in Server, NEW c \in Conn, NEW l \in Line, WrCommit(s, c, l)
    PROVE  ViewCurrent'
  <1>1. /\ s \notin Reader /\ Live(s, c)
        /\ CloseConn(s, c, {})
        /\ file' = [file EXCEPT ![id[s][c]] = Booked(@, Args[l])]
    BY HandledOpen DEF WrCommit, EndWrite, Live
  <1> SUFFICES ASSUME NEW t \in Server, NEW d \in Conn, Live(t, d)'
               PROVE  view'[t][d] = file'[id'[t][d]]
    BY DEF ViewCurrent
  <1>2. <<s, c>> # <<t, d>>
    BY <1>1 DEF CloseConn, Live, TypeOK
  <1>3. Live(t, d) /\ id'[t][d] = id[t][d] /\ view'[t][d] = view[t][d]
    BY <1>1, <1>2 DEF CloseConn, Live, TypeOK
  <1>4. id[t][d] # id[s][c]
    BY <1>1, <1>2, <1>3 DEF Exclusion
  <1>5. file'[id[t][d]] = file[id[t][d]]
    BY <1>1, <1>4 DEF TypeOK
  <1> QED
    BY <1>3, <1>5 DEF ViewCurrent

\* Every step keeps what the open sessions were shown true.
LEMMA NextView ==
    TypeOK /\ WatchedOpen /\ Exclusion /\ ViewCurrent /\ [Next]_vars => ViewCurrent'
  <1> SUFFICES ASSUME TypeOK, WatchedOpen, Exclusion, ViewCurrent, [Next]_vars
               PROVE  ViewCurrent'
    OBVIOUS
  <1>1. CASE UNCHANGED vars
    BY <1>1 DEF vars, ViewCurrent, Live
  <1>2. ASSUME NEW s \in Server, Environment(s)
        PROVE  ViewCurrent'
    <2>1. CASE Connect(s) \/ Restart(s)
      BY <2>1 DEF Connect, Restart, ViewCurrent, Live, sockets, requests
    <2>2. CASE Die(s)
      BY <2>2, ExitView DEF Die
    <2>3. ASSUME NEW c \in Conn, HangUp(s, c)
          PROVE  ViewCurrent'
      BY <2>3 DEF HangUp, ViewCurrent, Live, TypeOK, requests
    <2>4. ASSUME NEW c \in Conn, NEW m \in Chunk[s], Send(s, c, m)
          PROVE  ViewCurrent'
      BY <2>4 DEF Send, ViewCurrent, Live, requests
    <2> QED
      BY <1>2, <2>1, <2>2, <2>3, <2>4 DEF Environment
  <1>3. ASSUME NEW s \in Server, Poll(s)
        PROVE  ViewCurrent'
    <2>1. CASE Select(s)
      BY <2>1 DEF Select, ViewCurrent, Live, sockets, requests
    <2>2. CASE SelectFull(s)
      BY <2>2, ExitView DEF SelectFull
    <2>3. ASSUME NEW c \in Conn, SelectAccept(s, c)
          PROVE  ViewCurrent'
      BY <2>3 DEF SelectAccept, ViewCurrent, Live, TypeOK
    <2> QED
      BY <1>3, <2>1, <2>2, <2>3 DEF Poll
  <1>4. ASSUME NEW s \in Server, NEW c \in Conn, Handle(s, c)
        PROVE  ViewCurrent'
    <2>1. CASE ReadUnterminated(s, c) \/ \E l \in Line : WrTruncated(s, c, l)
      BY <2>1, ExitView DEF ReadUnterminated, WrTruncated
    <2>2. CASE RdGoneGrant(s, c)
      BY <2>2 DEF RdGoneGrant, ViewCurrent, Live, TypeOK
    <2>3. CASE RdGoneReject(s, c) \/ RdLeave(s, c) \/ WrReject(s, c)
      BY <2>3, CloseView DEF RdGoneReject, RdLeave, WrReject
    <2>4. CASE WrLeave(s, c)
      BY <2>4, CloseView DEF WrLeave, EndWrite
    <2>5. ASSUME NEW l \in Line, RdReject(s, c, l) \/ WrRefuse(s, c, l)
          PROVE  ViewCurrent'
      BY <2>5, CloseView DEF RdReject, WrRefuse, EndWrite
    <2>6. ASSUME NEW l \in Line, WrCommit(s, c, l)
          PROVE  ViewCurrent'
      BY <2>6, CommitView
    <2>7. ASSUME NEW l \in Line, RdIgnore(s, c, l)
          PROVE  ViewCurrent'
      BY <2>7 DEF RdIgnore, ViewCurrent, Live, requests
    <2>8. ASSUME NEW l \in Line, RdGrant(s, c, l) \/ WrGrant(s, c, l)
          PROVE  ViewCurrent'
      <3>1. IdOf[l] \in Record
        BY <2>8, LineAssumption DEF RdGrant, WrGrant
      <3> QED
        BY <2>8, <3>1, ShowView DEF RdGrant, WrGrant
    <2> QED
      BY <1>4, <2>1, <2>2, <2>3, <2>4, <2>5, <2>6, <2>7, <2>8 DEF Handle
  <1> QED
    BY <1>1, <1>2, <1>3, <1>4 DEF Next, Serve

-----------------------------------------------------------------------------
(* The invariant.                                                           *)

\* The processes start with the invariant.
LEMMA InitSafety == Init => SafetyInv
  <1> SUFFICES ASSUME Init PROVE SafetyInv
    OBVIOUS
  <1>1. TypeOK
    BY InitTypeOK
  <1>2. WatchedOpen /\ ViewCurrent /\ LocksCompatible
    BY DEF Init, WatchedOpen, ViewCurrent, Live, LocksCompatible
  <1>3. ASSUME NEW s \in Server, NEW r \in Record
        PROVE  Cardinality(Sessions(s, r)) = 0
    <2>1. Sessions(s, r) = {}
      BY DEF Init, Sessions, Live
    <2> QED
      BY <2>1, FS_EmptySet
  <1>4. LockAccounting
    BY <1>3 DEF Init, LockAccounting
  <1> QED
    BY <1>1, <1>2, <1>4 DEF SafetyInv

\* Every step of the processes and their clients keeps it.
LEMMA NextSafety == SafetyInv /\ [Next]_vars => SafetyInv'
  <1> SUFFICES ASSUME SafetyInv, [Next]_vars PROVE SafetyInv'
    OBVIOUS
  <1>1. TypeOK /\ WatchedOpen /\ LockInv /\ ViewCurrent
    BY DEF SafetyInv, LockInv
  <1>2. Exclusion
    BY <1>1, LocksExclude
  <1>3. TypeOK' /\ WatchedOpen' /\ LockInv' /\ ViewCurrent'
    BY <1>1, <1>2, NextTypeOK, NextWatched, NextLocks, NextView
  <1> QED
    BY <1>3 DEF SafetyInv, LockInv

\* In every run of the servers the lock tables, the record locks and the sessions
\* agree, and what the clients were shown is true.
THEOREM SafetyInvariant == Spec => []SafetyInv
  BY InitSafety, NextSafety, PTL DEF Spec

\* Each process's record locks and its tables always agree and cover its
\* sessions: closing one session never unlocks a record under another.
THEOREM LocksAccounted == Spec => []LockAccounting
  <1>1. SafetyInv => LockAccounting
    BY DEF SafetyInv
  <1> QED
    BY <1>1, SafetyInvariant, PTL

\* No client edits a record while another client has a session on it, in the
\* same process or in another.
THEOREM SessionsExclude == Spec => []Exclusion
  <1>1. SafetyInv => Exclusion
    BY LocksExclude DEF SafetyInv, LockInv
  <1> QED
    BY <1>1, SafetyInvariant, PTL

\* The bookings a client was shown are those in the file until its session
\* ends.
THEOREM ViewsCurrent == Spec => []ViewCurrent
  <1>1. SafetyInv => ViewCurrent
    BY DEF SafetyInv
  <1> QED
    BY <1>1, SafetyInvariant, PTL

-----------------------------------------------------------------------------
(* Open connections are watched.  A write server watches all of them; a read *)
(* server all but the one whose bit FD_CLR(-1) may clear.                     *)

\* The connections of s that no stray FD_CLR touches.
Sheltered(s) == {c \in Conn : s \in Reader => c # AliasFd}

ShelteredWatched ==
    \A s \in Server : \A c \in Sheltered(s) :
        peer[s][c] # "none" => c \in master[s]

\* A handler that closes its connection stops watching that one, and on a
\* read server perhaps the connection FD_CLR(-1) hits.
LEMMA CloseSheltered ==
    ASSUME TypeOK, ShelteredWatched, NEW s \in Server, NEW c \in Conn, NEW alias,
           CloseConn(s, c, alias), alias = {} \/ (s \in Reader /\ alias = {AliasFd})
    PROVE  ShelteredWatched'
  BY DEF TypeOK, ShelteredWatched, Sheltered, CloseConn, Cleared

\* A process that ends has no connection.
LEMMA ExitSheltered ==
    ASSUME TypeOK, ShelteredWatched, NEW s \in Server, Exit(s)
    PROVE  ShelteredWatched'
  BY DEF TypeOK, ShelteredWatched, Sheltered, Exit

\* A step that opens, closes and unwatches nothing.
LEMMA QuietSheltered ==
    ASSUME ShelteredWatched, UNCHANGED master,
           \A t \in Server, d \in Conn : peer'[t][d] # "none" => peer[t][d] # "none"
    PROVE  ShelteredWatched'
  BY DEF ShelteredWatched, Sheltered

\* Every step keeps them watched.
LEMMA NextSheltered ==
    TypeOK /\ ShelteredWatched /\ [Next]_vars => ShelteredWatched'
  <1> SUFFICES ASSUME TypeOK, ShelteredWatched, [Next]_vars PROVE ShelteredWatched'
    OBVIOUS
  <1>1. CASE UNCHANGED vars
    BY <1>1, QuietSheltered DEF vars
  <1>2. ASSUME NEW s \in Server, Environment(s)
        PROVE  ShelteredWatched'
    <2>1. CASE Connect(s) \/ Restart(s)
      BY <2>1, QuietSheltered DEF Connect, Restart, sockets
    <2>2. CASE Die(s)
      BY <2>2, ExitSheltered DEF Die
    <2>3. ASSUME NEW c \in Conn, HangUp(s, c)
          PROVE  ShelteredWatched'
      BY <2>3, QuietSheltered DEF HangUp, TypeOK
    <2>4. ASSUME NEW c \in Conn, NEW m \in Chunk[s], Send(s, c, m)
          PROVE  ShelteredWatched'
      BY <2>4, QuietSheltered DEF Send
    <2> QED
      BY <1>2, <2>1, <2>2, <2>3, <2>4 DEF Environment
  <1>3. ASSUME NEW s \in Server, Poll(s)
        PROVE  ShelteredWatched'
    <2>1. CASE Select(s)
      BY <2>1, QuietSheltered DEF Select, sockets
    <2>2. CASE SelectFull(s)
      BY <2>2, ExitSheltered DEF SelectFull
    <2>3. ASSUME NEW c \in Conn, SelectAccept(s, c)
          PROVE  ShelteredWatched'
      BY <2>3 DEF SelectAccept, ShelteredWatched, Sheltered, TypeOK
    <2> QED
      BY <1>3, <2>1, <2>2, <2>3 DEF Poll
  <1>4. ASSUME NEW s \in Server, NEW c \in Conn, Handle(s, c)
        PROVE  ShelteredWatched'
    <2>1. CASE ReadUnterminated(s, c) \/ \E l \in Line : WrTruncated(s, c, l)
      BY <2>1, ExitSheltered DEF ReadUnterminated, WrTruncated
    <2>2. CASE RdGoneGrant(s, c)
      BY <2>2 DEF RdGoneGrant, Cleared, ShelteredWatched, Sheltered, TypeOK
    <2>3. CASE RdGoneReject(s, c)
      BY <2>3, CloseSheltered DEF RdGoneReject
    <2>4. CASE RdLeave(s, c) \/ WrReject(s, c) \/ WrLeave(s, c)
      BY <2>4, CloseSheltered DEF RdLeave, WrReject, WrLeave, EndWrite
    <2>5. ASSUME NEW l \in Line,
                 RdReject(s, c, l) \/ WrRefuse(s, c, l) \/ WrCommit(s, c, l)
          PROVE  ShelteredWatched'
      BY <2>5, CloseSheltered DEF RdReject, WrRefuse, WrCommit, EndWrite
    <2>6. ASSUME NEW l \in Line,
                 RdGrant(s, c, l) \/ WrGrant(s, c, l) \/ RdIgnore(s, c, l)
          PROVE  ShelteredWatched'
      BY <2>6, QuietSheltered DEF RdGrant, WrGrant, RdIgnore, ShowRecord
    <2> QED
      BY <1>4, <2>1, <2>2, <2>3, <2>4, <2>5, <2>6 DEF Handle
  <1> QED
    BY <1>1, <1>2, <1>3, <1>4 DEF Next, Serve

\* In every run, whatever FD_CLR(-1) hits, select() watches every open
\* connection of a write server and every one but AliasFd of a read server,
\* and never a closed one.
THEOREM WatchedUpToAlias ==
    Spec => [](\A s \in Server : \A c \in Sheltered(s) :
                   c \in master[s] <=> peer[s][c] # "none")
  <1> DEFINE Inv == SafetyInv /\ ShelteredWatched
             Goal == \A s \in Server : \A c \in Sheltered(s) :
                         c \in master[s] <=> peer[s][c] # "none"
  <1>1. Init => Inv
    BY InitSafety DEF Init, ShelteredWatched, Sheltered
  <1>2. Inv /\ [Next]_vars => Inv'
    BY NextSafety, NextSheltered DEF SafetyInv
  <1>3. Inv => Goal
    BY DEF SafetyInv, WatchedOpen, ShelteredWatched
  <1> QED
    BY <1>1, <1>2, <1>3, PTL DEF Spec

\* Where no connection has the descriptor that FD_CLR(-1) clears, master_set is
\* exactly the set of open connections of every server.
THEOREM OpenAreWatched == AliasFd \notin Conn => (Spec => []OpenIsWatched)
  <1> SUFFICES ASSUME AliasFd \notin Conn PROVE Spec => []OpenIsWatched
    OBVIOUS
  <1> DEFINE Goal == \A s \in Server : \A c \in Sheltered(s) :
                         c \in master[s] <=> peer[s][c] # "none"
  <1>1. SafetyInv /\ Goal => OpenIsWatched
    BY DEF SafetyInv, TypeOK, OpenIsWatched, Sheltered
  <1> QED
    BY <1>1, SafetyInvariant, WatchedUpToAlias, PTL

-----------------------------------------------------------------------------
(* No record lock outlives its sessions.  On a write server this follows      *)
(* from LockAccounting.  A read server that takes a line from a client that   *)
(* is gone counts a session nobody has; where no client leaves in stage 0     *)
(* that handler is never entered, and the counts are exact.                   *)

\* What a descriptor nobody cut off in stage 0 can look like: a closed one has
\* nothing buffered, one in stage 0 is connected and received no interrupt,
\* and one that is being visited has something to be read.
CleanConn(s, c) ==
    /\ peer[s][c] = "none" => inbox[s][c] = <<>>
    /\ stage[s][c] = 0 => /\ peer[s][c] # "gone"
                          /\ \A k \in DOMAIN inbox[s][c] : inbox[s][c][k] # Interrupt
    /\ c \in working[s] => inbox[s][c] # <<>> \/ peer[s][c] = "gone"

Clean == \A s \in Reader, c \in Conn : CleanConn(s, c)

CountExact == \A s \in Reader, r \in Record :
                  readLock[s][r] = Cardinality(Sessions(s, r))

\* The handler of a client that is gone never runs in stage 0.
LEMMA CleanTaken ==
    ASSUME TypeOK, Clean, NEW s \in Reader, NEW c \in Conn, Handles(s, c),
           Disconnected(inbox[s][c])
    PROVE  stage[s][c] # 0
  <1> SUFFICES ASSUME stage[s][c] = 0 PROVE FALSE
    OBVIOUS
  <1>1. inbox[s][c] \in Seq(Line \cup {Fragment, Interrupt})
    BY ServerAssumption DEF TypeOK
  <1>2. CleanConn(s, c) /\ c \in working[s]
    BY DEF Clean, Handles
  <1>3. inbox[s][c] # <<>> /\ \A k \in DOMAIN inbox[s][c] : inbox[s][c][k] # Interrupt
    BY <1>2 DEF CleanConn
  <1>4. 1 \in DOMAIN inbox[s][c]
    BY <1>1, <1>3
  <1> QED
    BY <1>3, <1>4 DEF Disconnected

\* A step that leaves every other connection alone keeps them clean.
LEMMA OneConnClean ==
    ASSUME TypeOK, Clean, NEW s \in Server, NEW c \in Conn,
           \A t \in Server, d \in Conn : <<t, d>> # <<s, c>> =>
               /\ peer'[t][d] = peer[t][d]
               /\ inbox'[t][d] = inbox[t][d]
               /\ stage'[t][d] = stage[t][d]
               /\ d \in working'[t] => d \in working[t],
           s \in Reader => CleanConn(s, c)'
    PROVE  Clean'
  <1> SUFFICES ASSUME NEW t \in Reader, NEW d \in Conn PROVE CleanConn(t, d)'
    BY DEF Clean
  <1>1. CASE <<t, d>> = <<s, c>>
    BY <1>1
  <1>2. CASE <<t, d>> # <<s, c>>
    BY <1>2, ServerAssumption DEF Clean, CleanConn
  <1> QED
    BY <1>1, <1>2

\* A handler leaves a closed connection clean.
LEMMA CloseClean ==
    ASSUME TypeOK, Clean, NEW s \in Server, NEW c \in Conn, NEW alias,
           CloseConn(s, c, alias),
           \/ Visited(s, c)
           \/ working' = [working EXCEPT ![s] = {}]
    PROVE  Clean'
  <1>1. \A t \in Server, d \in Conn : <<t, d>> # <<s, c>> =>
            /\ peer'[t][d] = peer[t][d]
            /\ inbox'[t][d] = inbox[t][d]
            /\ stage'[t][d] = stage[t][d]
            /\ d \in working'[t] => d \in working[t]
    BY DEF TypeOK, CloseConn, Visited
  <1>2. CleanConn(s, c)'
    BY DEF TypeOK, CloseConn, Visited, CleanConn
  <1> QED
    BY <1>1, <1>2, OneConnClean

\* A handler that took what was buffered of an open connection leaves it clean
\* in stage 1.
LEMMA TakeClean ==
    ASSUME TypeOK, Clean, NEW s \in Server, NEW c \in Conn, peer[s][c] # "none",
           UNCHANGED peer,
           inbox' = [inbox EXCEPT ![s][c] = <<>>],
           stage' = [stage EXCEPT ![s][c] = 1],
           Visited(s, c)
    PROVE  Clean'
  <1>1. \A t \in Server, d \in Conn : <<t, d>> # <<s, c>> =>
            /\ peer'[t][d] = peer[t][d]
            /\ inbox'[t][d] = inbox[t][d]
            /\ stage'[t][d] = stage[t][d]
            /\ d \in working'[t] => d \in working[t]
    BY DEF TypeOK, Visited
  <1>2. CleanConn(s, c)'
    BY DEF TypeOK, Visited, CleanConn
  <1> QED
    BY <1>1, <1>2, OneConnClean

\* A process that ends leaves nothing behind.
LEMMA ExitClean ==
    ASSUME TypeOK, Clean, NEW s \in Server, Exit(s)
    PROVE  Clean'
  <1> SUFFICES ASSUME NEW t \in Reader, NEW d \in Conn PROVE CleanConn(t, d)'
    BY DEF Clean
  <1>1. CASE t = s
    BY <1>1 DEF Exit, TypeOK, CleanConn
  <1>2. CASE t # s
    BY <1>2, ServerAssumption DEF Exit, TypeOK, Clean, CleanConn
  <1> QED
    BY <1>1, <1>2

\* What clients do where none of them leaves in stage 0.
LEMMA EnvironmentClean ==
    ASSUME 0 \notin CutStages, TypeOK, WatchedOpen, Clean, NEW s \in Server,
           Environment(s) \/ Poll(s)
    PROVE  Clean'
  <1>1. CASE Connect(s) \/ Restart(s)
    BY <1>1 DEF Connect, Restart, Clean, CleanConn, sockets, requests
  <1>2. CASE Die(s) \/ SelectFull(s)
    BY <1>2, ExitClean DEF Die, SelectFull
  <1>3. ASSUME NEW c \in Conn, HangUp(s, c)
        PROVE  Clean'
    <2>1. s \in Reader => CleanConn(s, c)'
      BY <1>3 DEF HangUp, MayCut, requests, TypeOK, Clean, CleanConn
    <2>2. \A t \in Server, d \in Conn : <<t, d>> # <<s, c>> =>
              /\ peer'[t][d] = peer[t][d]
              /\ inbox'[t][d] = inbox[t][d]
              /\ stage'[t][d] = stage[t][d]
              /\ d \in working'[t] => d \in working[t]
      BY <1>3 DEF HangUp, requests, TypeOK
    <2> QED
      BY <2>1, <2>2, OneConnClean
  <1>4. ASSUME NEW c \in Conn, NEW m \in Chunk[s], Send(s, c, m)
        PROVE  Clean'
    <2>0. m \in Line \cup {Fragment, Interrupt}
      BY LineAssumption
    <2>1. /\ inbox[s][c] \in Seq(Line \cup {Fragment, Interrupt})
          /\ inbox'[s][c] = Append(inbox[s][c], m)
      BY <1>4 DEF Send, TypeOK
    <2>2. ASSUME s \in Reader
          PROVE  CleanConn(s, c)'
      <3>1. /\ UNCHANGED <<peer, stage, working>>
            /\ peer[s][c] = "up"
            /\ m = Interrupt => stage[s][c] # 0
        BY <1>4, <2>2 DEF Send, MayCut, requests
      <3>2. inbox'[s][c] # <<>>
        BY <2>0, <2>1
      <3>3. \A k \in DOMAIN inbox'[s][c] :
                inbox'[s][c][k] = m \/ \E j \in DOMAIN inbox[s][c] :
                                           inbox'[s][c][k] = inbox[s][c][j]
        BY <2>0, <2>1
      <3>4. CleanConn(s, c)
        BY <2>2 DEF Clean
      <3> QED
        BY <3>1, <3>2, <3>3, <3>4 DEF CleanConn
    <2>3. \A t \in Server, d \in Conn : <<t, d>> # <<s, c>> =>
              /\ peer'[t][d] = peer[t][d]
              /\ inbox'[t][d] = inbox[t][d]
              /\ stage'[t][d] = stage[t][d]
              /\ d \in working'[t] => d \in working[t]
      BY <1>4 DEF Send, requests, TypeOK
    <2> QED
      BY <2>2, <2>3, OneConnClean
  <1>5. Ready(s) = {c \in master[s] : inbox[s][c] # <<>> \/ peer[s][c] = "gone"}
    BY DEF Ready
  <1>6. CASE Select(s)
    BY <1>5, <1>6, ServerAssumption
    DEF Select, sockets, requests, TypeOK, Clean, CleanConn
  <1>7. ASSUME NEW c \in Conn, SelectAccept(s, c)
        PROVE  Clean'
    <2> SUFFICES ASSUME NEW t \in Reader, NEW d \in Conn PROVE CleanConn(t, d)'
      BY DEF Clean
    <2>1. CleanConn(t, d)
      BY DEF Clean
    <2>2. CASE t = s /\ d = c
      <3>1. peer[s][c] = "none" /\ inbox[s][c] = <<>> /\ c \notin Ready(s)
        BY <1>5, <1>7, <2>1, <2>2 DEF SelectAccept, WatchedOpen, CleanConn
      <3> QED
        BY <1>7, <2>2, <3>1 DEF SelectAccept, TypeOK, CleanConn
    <2>3. CASE t = s /\ d # c
      BY <1>5, <1>7, <2>1, <2>3 DEF SelectAccept, TypeOK, CleanConn
    <2>4. CASE t # s
      BY <1>7, <2>1, <2>4, ServerAssumption DEF SelectAccept, TypeOK, CleanConn
    <2> QED
      BY <2>2, <2>3, <2>4
  <1> QED
    BY <1>1, <1>2, <1>3, <1>4, <1>6, <1>7 DEF Environment, Poll

\* No handler leaves a descriptor unclean.
LEMMA HandleClean ==
    ASSUME TypeOK, WatchedOpen, Clean, NEW s \in Server, NEW c \in Conn,
           Handle(s, c)
    PROVE  Clean'
  <1>1. CASE ReadUnterminated(s, c) \/ \E l \in Line : WrTruncated(s, c, l)
    BY <1>1, ExitClean DEF ReadUnterminated, WrTruncated
  <1>2. CASE RdGoneGrant(s, c)
    BY <1>2, CleanTaken DEF RdGoneGrant
  <1>3. CASE RdGoneReject(s, c) \/ RdLeave(s, c) \/ WrReject(s, c)
    BY <1>3, CloseClean DEF RdGoneReject, RdLeave, WrReject
  <1>4. CASE WrLeave(s, c)
    BY <1>4, CloseClean DEF WrLeave, EndWrite
  <1>5. ASSUME NEW l \in Line,
               RdReject(s, c, l) \/ WrRefuse(s, c, l) \/ WrCommit(s, c, l)
        PROVE  Clean'
    BY <1>5, CloseClean DEF RdReject, WrRefuse, WrCommit, EndWrite
  <1>6. ASSUME NEW l \in Line, RdGrant(s, c, l) \/ WrGrant(s, c, l)
        PROVE  Clean'
    BY <1>6, HandledOpen, TakeClean DEF RdGrant, WrGrant, ShowRecord
  <1>7. ASSUME NEW l \in Line, RdIgnore(s, c, l)
        PROVE  Clean'
    <2>1. stage' = [stage EXCEPT ![s][c] = 1]
      BY <1>7 DEF RdIgnore, requests, TypeOK
    <2> QED
      BY <1>7, <2>1, HandledOpen, TakeClean DEF RdIgnore
  <1> QED
    BY <1>1, <1>2, <1>3, <1>4, <1>5, <1>6, <1>7 DEF Handle

\* A step that changes no read count and no session of a read server.
LEMMA QuietCount ==
    ASSUME CountExact,
           \A t \in Reader, q \in Record : /\ readLock'[t][q] = readLock[t][q]
                                           /\ Sessions(t, q)' = Sessions(t, q)
    PROVE  CountExact'
  BY DEF CountExact

\* A process that ends counts no session and has none.
LEMMA ExitCount ==
    ASSUME TypeOK, CountExact, NEW s \in Server, Exit(s)
    PROVE  CountExact'
  <1> SUFFICES ASSUME NEW t \in Reader, NEW q \in Record
               PROVE  readLock'[t][q] = Cardinality(Sessions(t, q)')
    BY DEF CountExact
  <1>1. CASE t = s
    <2>1. readLock'[t][q] = 0 /\ Sessions(t, q)' = {}
      BY <1>1, ExitSessions DEF Exit, TypeOK
    <2> QED
      BY <2>1, FS_EmptySet
  <1>2. CASE t # s
    <2>1. readLock'[t][q] = readLock[t][q] /\ Sessions(t, q)' = Sessions(t, q)
      BY <1>2, ExitSessions, ServerAssumption DEF Exit, TypeOK
    <2> QED
      BY <2>1 DEF CountExact
  <1> QED
    BY <1>1, <1>2

\* A session that opens or ends on record r of read server s changes the count
\* and the sessions alike.
LEMMA GrantCount ==
    ASSUME TypeOK, WatchedOpen, CountExact, NEW s \in Server, NEW c \in Conn,
           NEW l \in Line, RdGrant(s, c, l)
    PROVE  CountExact'
  <1>0. PICK r \in Record : r = IdOf[l]
    BY LineAssumption DEF RdGrant
  <1>1. /\ s \in Reader /\ ShowRecord(s, c, r)
        /\ peer[s][c] # "none" /\ stage[s][c] = 0
        /\ readLock' = [readLock EXCEPT ![s][r] = @ + 1]
    BY <1>0, HandledOpen DEF RdGrant
  <1> SUFFICES ASSUME NEW t \in Reader, NEW q \in Record
               PROVE  readLock'[t][q] = Cardinality(Sessions(t, q)')
    BY DEF CountExact
  <1>2. /\ c \notin Sessions(s, q)
        /\ Sessions(t, q)' = IF t = s /\ q = r THEN Sessions(t, q) \cup {c}
                                               ELSE Sessions(t, q)
    BY <1>1, ShowSessions, ServerAssumption
  <1>3. CASE t = s /\ q = r
    <2>1. Cardinality(Sessions(t, q)') = Cardinality(Sessions(t, q)) + 1
      BY <1>2, <1>3, OneMore, SessionsFinite, ServerAssumption
    <2>2. readLock'[t][q] = readLock[t][q] + 1
      BY <1>1, <1>3, ServerAssumption DEF TypeOK
    <2> QED
      BY <2>1, <2>2 DEF CountExact
  <1>4. CASE ~(t = s /\ q = r)
    <2>1. readLock'[t][q] = readLock[t][q]
      BY <1>1, <1>4, ServerAssumption DEF TypeOK
    <2> QED
      BY <1>2, <1>4, <2>1 DEF CountExact
  <1> QED
    BY <1>3, <1>4

\* Likewise when the session ends.
LEMMA LeaveCount ==
    ASSUME TypeOK, WatchedOpen, CountExact, NEW s \in Server, NEW c \in Conn,
           RdLeave(s, c)
    PROVE  CountExact'
  <1>0. PICK r \in Record : r = id[s][c]
    BY DEF TypeOK
  <1>1. /\ s \in Reader /\ CloseConn(s, c, {})
        /\ peer[s][c] # "none" /\ stage[s][c] = 1
        /\ readLock' = [readLock EXCEPT ![s][r] = @ - 1]
    BY <1>0, HandledOpen DEF RdLeave
  <1> SUFFICES ASSUME NEW t \in Reader, NEW q \in Record
               PROVE  readLock'[t][q] = Cardinality(Sessions(t, q)')
    BY DEF CountExact
  <1>2. Sessions(t, q)' = IF t = s THEN Sessions(t, q) \ {c} ELSE Sessions(t, q)
    BY <1>1, CloseSessions, ServerAssumption
  <1>3. c \in Sessions(s, q) <=> q = r
    BY <1>0, <1>1, StageOne
  <1>4. CASE t = s /\ q = r
    <2>1. Cardinality(Sessions(t, q)') = Cardinality(Sessions(t, q)) - 1
      BY <1>2, <1>3, <1>4, OneLess, SessionsFinite, ServerAssumption
    <2>2. readLock'[t][q] = readLock[t][q] - 1
      BY <1>1, <1>4, ServerAssumption DEF TypeOK
    <2> QED
      BY <2>1, <2>2 DEF CountExact
  <1>5. CASE ~(t = s /\ q = r)
    <2>1. readLock'[t][q] = readLock[t][q]
      BY <1>1, <1>5, ServerAssumption DEF TypeOK
    <2>2. Sessions(t, q)' = Sessions(t, q)
      BY <1>2, <1>3, <1>5
    <2> QED
      BY <2>1, <2>2 DEF CountExact
  <1> QED
    BY <1>4, <1>5

\* A handler that closes a connection of stage 0, or one of a write server.
LEMMA CloseCount ==
    ASSUME TypeOK, CountExact, NEW s \in Server, NEW c \in Conn, NEW alias,
           CloseConn(s, c, alias), stage[s][c] = 0 \/ s \notin Reader,
           UNCHANGED readLock
    PROVE  CountExact'
  <1>1. ASSUME NEW t \in Reader, NEW q \in Record
        PROVE  Sessions(t, q)' = Sessions(t, q)
    <2>1. Sessions(t, q)' = IF t = s THEN Sessions(t, q) \ {c} ELSE Sessions(t, q)
      BY CloseSessions, ServerAssumption
    <2>2. t = s => c \notin Sessions(t, q)
      BY StageZero, ServerAssumption
    <2> QED
      BY <2>1, <2>2
  <1> QED
    BY <1>1, QuietCount

\* Every step keeps the counts exact where no client of a read server leaves in
\* stage 0.
LEMMA NextCount ==
    ASSUME TypeOK, WatchedOpen, Clean, CountExact, [Next]_vars
    PROVE  CountExact'
  <1>1. CASE UNCHANGED vars
    BY <1>1, QuietCount DEF vars, Sessions, Live
  <1>2. ASSUME NEW s \in Server, Environment(s)
        PROVE  CountExact'
    <2>1. CASE Connect(s) \/ Restart(s)
      BY <2>1, QuietCount
      DEF Connect, Restart, sockets, requests, locks, Sessions, Live
    <2>2. CASE Die(s)
      BY <2>2, ExitCount DEF Die
    <2>3. ASSUME NEW c \in Conn, HangUp(s, c)
          PROVE  CountExact'
      BY <2>3, QuietCount, ServerAssumption
      DEF HangUp, requests, locks, TypeOK, Sessions, Live
    <2>4. ASSUME NEW c \in Conn, NEW m \in Chunk[s], Send(s, c, m)
          PROVE  CountExact'
      BY <2>4, QuietCount DEF Send, requests, locks, Sessions, Live
    <2> QED
      BY <1>2, <2>1, <2>2, <2>3, <2>4 DEF Environment
  <1>3. ASSUME NEW s \in Server, Poll(s)
        PROVE  CountExact'
    <2>1. CASE Select(s)
      BY <2>1, QuietCount DEF Select, sockets, requests, locks, Sessions, Live
    <2>2. CASE SelectFull(s)
      BY <2>2, ExitCount DEF SelectFull
    <2>3. ASSUME NEW c \in Conn, SelectAccept(s, c)
          PROVE  CountExact'
      BY <2>3, QuietCount, ServerAssumption
      DEF SelectAccept, locks, TypeOK, Sessions, Live
    <2> QED
      BY <1>3, <2>1, <2>2, <2>3 DEF Poll
  <1>4. ASSUME NEW s \in Server, NEW c \in Conn, Handle(s, c)
        PROVE  CountExact'
    <2>1. CASE ReadUnterminated(s, c) \/ \E l \in Line : WrTruncated(s, c, l)
      BY <2>1, ExitCount DEF ReadUnterminated, WrTruncated
    <2>2. CASE RdGoneGrant(s, c) \/ RdGoneReject(s, c)
      BY <2>2, CleanTaken DEF RdGoneGrant, RdGoneReject
    <2>3. CASE RdLeave(s, c)
      BY <2>3, LeaveCount
    <2>4. CASE WrReject(s, c) \/ WrLeave(s, c)
      BY <2>4, CloseCount DEF WrReject, WrLeave, EndWrite, locks
    <2>5. ASSUME NEW l \in Line,
                 RdReject(s, c, l) \/ WrRefuse(s, c, l) \/ WrCommit(s, c, l)
          PROVE  CountExact'
      BY <2>5, CloseCount DEF RdReject, WrRefuse, WrCommit, EndWrite, locks
    <2>6. ASSUME NEW l \in Line, RdGrant(s, c, l)
          PROVE  CountExact'
      BY <2>6, GrantCount
    <2>7. ASSUME NEW l \in Line, RdIgnore(s, c, l)
          PROVE  CountExact'
      BY <2>7, QuietCount DEF RdIgnore, requests, locks, Sessions, Live
    <2>8. ASSUME NEW l \in Line, WrGrant(s, c, l)
          PROVE  CountExact'
      <3>1. ASSUME NEW t \in Reader, NEW q \in Record
            PROVE  Sessions(t, q)' = Sessions(t, q)
        BY <2>8, ServerAssumption DEF WrGrant, ShowRecord, TypeOK, Sessions, Live
      <3> QED
        BY <2>8, <3>1, QuietCount DEF WrGrant
    <2> QED
      BY <1>4, <2>1, <2>2, <2>3, <2>4, <2>5, <2>6, <2>7, <2>8 DEF Handle
  <1> QED
    BY <1>1, <1>2, <1>3, <1>4 DEF Next, Serve

\* The servers start clean.
LEMMA InitClean == Init => Clean /\ CountExact
  <1> SUFFICES ASSUME Init PROVE Clean /\ CountExact
    OBVIOUS
  <1>1. Clean
    BY ServerAssumption DEF Init, Clean, CleanConn
  <1>2. ASSUME NEW s \in Reader, NEW r \in Record
        PROVE  Sessions(s, r) = {}
    BY ServerAssumption DEF Init, Sessions, Live
  <1>3. CountExact
    BY <1>2, FS_EmptySet, ServerAssumption DEF Init, CountExact
  <1> QED
    BY <1>1, <1>3

\* A record lock that nobody's session needs is impossible where the counts are
\* exact.
LEMMA ExactNoOrphan == SafetyInv /\ CountExact => NoOrphanLock
  <1> SUFFICES ASSUME SafetyInv, CountExact, NEW s \in Server, NEW r \in Record,
                      flock[s][r] # "none", Sessions(s, r) = {}
               PROVE  FALSE
    BY DEF NoOrphanLock
  <1>1. Cardinality(Sessions(s, r)) = 0
    BY FS_EmptySet
  <1>2. flock[s][r] \in {"rd", "wr"}
    BY DEF SafetyInv, TypeOK
  <1>3. LockAccounting
    BY DEF SafetyInv
  <1> QED
    BY <1>1, <1>2, <1>3 DEF LockAccounting, CountExact

\* A write server never keeps the lock of a record without a session on it,
\* whatever its clients do and whenever they leave.
THEOREM WriteServerNoOrphan ==
    Spec => [](\A s \in Server \ Reader, r \in Record :
                   flock[s][r] # "none" => Sessions(s, r) # {})
  <1> DEFINE Goal == \A s \in Server \ Reader, r \in Record :
                         flock[s][r] # "none" => Sessions(s, r) # {}
  <1>1. ASSUME SafetyInv, NEW s \in Server \ Reader, NEW r \in Record,
               flock[s][r] # "none"
        PROVE  Sessions(s, r) # {}
    <2>1. flock[s][r] \in {"rd", "wr"}
      BY <1>1 DEF SafetyInv, TypeOK
    <2>2. Cardinality(Sessions(s, r)) = 1
      BY <1>1, <2>1 DEF SafetyInv, LockAccounting
    <2> QED
      BY <2>2, FS_EmptySet
  <1>2. SafetyInv => Goal
    BY <1>1
  <1> QED
    BY <1>2, SafetyInvariant, PTL

\* Where no client of a read server leaves before it has a session, no server
\* keeps a record lock without a session that needs it.
THEOREM NoLockOrphaned == 0 \notin CutStages => (Spec => []NoOrphanLock)
  <1> SUFFICES ASSUME 0 \notin CutStages PROVE Spec => []NoOrphanLock
    OBVIOUS
  <1> DEFINE Inv == SafetyInv /\ Clean /\ CountExact
  <1>1. Init => Inv
    BY InitSafety, InitClean
  <1>2. Inv /\ [Next]_vars => Inv'
    <2> SUFFICES ASSUME Inv, [Next]_vars PROVE Inv'
      OBVIOUS
    <2>1. TypeOK /\ WatchedOpen /\ SafetyInv'
      BY NextSafety DEF SafetyInv
    <2>2. UNCHANGED vars => Clean'
      BY DEF vars, Clean, CleanConn
    <2>3. Clean'
      BY <2>1, <2>2, EnvironmentClean, HandleClean, ServerAssumption DEF Next, Serve
    <2>4. CountExact'
      BY <2>1, NextCount
    <2> QED
      BY <2>1, <2>3, <2>4
  <1>3. Inv => NoOrphanLock
    BY ExactNoOrphan
  <1> QED
    BY <1>1, <1>2, <1>3, PTL DEF Spec

=============================================================================
