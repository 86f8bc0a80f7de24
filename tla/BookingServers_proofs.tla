----------------------- MODULE BookingServers_proofs ------------------------
(***************************************************************************)
(* Proofs about BookingServers, for any number of servers, connections and *)
(* records and any lines.                                                  *)
(***************************************************************************)
EXTENDS BookingServers, FiniteSetTheorems, TLAPS

-----------------------------------------------------------------------------
(* Lemmas about the operators of the model.                                 *)

\* A sum of two ints is an int again.
LEMMA AddWord == ASSUME NEW a \in Word, NEW b \in Word PROVE Add(a, b) \in Word
  BY SizeAssumption DEF Add, Word

\* What a read leaves of a buffer is a line.
LEMMA LinesReadType == ASSUME NEW q PROVE LinesRead(q) \subseteq Line
  BY LineAssumption DEF LinesRead

\* A well-formed command that is booked leaves ints.
LEMMA BookedType ==
    ASSUME NEW b \in Booking, NEW l \in Line, WellFormed(l)
    PROVE  Booked(b, Args[l]) \in Booking
  BY AddWord DEF Booked, Booking, WellFormed

\* The record a freed request names is a record.
LEMMA FreedIdType == FreedId \in Record
  BY SizeAssumption DEF FreedId, Record

-----------------------------------------------------------------------------
(* Type correctness.                                                        *)

\* The servers start with values of the right types.
LEMMA InitTypeOK == Init => TypeOK
  <1> SUFFICES ASSUME Init PROVE TypeOK
    OBVIOUS
  <1> QED
    BY FreedIdType, FileAssumption, LineAssumption DEF Init, TypeOK

\* A process that exits leaves its variables in their types.
LEMMA ExitType ==
    ASSUME TypeOK, NEW s \in Server, Exit(s)
    PROVE  TypeOK'
  BY FreedIdType, LineAssumption DEF TypeOK, Exit

\* A handler that closes its connection, too.
LEMMA CloseConnType ==
    ASSUME TypeOK, NEW s \in Server, NEW c \in Conn, NEW alias,
           CloseConn(s, c, alias)
    PROVE  /\ peer' \in [Server -> [Conn -> {"none", "up", "gone"}]]
           /\ inbox' \in [Server -> [Conn -> Seq(Line \cup {Fragment, Interrupt})]]
           /\ stage' \in [Server -> [Conn -> {0, 1}]]
           /\ id' \in [Server -> [Conn -> Record]]
           /\ view' \in [Server -> [Conn -> Booking \cup {NoView}]]
           /\ master' \in [Server -> SUBSET Conn]
  BY FreedIdType DEF TypeOK, CloseConn

\* What clients and the operating system do keeps the types.
LEMMA EnvironmentType ==
    ASSUME TypeOK, NEW s \in Server, Environment(s)
    PROVE  TypeOK'
  <1>1. CASE Connect(s)
    BY <1>1 DEF Connect, TypeOK, sockets, requests, locks
  <1>2. CASE Die(s)
    BY <1>2, ExitType DEF Die
  <1>3. CASE Restart(s)
    BY <1>3 DEF Restart, TypeOK, sockets, requests, locks
  <1>4. ASSUME NEW c \in Conn, HangUp(s, c)
        PROVE  TypeOK'
    BY <1>4 DEF HangUp, TypeOK, loop, requests, locks
  <1>5. ASSUME NEW c \in Conn, NEW m \in Chunk[s], Send(s, c, m)
        PROVE  TypeOK'
    <2>1. m \in Line \cup {Fragment, Interrupt}
      BY LineAssumption
    <2>2. inbox' \in [Server -> [Conn -> Seq(Line \cup {Fragment, Interrupt})]]
      BY <1>5, <2>1 DEF Send, TypeOK
    <2> QED
      BY <1>5, <2>2 DEF Send, TypeOK, loop, requests, locks
  <1> QED
    BY <1>1, <1>2, <1>3, <1>4, <1>5 DEF Environment

\* So does a pass through select().
LEMMA PollType ==
    ASSUME TypeOK, NEW s \in Server, Poll(s)
    PROVE  TypeOK'
  <1>1. Ready(s) \subseteq Conn
    BY DEF Ready, TypeOK
  <1>2. CASE Select(s)
    BY <1>1, <1>2 DEF Select, TypeOK, loop, sockets, requests, locks
  <1>3. CASE SelectFull(s)
    BY <1>3, ExitType DEF SelectFull
  <1>4. ASSUME NEW c \in Conn, SelectAccept(s, c)
        PROVE  TypeOK'
    BY <1>1, <1>4 DEF SelectAccept, TypeOK, locks
  <1> QED
    BY <1>2, <1>3, <1>4 DEF Poll

\* A granted session keeps the types of its connection.
LEMMA ShowRecordType ==
    ASSUME TypeOK, NEW s \in Server, NEW c \in Conn, NEW r \in Record,
           ShowRecord(s, c, r)
    PROVE  /\ peer' \in [Server -> [Conn -> {"none", "up", "gone"}]]
           /\ inbox' \in [Server -> [Conn -> Seq(Line \cup {Fragment, Interrupt})]]
           /\ stage' \in [Server -> [Conn -> {0, 1}]]
           /\ id' \in [Server -> [Conn -> Record]]
           /\ view' \in [Server -> [Conn -> Booking \cup {NoView}]]
           /\ master' \in [Server -> SUBSET Conn]
  <1>1. file[r] \in Booking
    BY DEF TypeOK
  <1> QED
    BY <1>1 DEF ShowRecord, TypeOK

\* The frames the handlers share: every handler removes its descriptor from
\* working and leaves the loop's variables alone.
LEMMA VisitedType ==
    ASSUME TypeOK, NEW s \in Server, NEW c \in Conn, Visited(s, c)
    PROVE  working' \in [Server -> SUBSET Conn]
  BY DEF TypeOK, Visited

\* The end of a write session keeps the types.
LEMMA EndWriteType ==
    ASSUME TypeOK, NEW s \in Server, NEW c \in Conn, EndWrite(s, c),
           file' \in [Record -> Booking], working' \in [Server -> SUBSET Conn]
    PROVE  TypeOK'
  <1>1. CloseConn(s, c, {})
    BY DEF EndWrite
  <1> QED
    BY <1>1, CloseConnType DEF EndWrite, TypeOK, loop

\* The handlers of a read server keep the types.
LEMMA ReadHandlerType ==
    ASSUME TypeOK, NEW s \in Server, NEW c \in Conn,
           \/ RdGoneGrant(s, c)
           \/ RdGoneReject(s, c)
           \/ RdLeave(s, c)
           \/ \E l \in Line : \/ RdGrant(s, c, l)
                              \/ RdReject(s, c, l)
                              \/ RdIgnore(s, c, l)
    PROVE  TypeOK'
  <1>1. CASE RdGoneGrant(s, c)
    <2>1. IdOf[buf[s][c]] \in Record
      BY <1>1, LineAssumption DEF RdGoneGrant, TypeOK
    <2>2. /\ peer' \in [Server -> [Conn -> {"none", "up", "gone"}]]
          /\ inbox' \in [Server -> [Conn -> Seq(Line \cup {Fragment, Interrupt})]]
          /\ stage' \in [Server -> [Conn -> {0, 1}]]
          /\ master' \in [Server -> SUBSET Conn]
      BY <1>1 DEF RdGoneGrant, TypeOK
    <2>3. id' \in [Server -> [Conn -> Record]]
      BY <1>1, <2>1 DEF RdGoneGrant, TypeOK
    <2>4. readLock' \in [Server -> [Record -> Int]]
      BY <1>1, <2>1 DEF RdGoneGrant, TypeOK
    <2>5. flock' \in [Server -> [Record -> {"none", "rd", "wr"}]]
      BY <1>1, <2>1 DEF RdGoneGrant, TypeOK
    <2> QED
      BY <1>1, <2>2, <2>3, <2>4, <2>5, VisitedType DEF RdGoneGrant, TypeOK, loop
  <1>2. CASE RdGoneReject(s, c)
    BY <1>2, CloseConnType, VisitedType DEF RdGoneReject, TypeOK, loop, locks
  <1>3. CASE RdLeave(s, c)
    <2>1. buf' \in [Server -> [Conn -> Line]]
      <3>1. CASE UNCHANGED buf
        BY <3>1 DEF TypeOK
      <3>2. CASE buf' = [buf EXCEPT ![s][c] = ExitLine]
        BY <3>2, LineAssumption DEF TypeOK
      <3> QED
        BY <1>3, <3>1, <3>2 DEF RdLeave
    <2>2. readLock' \in [Server -> [Record -> Int]]
      BY <1>3 DEF RdLeave, TypeOK
    <2>3. flock' \in [Server -> [Record -> {"none", "rd", "wr"}]]
      BY <1>3 DEF RdLeave, TypeOK
    <2> QED
      BY <1>3, <2>1, <2>2, <2>3, CloseConnType, VisitedType
      DEF RdLeave, TypeOK, loop
  <1>4. ASSUME NEW l \in Line, RdGrant(s, c, l)
        PROVE  TypeOK'
    <2>1. IdOf[l] \in Record
      BY <1>4, LineAssumption DEF RdGrant
    <2>2. readLock' \in [Server -> [Record -> Int]]
      BY <1>4, <2>1 DEF RdGrant, TypeOK
    <2>3. flock' \in [Server -> [Record -> {"none", "rd", "wr"}]]
      BY <1>4, <2>1 DEF RdGrant, TypeOK
    <2> QED
      BY <1>4, <2>1, <2>2, <2>3, ShowRecordType, VisitedType DEF RdGrant, TypeOK, loop
  <1>5. ASSUME NEW l \in Line, RdReject(s, c, l)
        PROVE  TypeOK'
    BY <1>5, CloseConnType, VisitedType DEF RdReject, TypeOK, loop, locks
  <1>6. ASSUME NEW l \in Line, RdIgnore(s, c, l)
        PROVE  TypeOK'
    BY <1>6, VisitedType DEF RdIgnore, TypeOK, loop, requests, locks
  <1> QED
    BY <1>1, <1>2, <1>3, <1>4, <1>5, <1>6

\* The handlers of a write server keep the types.
LEMMA WriteHandlerType ==
    ASSUME TypeOK, NEW s \in Server, NEW c \in Conn,
           \/ WrReject(s, c)
           \/ WrLeave(s, c)
           \/ \E l \in Line : \/ WrGrant(s, c, l)
                              \/ WrRefuse(s, c, l)
                              \/ WrCommit(s, c, l)
                              \/ WrTruncated(s, c, l)
    PROVE  TypeOK'
  <1>1. CASE WrReject(s, c)
    BY <1>1, CloseConnType, VisitedType DEF WrReject, TypeOK, loop, locks
  <1>2. CASE WrLeave(s, c)
    <2>1. working' \in [Server -> SUBSET Conn]
      BY <1>2 DEF WrLeave, TypeOK
    <2> QED
      BY <1>2, <2>1, EndWriteType DEF WrLeave, TypeOK
  <1>3. ASSUME NEW l \in Line, WrGrant(s, c, l)
        PROVE  TypeOK'
    <2>1. IdOf[l] \in Record
      BY <1>3, LineAssumption DEF WrGrant
    <2>2. flock' \in [Server -> [Record -> {"none", "rd", "wr"}]]
      BY <1>3, <2>1 DEF WrGrant, TypeOK
    <2> QED
      BY <1>3, <2>1, <2>2, ShowRecordType, VisitedType DEF WrGrant, TypeOK, loop
  <1>4. ASSUME NEW l \in Line, WrRefuse(s, c, l)
        PROVE  TypeOK'
    BY <1>4, VisitedType, EndWriteType DEF WrRefuse, TypeOK
  <1>5. ASSUME NEW l \in Line, WrCommit(s, c, l)
        PROVE  TypeOK'
    <2>1. id[s][c] \in Record /\ file[id[s][c]] \in Booking
      BY DEF TypeOK
    <2>2. Booked(file[id[s][c]], Args[l]) \in Booking
      BY <1>5, <2>1, BookedType DEF WrCommit
    <2>3. file' \in [Record -> Booking]
      BY <1>5, <2>1, <2>2 DEF WrCommit, TypeOK
    <2> QED
      BY <1>5, <2>3, VisitedType, EndWriteType DEF WrCommit
  <1>6. ASSUME NEW l \in Line, WrTruncated(s, c, l)
        PROVE  TypeOK'
    BY <1>6, ExitType DEF WrTruncated
  <1> QED
    BY <1>1, <1>2, <1>3, <1>4, <1>5, <1>6

\* Every step of the servers and their clients keeps the types.
LEMMA NextTypeOK == TypeOK /\ [Next]_vars => TypeOK'
  <1> SUFFICES ASSUME TypeOK, [Next]_vars PROVE TypeOK'
    OBVIOUS
  <1>1. CASE UNCHANGED vars
    BY <1>1 DEF vars, TypeOK
  <1>2. ASSUME NEW s \in Server, Environment(s)
        PROVE  TypeOK'
    BY <1>2, EnvironmentType
  <1>3. ASSUME NEW s \in Server, Poll(s)
        PROVE  TypeOK'
    BY <1>3, PollType
  <1>4. ASSUME NEW s \in Server, NEW c \in Conn, Handle(s, c)
        PROVE  TypeOK'
    <2>1. CASE ReadUnterminated(s, c)
      BY <2>1, ExitType DEF ReadUnterminated
    <2> QED
      BY <1>4, <2>1, ReadHandlerType, WriteHandlerType DEF Handle
  <1> QED
    BY <1>1, <1>2, <1>3, <1>4 DEF Next, Serve

\* The variables always hold values the C types and the kernel allow.
THEOREM TypeCorrect == Spec => []TypeOK
  BY InitTypeOK, NextTypeOK, PTL DEF Spec

=============================================================================
