------------------------ MODULE BookingStore_proofs -------------------------
(***************************************************************************)
(* The booking rules, the one way a record changes, and the servers as an  *)
(* implementation of the abstract store BookingStore.                      *)
(***************************************************************************)
EXTENDS BookingSafety_proofs

\* The numbers clients send are so small that the sum the server compares with
\* 15 fits in a C int.  Nothing in the code ensures this.
SmallCommands ==
    \A l \in Line : WellFormed(l) =>
        \A k \in Item : /\ 3 * Args[l][k] + BookingLimit <= WordMax
                        /\ 3 * Args[l][k] >= -(WordMax + 1)

\* The file the system starts with obeys the rules.
LegalStart == \A r \in Record : Legal(InitFile[r])

-----------------------------------------------------------------------------
(* Arithmetic without overflow.                                             *)

\* A sum that fits in a C int is exact.
LEMMA AddExact ==
    ASSUME NEW a \in Int, NEW b \in Int, a + b \in Word
    PROVE  Add(a, b) = a + b
  BY SizeAssumption DEF Add, Word

\* The sum of a legal booking and a small command is exact.
LEMMA TotalExact ==
    ASSUME NEW b \in Booking, Legal(b), NEW l \in Line, WellFormed(l), SmallCommands
    PROVE  /\ \A k \in Item : b[k] \in Int /\ Args[l][k] \in Int
           /\ TotalAfter(b, Args[l])
                = b[1] + b[2] + b[3] + Args[l][1] + Args[l][2] + Args[l][3]
           /\ \A k \in Item : /\ Add(b[k], Args[l][k]) = b[k] + Args[l][k]
                              /\ Add(Args[l][k], b[k]) = b[k] + Args[l][k]
  <1> DEFINE a == Args[l]
  <1> USE SizeAssumption DEF BookingLimit, Word
  <1>1. \A k \in Item : b[k] \in Word /\ a[k] \in Word
    BY DEF Booking, WellFormed
  <1>2. \A k \in Item : /\ 3 * a[k] + BookingLimit <= WordMax
                        /\ 3 * a[k] >= -(WordMax + 1)
    BY DEF SmallCommands
  <1>3. 1 \in Item /\ 2 \in Item /\ 3 \in Item
    BY DEF Item
  <1>4. /\ b[1] \in 0 .. 15 /\ b[2] \in 0 .. 15 /\ b[3] \in 0 .. 15
        /\ b[1] + b[2] + b[3] <= 15
    BY <1>1, <1>3 DEF Legal
  <1>5. \A k \in Item : b[k] \in 0 .. 15
    BY <1>4 DEF Item
  <1> HIDE DEF a
  <1>6. /\ a[1] \in Int /\ 3 * a[1] + 15 <= WordMax /\ 3 * a[1] >= -(WordMax + 1)
        /\ a[2] \in Int /\ 3 * a[2] + 15 <= WordMax /\ 3 * a[2] >= -(WordMax + 1)
        /\ a[3] \in Int /\ 3 * a[3] + 15 <= WordMax /\ 3 * a[3] >= -(WordMax + 1)
    BY <1>1, <1>2, <1>3
  <1>7. Add(b[1], b[2]) = b[1] + b[2]
    BY <1>4, AddExact
  <1>8. Add(b[1] + b[2], b[3]) = b[1] + b[2] + b[3]
    BY <1>4, AddExact
  <1>9. Add(b[1] + b[2] + b[3], a[1]) = b[1] + b[2] + b[3] + a[1]
    BY <1>4, <1>6 DEF Add
  <1>10. Add(b[1] + b[2] + b[3] + a[1], a[2]) = b[1] + b[2] + b[3] + a[1] + a[2]
    BY <1>4, <1>6 DEF Add
  <1>11. Add(b[1] + b[2] + b[3] + a[1] + a[2], a[3])
           = b[1] + b[2] + b[3] + a[1] + a[2] + a[3]
    BY <1>4, <1>6 DEF Add
  <1>12. TotalAfter(b, a) = b[1] + b[2] + b[3] + a[1] + a[2] + a[3]
    BY <1>7, <1>8, <1>9, <1>10, <1>11 DEF TotalAfter
  <1>13. \A k \in Item : /\ Add(b[k], a[k]) = b[k] + a[k]
                         /\ Add(a[k], b[k]) = b[k] + a[k]
    <2> SUFFICES ASSUME NEW k \in Item
                 PROVE  Add(b[k], a[k]) = b[k] + a[k] /\ Add(a[k], b[k]) = b[k] + a[k]
      OBVIOUS
    <2>1. b[k] \in 0 .. 15 /\ a[k] \in Int
      BY <1>1, <1>5
    <2>2. 3 * a[k] + 15 <= WordMax /\ 3 * a[k] >= -(WordMax + 1)
      BY <1>2
    <2> QED
      BY <2>1, <2>2 DEF Add
  <1> QED
    BY <1>1, <1>12, <1>13 DEF a

\* A command the write server does not refuse keeps a record legal.
LEMMA BookedLegal ==
    ASSUME NEW b \in Booking, Legal(b), NEW l \in Line, WellFormed(l), SmallCommands,
           ~TooMany(b, Args[l]), ~Negative(b, Args[l])
    PROVE  Legal(Booked(b, Args[l]))
  <1> DEFINE n == Booked(b, Args[l])
  <1>1. \A k \in Item : /\ n[k] = b[k] + Args[l][k]
                        /\ n[k] \in Int
                        /\ b[k] \in Int /\ Args[l][k] \in Int
    BY TotalExact DEF Booked
  <1>2. \A k \in Item : n[k] >= 0
    BY <1>1, TotalExact DEF Negative
  <1>3. b[1] + b[2] + b[3] + Args[l][1] + Args[l][2] + Args[l][3] <= BookingLimit
    <2>1. TotalAfter(b, Args[l]) \in Int
      BY <1>1, TotalExact DEF Item
    <2> QED
      BY <2>1, TotalExact DEF TooMany, BookingLimit
  <1>4. n[1] + n[2] + n[3] <= BookingLimit
    BY <1>1, <1>3 DEF Item
  <1> QED
    BY <1>2, <1>4 DEF Legal

-----------------------------------------------------------------------------
(* The file changes only by a commit.                                       *)

\* No step but a commit of a write server changes the file.
LEMMA FileSteps ==
    ASSUME [Next]_vars
    PROVE  \/ UNCHANGED file
           \/ \E s \in Server, c \in Conn, l \in Line : WrCommit(s, c, l)
  <1>1. CASE UNCHANGED vars
    BY <1>1 DEF vars
  <1>2. ASSUME NEW s \in Server, Environment(s) \/ Poll(s)
        PROVE  UNCHANGED file
    BY <1>2 DEF Environment, Poll, Connect, Die, Restart, HangUp, Send, Select,
                SelectFull, SelectAccept, Exit
  <1>3. ASSUME NEW s \in Server, NEW c \in Conn, Handle(s, c),
               ~\E l \in Line : WrCommit(s, c, l)
        PROVE  UNCHANGED file
    BY <1>3 DEF Handle, ReadUnterminated, RdGoneGrant, RdGoneReject, RdLeave,
                WrReject, WrLeave, RdGrant, RdReject, RdIgnore, WrGrant,
                WrRefuse, WrTruncated, Exit
  <1> QED
    BY <1>1, <1>2, <1>3 DEF Next, Serve

\* Every step leaves legal bookings when no command's sum leaves the C int.
LEMMA NextLegal ==
    ASSUME SmallCommands
    PROVE  TypeOK /\ BookingLegal /\ [Next]_vars => BookingLegal'
  <1> SUFFICES ASSUME TypeOK, BookingLegal, [Next]_vars PROVE BookingLegal'
    OBVIOUS
  <1>1. CASE UNCHANGED file
    BY <1>1 DEF BookingLegal
  <1>2. ASSUME NEW s \in Server, NEW c \in Conn, NEW l \in Line, WrCommit(s, c, l)
        PROVE  BookingLegal'
    <2>1. PICK r \in Record : r = id[s][c]
      BY DEF TypeOK
    <2>2. file' = [file EXCEPT ![r] = Booked(@, Args[l])]
      BY <1>2, <2>1 DEF WrCommit
    <2>3. /\ WellFormed(l)
          /\ ~TooMany(file[r], Args[l])
          /\ ~Negative(file[r], Args[l])
      BY <1>2, <2>1 DEF WrCommit, Refused
    <2>4. file[r] \in Booking /\ Legal(file[r])
      BY DEF TypeOK, BookingLegal
    <2>5. Legal(Booked(file[r], Args[l]))
      BY <2>3, <2>4, BookedLegal
    <2>6. ASSUME NEW q \in Record
          PROVE  Legal(file'[q])
      <3>1. file'[q] = IF q = r THEN Booked(file[r], Args[l]) ELSE file[q]
        BY <2>2 DEF TypeOK
      <3> QED
        BY <2>5, <3>1 DEF BookingLegal
    <2> QED
      BY <2>6 DEF BookingLegal
  <1> QED
    BY <1>1, <1>2, FileSteps

\* As long as the clients' numbers are small, no record ever holds more than
\* 15 items or a negative count.
THEOREM BookingsStayLegal ==
    ASSUME SmallCommands, LegalStart
    PROVE  Spec => []BookingLegal
  <1>1. Init => BookingLegal
    BY DEF Init, BookingLegal, LegalStart
  <1>2. TypeOK /\ BookingLegal /\ [Next]_vars => BookingLegal'
    BY NextLegal
  <1> QED
    BY <1>1, <1>2, TypeCorrect, PTL DEF Spec

\* A record changes only by the command that the client with the write session
\* on it has sent, applied to the bookings that client was shown.
THEOREM CommitsOnly == Spec => CommitOnly
  <1> DEFINE Commit ==
        \A r \in Record : file'[r] # file[r] =>
            \E s \in Server \ Reader, c \in Conn : \E l \in LinesRead(inbox[s][c]) :
                /\ Live(s, c) /\ id[s][c] = r /\ WellFormed(l)
                /\ flock[s][r] = "wr"
                /\ \A k \in Item : file'[r][k] = Add(view[s][c][k], Args[l][k])
                /\ ~Live(s, c)'
  <1>1. SafetyInv /\ [Next]_vars => [Commit]_vars
    <2> SUFFICES ASSUME SafetyInv, [Next]_vars,
                        NEW r \in Record, file'[r] # file[r]
                 PROVE  \E s \in Server \ Reader, c \in Conn :
                          \E l \in LinesRead(inbox[s][c]) :
                            /\ Live(s, c) /\ id[s][c] = r /\ WellFormed(l)
                            /\ flock[s][r] = "wr"
                            /\ \A k \in Item :
                                  file'[r][k] = Add(view[s][c][k], Args[l][k])
                            /\ ~Live(s, c)'
      OBVIOUS
    <2>1. PICK s \in Server, c \in Conn, l \in Line : WrCommit(s, c, l)
      BY FileSteps
    <2>2. /\ s \in Server \ Reader /\ Live(s, c) /\ WellFormed(l)
          /\ l \in LinesRead(inbox[s][c])
          /\ file' = [file EXCEPT ![id[s][c]] = Booked(@, Args[l])]
          /\ CloseConn(s, c, {})
      BY <2>1, HandledOpen DEF WrCommit, EndWrite, Live, SafetyInv
    <2>3. id[s][c] = r /\ file'[r] = Booked(file[r], Args[l])
      BY <2>2 DEF SafetyInv, TypeOK
    <2>4. view[s][c] = file[r]
      BY <2>2, <2>3 DEF SafetyInv, ViewCurrent
    <2>5. \A k \in Item : file'[r][k] = Add(view[s][c][k], Args[l][k])
      BY <2>3, <2>4 DEF Booked
    <2>6. ~Live(s, c)'
      BY <2>2 DEF CloseConn, Live, SafetyInv, TypeOK
    <2>7. flock[s][r] = "wr"
      <3>1. c \in Sessions(s, r)
        BY <2>2, <2>3 DEF Sessions
      <3>2. Cardinality(Sessions(s, r)) >= 1 /\ Cardinality(Sessions(s, r)) \in Nat
        BY <3>1, SessionsFinite, AtLeastOne
      <3> QED
        BY <2>2, <3>2 DEF SafetyInv, LockAccounting
    <2> QED
      BY <2>2, <2>3, <2>5, <2>6, <2>7
  <1>2. Spec => [][Commit]_vars
    BY <1>1, SafetyInvariant, PTL DEF Spec
  <1> QED
    BY <1>2 DEF CommitOnly

-----------------------------------------------------------------------------
(* The servers implement the abstract store.                                *)

\* A session holds the lock of its record: a write session the write lock.
LEMMA SessionLocked ==
    ASSUME SafetyInv, NEW s \in Server, NEW c \in Conn, NEW r \in Record,
           Live(s, c), id[s][c] = r
    PROVE  flock[s][r] # "none" /\ (s \notin Reader => flock[s][r] = "wr")
  <1>1. c \in Sessions(s, r)
    BY DEF Sessions
  <1>2. Cardinality(Sessions(s, r)) >= 1 /\ Cardinality(Sessions(s, r)) \in Nat
    BY <1>1, SessionsFinite, AtLeastOne
  <1>3. CASE s \in Reader
    <2>1. readLock[s][r] \in Int /\ readLock[s][r] >= Cardinality(Sessions(s, r))
      BY <1>3 DEF SafetyInv, LockAccounting, TypeOK
    <2>2. readLock[s][r] > 0
      BY <1>2, <2>1
    <2> QED
      BY <1>3, <2>2 DEF SafetyInv, LockAccounting
  <1>4. CASE s \notin Reader
    BY <1>2, <1>4 DEF SafetyInv, LockAccounting
  <1> QED
    BY <1>3, <1>4

\* What the connections of one server are open on.
LEMMA OpenOnAt ==
    ASSUME NEW s \in Server, NEW c \in Conn
    PROVE  /\ OpenOn[<<s, c>>] = IF Live(s, c) THEN id[s][c] ELSE NoId
           /\ OpenOn'[<<s, c>>] = IF Live(s, c)' THEN id'[s][c] ELSE NoId
  BY DEF OpenOn

\* Two states with the same sessions look the same.
LEMMA OpenOnSame ==
    ASSUME \A s \in Server, c \in Conn : /\ Live(s, c)' <=> Live(s, c)
                                         /\ Live(s, c) => id'[s][c] = id[s][c]
    PROVE  OpenOn' = OpenOn
  BY DEF OpenOn

\* A handler that closes its connection closes at most its session.
LEMMA CloseStore ==
    ASSUME TypeOK, NEW s \in Server, NEW c \in Conn, NEW alias,
           CloseConn(s, c, alias), UNCHANGED file
    PROVE  Store!StoreNext
  <1>1. ASSUME NEW x \in Server \X Conn
        PROVE  OpenOn'[x] = IF x \in {<<s, c>>} THEN NoId ELSE OpenOn[x]
    <2>1. PICK t \in Server, d \in Conn : x = <<t, d>>
      OBVIOUS
    <2>2. CASE t = s /\ d = c
      BY <2>1, <2>2, OpenOnAt DEF CloseConn, Live, TypeOK
    <2>3. CASE t # s \/ d # c
      BY <2>1, <2>3, OpenOnAt DEF CloseConn, Live, TypeOK
    <2> QED
      BY <2>2, <2>3
  <1>2. OpenOn' = [x \in Server \X Conn |->
                      IF x \in {<<s, c>>} THEN NoId ELSE OpenOn[x]]
    BY <1>1 DEF OpenOn
  <1>3. Store!Close({<<s, c>>})
    BY <1>2 DEF Store!Close
  <1> QED
    BY <1>3 DEF Store!StoreNext

\* A process that exits closes all its sessions.
LEMMA ExitStore ==
    ASSUME TypeOK, NEW s \in Server, Exit(s)
    PROVE  Store!StoreNext
  <1>1. ASSUME NEW x \in Server \X Conn
        PROVE  OpenOn'[x] = IF x \in {s} \X Conn THEN NoId ELSE OpenOn[x]
    <2>1. PICK t \in Server, d \in Conn : x = <<t, d>>
      OBVIOUS
    <2>2. CASE t = s
      BY <2>1, <2>2, OpenOnAt DEF Exit, Live, TypeOK
    <2>3. CASE t # s
      <3>1. (Live(t, d)' <=> Live(t, d)) /\ id'[t][d] = id[t][d]
        BY <2>3 DEF Exit, Live, TypeOK
      <3> QED
        BY <2>1, <2>3, <3>1, OpenOnAt
    <2> QED
      BY <2>2, <2>3
  <1>2. OpenOn' = [x \in Server \X Conn |->
                      IF x \in {s} \X Conn THEN NoId ELSE OpenOn[x]]
    BY <1>1 DEF OpenOn
  <1>3. Store!Close({s} \X Conn)
    BY <1>2 DEF Store!Close, Exit
  <1> QED
    BY <1>3 DEF Store!StoreNext

\* A granted session opens one, and the locks found free allow it.
LEMMA GrantStore ==
    ASSUME SafetyInv, NEW s \in Server, NEW c \in Conn, NEW r \in Record,
           ShowRecord(s, c, r), peer[s][c] # "none", stage[s][c] = 0,
           UNCHANGED file,
           IF s \in Reader THEN MayRead(s, r) ELSE MayWrite(s, r)
    PROVE  Store!StoreNext
  <1> DEFINE x == <<s, c>>
  <1>1. TypeOK
    BY DEF SafetyInv
  <1>2. OpenOn[x] = NoId
    BY OpenOnAt DEF Live
  <1>3. ASSUME NEW t \in Server, NEW d \in Conn, <<t, d>> # x,
               t \notin Reader \/ s \notin Reader
        PROVE  OpenOn[<<t, d>>] # r
    <2>1. SUFFICES ASSUME Live(t, d), id[t][d] = r
                   PROVE  FALSE
      BY <2>1, OpenOnAt, ValueAssumption
    <2>2. flock[t][r] # "none" /\ (t \notin Reader => flock[t][r] = "wr")
      BY <2>1, SessionLocked
    <2>3. CASE t # s
      BY <1>3, <2>2, <2>3 DEF MayRead, MayWrite, CanShare, CanOwn
    <2>4. CASE t = s
      <3>1. ~writeLock[s][r] /\ s \notin Reader
        BY <1>3, <2>4 DEF MayWrite
      <3> QED
        BY <2>2, <2>4, <3>1 DEF SafetyInv, LockAccounting
    <2> QED
      BY <2>3, <2>4
  <1>4. OpenOn' = [OpenOn EXCEPT ![x] = r]
    <2>1. ASSUME NEW y \in Server \X Conn
          PROVE  OpenOn'[y] = IF y = x THEN r ELSE OpenOn[y]
      <3>1. PICK t \in Server, d \in Conn : y = <<t, d>>
        OBVIOUS
      <3>2. CASE t = s /\ d = c
        BY <1>1, <3>1, <3>2, OpenOnAt DEF ShowRecord, Live, TypeOK
      <3>3. CASE t # s \/ d # c
        <4>1. (Live(t, d)' <=> Live(t, d)) /\ id'[t][d] = id[t][d]
          BY <1>1, <3>3 DEF ShowRecord, Live, TypeOK
        <4>2. y # x
          BY <3>1, <3>3
        <4> QED
          BY <3>1, <4>1, <4>2, OpenOnAt
      <3> QED
        BY <3>2, <3>3
    <2> QED
      BY <2>1 DEF OpenOn
  <1>5. IF x \in (Server \ Reader) \X Conn THEN Store!Free(x, r)
                                           ELSE Store!NotWritten(x, r)
    <2>1. CASE s \in Reader
      BY <1>3, <2>1 DEF Store!NotWritten
    <2>2. CASE s \notin Reader
      BY <1>3, <2>2 DEF Store!Free
    <2> QED
      BY <2>1, <2>2
  <1>6. x \in Server \X Conn
    OBVIOUS
  <1> HIDE DEF x
  <1>7. Store!Open(x, r)
    BY <1>2, <1>4, <1>5 DEF Store!Open
  <1> QED
    BY <1>6, <1>7 DEF Store!StoreNext

\* Closing one connection leaves the others' sessions alone.
LEMMA CloseOthers ==
    ASSUME TypeOK, NEW s \in Server, NEW c \in Conn, NEW alias,
           CloseConn(s, c, alias),
           NEW t \in Server, NEW d \in Conn, t # s \/ d # c
    PROVE  (Live(t, d)' <=> Live(t, d)) /\ id'[t][d] = id[t][d]
  BY DEF CloseConn, Live, TypeOK

\* Three counts whose sum is within a limit are within it.
LEMMA CountsBounded ==
    ASSUME NEW n \in Int, NEW x \in Int, NEW y \in Int, NEW z \in Int,
           x >= 0, y >= 0, z >= 0, x + y + z <= n
    PROVE  x \in 0 .. n /\ y \in 0 .. n /\ z \in 0 .. n
  OBVIOUS

\* A commit is the update of the abstract store.
LEMMA CommitStore ==
    ASSUME SafetyInv, BookingLegal, BookingLegal', TypeOK',
           NEW s \in Server, NEW c \in Conn, NEW l \in Line, WrCommit(s, c, l)
    PROVE  Store!StoreNext
  <1> DEFINE x == <<s, c>>
  <1>1. TypeOK
    BY DEF SafetyInv
  <1>2. PICK r \in Record : r = id[s][c]
    BY <1>1 DEF TypeOK
  <1>3. /\ s \in Server \ Reader /\ Live(s, c)
        /\ file' = [file EXCEPT ![r] = Booked(@, Args[l])]
        /\ CloseConn(s, c, {})
    BY <1>2, HandledOpen DEF WrCommit, EndWrite, Live, SafetyInv
  <1>4. PICK b : b = Booked(file[r], Args[l])
    OBVIOUS
  <1>5. file' = [file EXCEPT ![r] = b] /\ file'[r] = b
    BY <1>1, <1>3, <1>4 DEF TypeOK
  <1>6. b \in [Item -> 0 .. BookingLimit] /\ Store!LegalBooking(b)
    <2>1. b \in Booking /\ Legal(b)
      BY <1>5 DEF TypeOK, BookingLegal
    <2>2. b[1] \in Int /\ b[2] \in Int /\ b[3] \in Int
      BY <2>1, SizeAssumption DEF Booking, Item, Word
    <2>3. /\ b[1] >= 0 /\ b[2] >= 0 /\ b[3] >= 0
          /\ b[1] + b[2] + b[3] <= BookingLimit
      BY <2>1 DEF Legal, Item
    <2>4. b[1] \in 0 .. BookingLimit /\ b[2] \in 0 .. BookingLimit
          /\ b[3] \in 0 .. BookingLimit
      <3>1. BookingLimit \in Int
        BY DEF BookingLimit
      <3> QED
        BY <2>2, <2>3, <3>1, CountsBounded
    <2>5. \A k \in Item : b[k] \in 0 .. BookingLimit
      BY <2>4 DEF Item
    <2> QED
      BY <2>1, <2>5 DEF Booking, Store!LegalBooking, Legal
  <1>7. OpenOn[x] = r /\ r # NoId
    BY <1>2, <1>3, OpenOnAt, ValueAssumption
  <1>8. OpenOn' = [OpenOn EXCEPT ![x] = NoId]
    <2>1. ASSUME NEW y \in Server \X Conn
          PROVE  OpenOn'[y] = IF y = x THEN NoId ELSE OpenOn[y]
      <3>1. PICK t \in Server, d \in Conn : y = <<t, d>>
        OBVIOUS
      <3>2. CASE t = s /\ d = c
        BY <1>1, <1>3, <3>1, <3>2, OpenOnAt DEF CloseConn, Live, TypeOK
      <3>3. CASE t # s \/ d # c
        <4>1. (Live(t, d)' <=> Live(t, d)) /\ id'[t][d] = id[t][d]
          BY <1>1, <1>3, <3>3, CloseOthers
        <4>2. y # x
          BY <3>1, <3>3
        <4> QED
          BY <3>1, <4>1, <4>2, OpenOnAt
      <3> QED
        BY <3>2, <3>3
    <2> QED
      BY <2>1 DEF OpenOn
  <1>9. x \in (Server \ Reader) \X Conn
    BY <1>3
  <1> HIDE DEF x
  <1>10. Store!Update(x, b)
    BY <1>5, <1>6, <1>7, <1>8, <1>9 DEF Store!Update
  <1> QED
    BY <1>6, <1>9, <1>10 DEF Store!StoreNext

\* Every step of the servers is a step of the store or none.
LEMMA NextStore ==
    ASSUME SafetyInv, BookingLegal, BookingLegal', TypeOK', [Next]_vars
    PROVE  [Store!StoreNext]_(Store!storeVars)
  <1> USE DEF Store!storeVars
  <1>1. TypeOK
    BY DEF SafetyInv
  <1>2. CASE UNCHANGED vars
    <2>1. OpenOn' = OpenOn
      BY <1>2, OpenOnSame DEF vars, Live
    <2> QED
      BY <1>2, <2>1 DEF vars
  <1>3. ASSUME NEW s \in Server, Environment(s) \/ Poll(s)
        PROVE  [Store!StoreNext]_(Store!storeVars)
    <2>1. CASE Connect(s) \/ Restart(s) \/ Select(s)
      <3>1. UNCHANGED <<file, sockets, requests>>
        BY <2>1 DEF Connect, Restart, Select
      <3>2. OpenOn' = OpenOn
        BY <3>1, OpenOnSame DEF sockets, requests, Live
      <3> QED
        BY <3>1, <3>2
    <2>2. CASE Die(s) \/ SelectFull(s)
      BY <1>1, <2>2, ExitStore DEF Die, SelectFull
    <2>3. ASSUME NEW c \in Conn, HangUp(s, c)
          PROVE  UNCHANGED Store!storeVars
      <3>1. OpenOn' = OpenOn
        <4>1. ASSUME NEW t \in Server, NEW d \in Conn
              PROVE  peer'[t][d] # "none" <=> peer[t][d] # "none"
          <5>1. /\ peer' = [peer EXCEPT ![s][c] = "gone"] /\ peer[s][c] = "up"
                /\ peer \in [Server -> [Conn -> {"none", "up", "gone"}]]
            BY <1>1, <2>3 DEF HangUp, TypeOK
          <5>2. CASE t = s /\ d = c
            BY <5>1, <5>2
          <5>3. CASE t # s \/ d # c
            BY <5>1, <5>3
          <5> QED
            BY <5>2, <5>3
        <4>2. stage' = stage /\ id' = id
          BY <2>3 DEF HangUp, requests
        <4> QED
          BY <4>1, <4>2, OpenOnSame DEF Live
      <3> QED
        BY <2>3, <3>1 DEF HangUp
    <2>4. ASSUME NEW c \in Conn, NEW m \in Chunk[s], Send(s, c, m)
          PROVE  UNCHANGED Store!storeVars
      <3>1. OpenOn' = OpenOn
        BY <2>4, OpenOnSame DEF Send, Live, requests
      <3> QED
        BY <2>4, <3>1 DEF Send
    <2>5. ASSUME NEW c \in Conn, SelectAccept(s, c)
          PROVE  UNCHANGED Store!storeVars
      <3>1. ASSUME NEW t \in Server, NEW d \in Conn
            PROVE  (Live(t, d)' <=> Live(t, d)) /\ id'[t][d] = id[t][d]
        <4>1. /\ peer' = [peer EXCEPT ![s][c] = "up"]
              /\ stage' = [stage EXCEPT ![s][c] = 0]
              /\ id' = id /\ peer[s][c] = "none"
          BY <2>5 DEF SelectAccept
        <4>2. CASE t = s /\ d = c
          BY <1>1, <4>1, <4>2 DEF Live, TypeOK
        <4>3. CASE t # s \/ d # c
          <5>1. peer'[t][d] = peer[t][d]
            <6>1. CASE t # s
              BY <4>1, <6>1, <1>1 DEF TypeOK
            <6>2. CASE t = s /\ d # c
              BY <4>1, <6>2, <1>1 DEF TypeOK
            <6> QED
              BY <4>3, <6>1, <6>2
          <5>2. stage'[t][d] = stage[t][d]
            <6>1. CASE t # s
              BY <4>1, <6>1, <1>1 DEF TypeOK
            <6>2. CASE t = s /\ d # c
              BY <4>1, <6>2, <1>1 DEF TypeOK
            <6> QED
              BY <4>3, <6>1, <6>2
          <5> QED
            BY <4>1, <5>1, <5>2 DEF Live
        <4> QED
          BY <4>1, <4>2, <4>3
      <3>2. OpenOn' = OpenOn
        BY <3>1, OpenOnSame
      <3> QED
        BY <2>5, <3>2 DEF SelectAccept
    <2> QED
      BY <1>3, <2>1, <2>2, <2>3, <2>4, <2>5 DEF Environment, Poll
  <1>4. ASSUME NEW s \in Server, NEW c \in Conn, Handle(s, c)
        PROVE  [Store!StoreNext]_(Store!storeVars)
    <2>1. CASE ReadUnterminated(s, c) \/ \E l \in Line : WrTruncated(s, c, l)
      BY <1>1, <2>1, ExitStore DEF ReadUnterminated, WrTruncated
    <2>2. CASE RdGoneGrant(s, c)
      <3>1. OpenOn' = OpenOn
        <4>1. ASSUME NEW t \in Server, NEW d \in Conn
              PROVE  (Live(t, d)' <=> Live(t, d)) /\ (Live(t, d) => id'[t][d] = id[t][d])
          <5>1. PICK r : /\ stage[s][c] = 0
                         /\ peer' = [peer EXCEPT ![s][c] = "none"]
                         /\ stage' = [stage EXCEPT ![s][c] = 1]
                         /\ id' = [id EXCEPT ![s][c] = r]
            BY <2>2 DEF RdGoneGrant
          <5>2. /\ peer \in [Server -> [Conn -> {"none", "up", "gone"}]]
                /\ stage \in [Server -> [Conn -> {0, 1}]]
                /\ id \in [Server -> [Conn -> Record]]
            BY <1>1 DEF TypeOK
          <5>3. CASE t = s /\ d = c
            <6>1. peer'[t][d] = "none"
              BY <5>1, <5>2, <5>3
            <6>2. stage[t][d] = 0
              BY <5>1, <5>3
            <6> QED
              BY <6>1, <6>2 DEF Live
          <5>4. CASE t # s \/ d # c
            <6>1. peer'[t][d] = peer[t][d]
              BY <5>1, <5>2, <5>4
            <6>2. stage'[t][d] = stage[t][d]
              BY <5>1, <5>2, <5>4
            <6>3. id'[t][d] = id[t][d]
              BY <5>1, <5>2, <5>4
            <6> QED
              BY <6>1, <6>2, <6>3 DEF Live
          <5> QED
            BY <5>3, <5>4
        <4> QED
          BY <4>1, OpenOnSame
      <3> QED
        BY <2>2, <3>1 DEF RdGoneGrant
    <2>3. CASE RdGoneReject(s, c) \/ RdLeave(s, c) \/ WrReject(s, c)
      BY <1>1, <2>3, CloseStore DEF RdGoneReject, RdLeave, WrReject
    <2>4. CASE WrLeave(s, c)
      BY <1>1, <2>4, CloseStore DEF WrLeave, EndWrite
    <2>5. ASSUME NEW l \in Line, RdReject(s, c, l) \/ WrRefuse(s, c, l)
          PROVE  Store!StoreNext
      BY <1>1, <2>5, CloseStore DEF RdReject, WrRefuse, EndWrite
    <2>6. ASSUME NEW l \in Line, WrCommit(s, c, l)
          PROVE  Store!StoreNext
      BY <2>6, CommitStore
    <2>7. ASSUME NEW l \in Line, RdIgnore(s, c, l)
          PROVE  UNCHANGED Store!storeVars
      <3>1. OpenOn' = OpenOn
        BY <2>7, OpenOnSame DEF RdIgnore, Live, requests
      <3> QED
        BY <2>7, <3>1 DEF RdIgnore
    <2>8. ASSUME NEW l \in Line, RdGrant(s, c, l) \/ WrGrant(s, c, l)
          PROVE  Store!StoreNext
      <3>1. PICK r \in Record : r = IdOf[l]
        BY <2>8, LineAssumption DEF RdGrant, WrGrant
      <3>2. /\ ShowRecord(s, c, r) /\ UNCHANGED file
            /\ peer[s][c] # "none" /\ stage[s][c] = 0
            /\ IF s \in Reader THEN MayRead(s, r) ELSE MayWrite(s, r)
        BY <2>8, <3>1, HandledOpen DEF RdGrant, WrGrant, SafetyInv
      <3> QED
        BY <3>2, GrantStore
    <2> QED
      BY <1>4, <2>1, <2>2, <2>3, <2>4, <2>5, <2>6, <2>7, <2>8 DEF Handle
  <1> QED
    BY <1>2, <1>3, <1>4 DEF Next, Serve

\* The servers, their locks and their tables implement the abstract store of
\* sessions, as long as the clients' numbers are small.
THEOREM ServersImplementStore ==
    ASSUME SmallCommands, LegalStart
    PROVE  Spec => ImplementsStore
  <1>1. Init => Store!StoreInit
    BY DEF Init, Store!StoreInit, OpenOn, Live
  <1>2. SafetyInv /\ BookingLegal /\ BookingLegal' /\ TypeOK' /\ [Next]_vars
          => [Store!StoreNext]_(Store!storeVars)
    BY NextStore
  <1>3. SafetyInv => TypeOK
    BY DEF SafetyInv
  <1> QED
    BY <1>1, <1>2, <1>3, SafetyInvariant, BookingsStayLegal, PTL
    DEF Spec, ImplementsStore, Store!StoreSpec

=============================================================================
