---------------------------- MODULE Ranking_proofs ----------------------------
(***************************************************************************)
(* What sort() and the merge of Ranking do to any two parallel arrays: they *)
(* lose and double nothing, touch no slot outside of their part, and leave *)
(* that part in order.                                                     *)
(***************************************************************************)
EXTENDS Ranking, Iteration, FiniteSetTheorems

\* Arrays of n movies of F, with their scores.
Slot(n) == 0 .. n - 1
Strings(F) == [film : F, tail : Nat, secret : Nat]
IsArray(a, n, F) ==
    /\ n \in Nat /\ Title \in [F -> Nat]
    /\ a.mv \in [Slot(n) -> Strings(F)]
    /\ a.sc \in [Slot(n) -> Nat]

\* Slot j is not better than slot k to argmax().
NotBetter(a, j, k) ==
    a.sc[j] < a.sc[k] \/ (a.sc[j] = a.sc[k] /\ ~StrLess(a.mv[j], a.mv[k]))

\* What the comparisons are made of.
LEMMA SlotValues ==
    ASSUME NEW a, NEW n, NEW F, IsArray(a, n, F), NEW k \in Slot(n)
    PROVE  /\ k \in Int /\ a.sc[k] \in Int
           /\ a.mv[k].film \in F /\ Title[a.mv[k].film] \in Int
           /\ a.mv[k].tail \in Int /\ a.mv[k].secret \in Int
  <1>1. a.mv[k] \in Strings(F) /\ a.sc[k] \in Nat
    BY DEF IsArray
  <1>2. a.mv[k].film \in F /\ a.mv[k].tail \in Nat /\ a.mv[k].secret \in Nat
    BY <1>1 DEF Strings
  <1>3. Title[a.mv[k].film] \in Nat
    BY <1>2 DEF IsArray
  <1> QED
    BY <1>1, <1>2, <1>3 DEF Slot

\* The order of argmax() compares all slots, and is transitive.
LEMMA Compared ==
    ASSUME NEW a, NEW n, NEW F, IsArray(a, n, F),
           NEW i \in Slot(n), NEW j \in Slot(n), NEW k \in Slot(n)
    PROVE  /\ NotBetter(a, i, i)
           /\ NotBetter(a, i, j) \/ NotBetter(a, j, i)
           /\ NotBetter(a, i, j) /\ NotBetter(a, j, k) => NotBetter(a, i, k)
           /\ NotBetter(a, i, j) => InOrder(a, j, i)
  <1>1. /\ a.sc[i] \in Int /\ a.sc[j] \in Int /\ a.sc[k] \in Int
        /\ Title[a.mv[i].film] \in Int /\ a.mv[i].tail \in Int /\ a.mv[i].secret \in Int
        /\ Title[a.mv[j].film] \in Int /\ a.mv[j].tail \in Int /\ a.mv[j].secret \in Int
        /\ Title[a.mv[k].film] \in Int /\ a.mv[k].tail \in Int /\ a.mv[k].secret \in Int
    BY SlotValues
  <1> QED
    BY <1>1 DEF NotBetter, StrLess, InOrder

\* The order of the answers is one: it compares all slots, and is transitive.
LEMMA Ordered ==
    ASSUME NEW a, NEW n, NEW F, IsArray(a, n, F),
           NEW i \in Slot(n), NEW j \in Slot(n), NEW k \in Slot(n)
    PROVE  /\ InOrder(a, i, i)
           /\ InOrder(a, i, j) \/ InOrder(a, j, i)
           /\ InOrder(a, i, j) /\ InOrder(a, j, k) => InOrder(a, i, k)
  <1>1. /\ a.sc[i] \in Int /\ a.sc[j] \in Int /\ a.sc[k] \in Int
        /\ Title[a.mv[i].film] \in Int /\ Title[a.mv[j].film] \in Int
        /\ Title[a.mv[k].film] \in Int
    BY SlotValues
  <1> QED
    BY <1>1 DEF InOrder

-----------------------------------------------------------------------------
(* sort().                                                                  *)

\* Of some slots argmax() finds one that no other is better than.
LEMMA ArgMaxBest ==
    ASSUME NEW a, NEW n, NEW F, IsArray(a, n, F), NEW S, S \subseteq Slot(n), S # {}
    PROVE  ArgMax(a, S) \in S /\ \A j \in S : NotBetter(a, j, ArgMax(a, S))
  <1> DEFINE Best(T) == \E k \in T : \A j \in T : NotBetter(a, j, k)
             Good == {m \in Nat : \A T \in SUBSET (Slot(n) \cap (0 .. m)) :
                                      T # {} => Best(T)}
  <1>1. 0 \in Good
    <2> SUFFICES ASSUME NEW T, T \subseteq Slot(n), T \subseteq 0 .. 0, T # {}
                 PROVE  Best(T)
      OBVIOUS
    <2>1. 0 \in T /\ \A j \in T : j = 0
      <3>1. \A j \in 0 .. 0 : j = 0
        OBVIOUS
      <3>2. \A j \in T : j = 0
        BY <3>1
      <3> QED
        BY <3>2
    <2>2. NotBetter(a, 0, 0)
      BY <2>1, Compared
    <2> QED
      BY <2>1, <2>2
  <1>2. ASSUME NEW m \in Nat, m \in Good
        PROVE  m + 1 \in Good
    <2> SUFFICES ASSUME NEW T, T \subseteq Slot(n), T \subseteq 0 .. m + 1, T # {}
                 PROVE  Best(T)
      OBVIOUS
    <2> DEFINE U == T \ {m + 1}
    <2>1. U \subseteq 0 .. m /\ U \subseteq Slot(n)
      OBVIOUS
    <2>2. U # {} => Best(U)
      <3>1. U \in SUBSET (Slot(n) \cap (0 .. m))
        BY <2>1
      <3> HIDE DEF U, Best
      <3> QED
        BY <1>2, <3>1
    <2>3. CASE m + 1 \notin T
      <3>1. U = T
        BY <2>3
      <3> QED
        BY <2>2, <3>1
    <2>4. CASE m + 1 \in T /\ U = {}
      <3>1. \A j \in T : j = m + 1
        BY <2>4
      <3>2. m + 1 \in Slot(n) /\ NotBetter(a, m + 1, m + 1)
        BY <2>4, Compared
      <3> QED
        BY <2>4, <3>1, <3>2
    <2>5. CASE m + 1 \in T /\ U # {}
      <3> DEFINE x == m + 1
      <3>1. PICK k \in U : \A j \in U : NotBetter(a, j, k)
        BY <2>2, <2>5
      <3>2. x \in Slot(n) /\ k \in Slot(n) /\ k \in T /\ x \in T
        BY <2>1, <2>5, <3>1
      <3>3. \A j \in T : j \in U \/ j = x
        OBVIOUS
      <3> HIDE DEF x, U
      <3>4. NotBetter(a, x, x)
        BY <3>2, Compared
      <3>5. CASE NotBetter(a, x, k)
        BY <3>1, <3>2, <3>3, <3>5
      <3>6. CASE NotBetter(a, k, x)
        <4>1. ASSUME NEW j \in U
              PROVE  NotBetter(a, j, x)
          <5>1. j \in Slot(n) /\ NotBetter(a, j, k)
            BY <2>1, <3>1
          <5> QED
            BY <3>2, <3>6, <5>1, Compared
        <4> QED
          BY <3>2, <3>3, <3>4, <4>1
      <3> QED
        BY <3>2, <3>5, <3>6, Compared
    <2> QED
      BY <2>3, <2>4, <2>5
  <1>3. n \in Good
    <2>1. n \in Nat
      BY DEF IsArray
    <2> HIDE DEF Good
    <2> QED
      BY <1>1, <1>2, <2>1, Induction
  <1>4. S \in SUBSET (Slot(n) \cap (0 .. n))
    <2>1. Slot(n) \subseteq 0 .. n
      BY DEF Slot, IsArray
    <2> QED
      BY <2>1
  <1>5. Best(S)
    <2> HIDE DEF Best
    <2> QED
      BY <1>3, <1>4
  <1>6. \E k \in S : \A j \in S : NotBetter(a, j, k)
    BY <1>5
  <1> QED
    BY <1>6 DEF ArgMax, NotBetter
\* A loop has taken the slots order from S, in order; left may still follow.
Taken(a, S, order, n, left) ==
    /\ order \in Seq(S) /\ Len(order) = n /\ left \subseteq S
    /\ \A i \in 1 .. n : /\ order[i] \notin left
                         /\ \A t \in left : InOrder(a, order[i], t)
    /\ \A i, j \in 1 .. n : i < j => /\ order[i] # order[j]
                                    /\ InOrder(a, order[i], order[j])

\* It takes one that may stand before all others that are left.
LEMMA TakeNext ==
    ASSUME NEW a, NEW S, NEW order, NEW n \in Nat, NEW left,
           Taken(a, S, order, n, left),
           NEW b \in left, \A t \in left \ {b} : InOrder(a, b, t),
           NEW next, next = Append(order, b)
    PROVE  Taken(a, S, next, n + 1, left \ {b})
  <1>1. order \in Seq(S) /\ Len(order) = n /\ left \subseteq S /\ b \in S
    BY DEF Taken
  <1>2. /\ next \in Seq(S) /\ Len(next) = n + 1 /\ next[n + 1] = b
        /\ \A i \in 1 .. n : next[i] = order[i]
    BY <1>1
  <1>3. ASSUME NEW i \in 1 .. n + 1
        PROVE  /\ next[i] \notin left \ {b}
               /\ \A t \in left \ {b} : InOrder(a, next[i], t)
    <2>1. i = n + 1 \/ i \in 1 .. n
      OBVIOUS
    <2> QED
      BY <1>2, <2>1 DEF Taken
  <1>4. ASSUME NEW i \in 1 .. n + 1, NEW j \in 1 .. n + 1, i < j
        PROVE  next[i] # next[j] /\ InOrder(a, next[i], next[j])
    <2>1. i \in 1 .. n /\ (j = n + 1 \/ j \in 1 .. n)
      BY <1>4
    <2>2. CASE j = n + 1
      <3>1. next[i] = order[i] /\ next[j] = b
        BY <1>2, <2>1, <2>2
      <3> QED
        BY <2>1, <3>1 DEF Taken
    <2>3. CASE j \in 1 .. n
      <3>1. next[i] = order[i] /\ next[j] = order[j]
        BY <1>2, <2>1, <2>3
      <3> QED
        BY <1>4, <2>1, <2>3, <3>1 DEF Taken
    <2> QED
      BY <2>1, <2>2, <2>3
  <1> QED
    BY <1>1, <1>2, <1>3, <1>4 DEF Taken

\* The slots in the order in which sort() selects them: each of them once, the
\* better ones first.
LEMMA SelectedOrder ==
    ASSUME NEW a, NEW n, NEW F, IsArray(a, n, F),
           NEW l \in Nat, NEW r \in Nat, l <= r, r <= n
    PROVE  Taken(a, l .. r - 1, Selected(a, l, r), r - l, {})
  <1> DEFINE N == r - l
             slots == l .. r - 1
             A == [order : Seq(slots), left : SUBSET slots]
             turn == [was \in A |->
                         [order |-> Append(was.order, ArgMax(a, was.left)),
                          left |-> was.left \ {ArgMax(a, was.left)}]]
             step == [p \in Nat \X A |-> IF p[2].left # {} THEN turn[p[2]] ELSE p[2]]
             first == [order |-> <<>>, left |-> slots]
             after == CHOOSE f : f = [k \in 0 .. N |-> IF k = 0 THEN first
                                                       ELSE turn[f[k - 1]]]
  <1>1. /\ N \in Nat /\ first \in A /\ first.order = <<>> /\ first.left = slots
        /\ slots \subseteq Slot(n)
    BY DEF IsArray, Slot
  <1>2. Cardinality(slots) = N /\ IsFiniteSet(slots)
    <2>1. l \in Int /\ r - 1 \in Int
      OBVIOUS
    <2>2. /\ IsFiniteSet(slots)
          /\ Cardinality(slots) = IF l > r - 1 THEN 0 ELSE (r - 1) - l + 1
      BY <2>1, FS_Interval
    <2> QED
      BY <2>2
  <1> HIDE DEF N, slots, step, first, after
  <1>3. ASSUME NEW v \in A, v.left # {}
        PROVE  /\ ArgMax(a, v.left) \in v.left
               /\ \A t \in v.left : InOrder(a, ArgMax(a, v.left), t)
               /\ turn[v] \in A
               /\ turn[v].order = Append(v.order, ArgMax(a, v.left))
               /\ turn[v].left = v.left \ {ArgMax(a, v.left)}
    <2> DEFINE b == ArgMax(a, v.left)
    <2>1. v.left \subseteq Slot(n) /\ v.order \in Seq(slots) /\ v.left \subseteq slots
      BY <1>1
    <2>2. b \in v.left /\ \A t \in v.left : NotBetter(a, t, b)
      BY <1>3, <2>1, ArgMaxBest
    <2>3. \A t \in v.left : InOrder(a, b, t)
      <3> HIDE DEF b
      <3> QED
        BY <2>1, <2>2, Compared
    <2>4. turn[v] = [order |-> Append(v.order, b), left |-> v.left \ {b}]
      OBVIOUS
    <2> HIDE DEF b, turn
    <2>5. Append(v.order, b) \in Seq(slots) /\ v.left \ {b} \in SUBSET slots
      BY <2>1, <2>2
    <2> QED
      BY <2>2, <2>3, <2>4, <2>5 DEF b
  <1>4. ASSUME NEW k \in Nat, NEW v \in A
        PROVE  step[<<k, v>>] = IF v.left # {} THEN turn[v] ELSE v
    <2>1. <<k, v>> \in Nat \X A
      OBVIOUS
    <2> QED
      BY <2>1 DEF step
  <1>5. step \in [Nat \X A -> A]
    <2> SUFFICES ASSUME NEW p \in Nat \X A
                 PROVE  (IF p[2].left # {} THEN turn[p[2]] ELSE p[2]) \in A
      BY DEF step
    <2>1. p[2] \in A
      OBVIOUS
    <2> HIDE DEF turn, A
    <2> QED
      BY <1>3, <2>1
  <1> HIDE DEF A, turn
  <1>6. PICK f : Lists(f, N, A, first, step)
    BY <1>1, <1>5, Iterates
  <1>7. f \in [0 .. N -> A] /\ f[0] = first
    BY <1>6 DEF Lists
  <1>8. ASSUME NEW k \in 1 .. N
        PROVE  f[k] = IF f[k - 1].left # {} THEN turn[f[k - 1]] ELSE f[k - 1]
    <2>1. f[k] = step[<<k, f[k - 1]>>]
      BY <1>6 DEF Lists
    <2>2. f[k - 1] \in A
      BY <1>1, <1>7
    <2> QED
      BY <1>4, <2>1, <2>2
  <1>9. \A k \in 0 .. N : /\ Taken(a, slots, f[k].order, k, f[k].left)
                          /\ Cardinality(f[k].left) = N - k
    <2> DEFINE Good == {k \in Nat : k <= N =>
                           /\ Taken(a, slots, f[k].order, k, f[k].left)
                           /\ Cardinality(f[k].left) = N - k}
    <2>1. 0 \in Good
      <3>1. Taken(a, slots, <<>>, 0, slots)
        BY DEF Taken
      <3> QED
        BY <1>1, <1>2, <1>7, <3>1
    <2>2. ASSUME NEW k \in Nat, k \in Good
          PROVE  k + 1 \in Good
      <3> SUFFICES ASSUME k + 1 <= N
                   PROVE  /\ Taken(a, slots, f[k + 1].order, k + 1, f[k + 1].left)
                          /\ Cardinality(f[k + 1].left) = N - (k + 1)
        OBVIOUS
      <3> DEFINE v == f[k]
                 b == ArgMax(a, v.left)
      <3>1. /\ Taken(a, slots, v.order, k, v.left) /\ Cardinality(v.left) = N - k
            /\ k + 1 \in 1 .. N /\ (k + 1) - 1 = k /\ k \in 0 .. N
        BY <1>1, <2>2
      <3>2. v \in A /\ f[k + 1] = IF v.left # {} THEN turn[v] ELSE v
        BY <1>7, <1>8, <3>1
      <3>3. IsFiniteSet(v.left)
        BY <1>2, <3>1, FS_Subset DEF Taken
      <3>4. v.left # {}
        <4>1. N - k # 0 /\ Cardinality(v.left) = N - k
          BY <1>1, <3>1
        <4> QED
          BY <4>1, FS_EmptySet
      <3>5. /\ b \in v.left /\ \A t \in v.left : InOrder(a, b, t)
            /\ f[k + 1].order = Append(v.order, b) /\ f[k + 1].left = v.left \ {b}
        BY <1>3, <3>2, <3>4
      <3> DEFINE next == f[k + 1].order
      <3>6. next = Append(v.order, b)
        BY <3>5
      <3> HIDE DEF v, b, next
      <3>7. Taken(a, slots, next, k + 1, v.left \ {b})
        BY <3>1, <3>5, <3>6, TakeNext
      <3>8. Cardinality(v.left \ {b}) = N - (k + 1)
        <4>1. Cardinality(v.left \ {b}) = Cardinality(v.left) - 1
          BY <3>3, <3>5, FS_RemoveElement
        <4>2. (N - k) - 1 = N - (k + 1)
          BY <1>1
        <4> QED
          BY <3>1, <4>1, <4>2
      <3> QED
        BY <3>5, <3>7, <3>8 DEF next
    <2>3. Nat \subseteq Good
      <3> HIDE DEF Good
      <3> QED
        BY <2>1, <2>2, Induction
    <2> QED
      BY <1>1, <2>3
  <1> DEFINE Solution(g) == g = [k \in 0 .. N |-> IF k = 0 THEN first ELSE turn[g[k - 1]]]
  <1>10. Solution(f)
    <2>1. ASSUME NEW k \in 1 .. N
          PROVE  f[k] = turn[f[k - 1]]
      <3>1. k - 1 \in 0 .. N /\ N - (k - 1) # 0
        BY <1>1
      <3>2. f[k - 1].left # {}
        BY <1>9, <3>1, FS_EmptySet
      <3> QED
        BY <1>8, <3>2
    <2>2. ASSUME NEW k \in 0 .. N
          PROVE  f[k] = IF k = 0 THEN first ELSE turn[f[k - 1]]
      <3>1. k = 0 \/ k \in 1 .. N
        BY <1>1
      <3> QED
        BY <1>7, <2>1, <3>1
    <2>3. f = [k \in 0 .. N |-> f[k]]
      BY <1>7
    <2> QED
      BY <2>2, <2>3
  <1>11. Solution(after)
    <2>1. after = CHOOSE g : Solution(g)
      BY DEF after
    <2> HIDE DEF Solution
    <2> QED
      BY <1>10, <2>1
  <1>12. \A k \in 0 .. N : f[k] = after[k]
    <2>1. f[0] = after[0]
      BY <1>1, <1>7, <1>11
    <2>2. ASSUME NEW k \in 1 .. N, f[k - 1] = after[k - 1]
          PROVE  f[k] = after[k]
      <3>1. k \in 0 .. N /\ k # 0
        BY <1>1
      <3>2. f[k] = turn[f[k - 1]]
        BY <1>10, <3>1
      <3>3. after[k] = turn[after[k - 1]]
        <4> HIDE DEF turn
        <4> QED
          BY <1>11, <3>1
      <3> QED
        BY <2>2, <3>2, <3>3
    <2>3. N \in Nat /\ RunsAlike(f, after, N)
      BY <1>1, <2>1, <2>2 DEF RunsAlike
    <2> QED
      BY <2>3, SameIteration
  <1>13. Selected(a, l, r) = after[r - l].order
    BY DEF Selected, after, turn, A, first, slots, N
  <1>14. Selected(a, l, r) = f[N].order /\ N \in 0 .. N
    BY <1>1, <1>12, <1>13 DEF N
  <1>15. Taken(a, slots, Selected(a, l, r), N, f[N].left) /\ Cardinality(f[N].left) = 0
    BY <1>1, <1>9, <1>14
  <1>16. f[N].left = {}
    <2>1. IsFiniteSet(f[N].left)
      BY <1>2, <1>15, FS_Subset DEF Taken
    <2> QED
      BY <1>15, <2>1, FS_EmptySet
  <1> QED
    BY <1>15, <1>16 DEF slots, N
-----------------------------------------------------------------------------
(* The merge.                                                               *)

\* The slots l .. r - 1 are in order.
Sorted(a, l, r) == \A i, j \in l .. r - 1 : i < j => InOrder(a, i, j)

\* What the loop has not taken from either part.
Rest(p, q, mid, r) == (p .. mid - 1) \cup (q .. r - 1)

\* The slot that the loop takes, and where it goes on.
TakenSlot(a, p, q, mid, r) == IF TakeLeft(a, p, q, mid, r) THEN p ELSE q

\* Slot b may be taken next.
MayTake(a, p, q, mid, r, b) ==
    /\ b \in Rest(p, q, mid, r)
    /\ \A t \in Rest(p, q, mid, r) \ {b} : InOrder(a, b, t)
    /\ TakeLeft(a, p, q, mid, r)
           => p # mid /\ Rest(p, q, mid, r) \ {b} = Rest(p + 1, q, mid, r)
    /\ ~TakeLeft(a, p, q, mid, r)
           => q # r /\ Rest(p, q, mid, r) \ {b} = Rest(p, q + 1, mid, r)

\* It may stand before all others of both parts.
LEMMA TakenFirst ==
    ASSUME NEW a, NEW n, NEW F, IsArray(a, n, F),
           NEW l \in Nat, NEW mid \in Nat, NEW r \in Nat,
           l <= mid, mid <= r, r <= n, Sorted(a, l, mid), Sorted(a, mid, r),
           NEW p \in l .. mid, NEW q \in mid .. r, p # mid \/ q # r
    PROVE  MayTake(a, p, q, mid, r, TakenSlot(a, p, q, mid, r))
  <1> USE DEF MayTake
  <1>1. /\ p \in Int /\ q \in Int /\ n \in Nat
        /\ l <= p /\ p <= mid /\ mid <= q /\ q <= r
    BY DEF IsArray
  <1>2. Rest(p, q, mid, r) \subseteq Slot(n)
    BY <1>1 DEF Rest, Slot
  <1>3. \A t \in p .. mid - 1 : t # p => InOrder(a, p, t)
    BY <1>1 DEF Sorted
  <1>4. \A t \in q .. r - 1 : t # q => InOrder(a, q, t)
    BY <1>1 DEF Sorted
  <1>5. CASE TakeLeft(a, p, q, mid, r)
    <2>1. p # mid /\ p \in p .. mid - 1
      BY <1>1, <1>5 DEF TakeLeft
    <2>2. CASE q = r
      <3>1. Rest(p, q, mid, r) = p .. mid - 1
        BY <1>1, <2>2 DEF Rest
      <3>2. (p .. mid - 1) \ {p} = p + 1 .. mid - 1
        BY <1>1
      <3>3. Rest(p + 1, q, mid, r) = p + 1 .. mid - 1
        BY <1>1, <2>2 DEF Rest
      <3> QED
        BY <1>3, <1>5, <2>1, <3>1, <3>2, <3>3 DEF TakenSlot
    <2>3. CASE q # r
      <3>1. InOrder(a, p, q) /\ q \in q .. r - 1
        <4>1. /\ p \in Slot(n) /\ q \in Slot(n)
          BY <1>1, <2>1, <2>3 DEF Slot
        <4>2. /\ a.sc[p] \in Int /\ a.sc[q] \in Int
              /\ Title[a.mv[p].film] \in Int /\ Title[a.mv[q].film] \in Int
          BY <4>1, SlotValues
        <4>3. \/ a.sc[p] > a.sc[q]
              \/ a.sc[p] = a.sc[q] /\ StrLess(a.mv[p], a.mv[q])
          BY <1>5, <2>3 DEF TakeLeft
        <4> QED
          BY <1>1, <2>3, <4>2, <4>3 DEF InOrder, StrLess
      <3>2. \A t \in q .. r - 1 : InOrder(a, p, t)
        <4> SUFFICES ASSUME NEW t \in q .. r - 1, t # q PROVE InOrder(a, p, t)
          BY <3>1
        <4>1. InOrder(a, q, t)
          BY <1>4
        <4>2. p \in Slot(n) /\ q \in Slot(n) /\ t \in Slot(n)
          BY <1>1, <2>1, <2>3 DEF Slot
        <4> QED
          BY <3>1, <4>1, <4>2, Ordered
      <3>3. \A t \in Rest(p, q, mid, r) \ {p} : InOrder(a, p, t)
        BY <1>3, <3>2 DEF Rest
      <3>4. Rest(p, q, mid, r) \ {p} = Rest(p + 1, q, mid, r)
        BY <1>1, <2>1 DEF Rest
      <3>5. p \in Rest(p, q, mid, r)
        BY <2>1 DEF Rest
      <3> QED
        BY <1>5, <2>1, <3>3, <3>4, <3>5 DEF TakenSlot
    <2> QED
      BY <2>2, <2>3
  <1>6. CASE ~TakeLeft(a, p, q, mid, r)
    <2>1. q # r /\ q \in q .. r - 1
      BY <1>1, <1>6 DEF TakeLeft
    <2>2. \A t \in p .. mid - 1 : InOrder(a, q, t)
      <3> SUFFICES ASSUME NEW t \in p .. mid - 1 PROVE InOrder(a, q, t)
        OBVIOUS
      <3>1. p # mid /\ p \in p .. mid - 1
        BY <1>1
      <3>2. p \in Slot(n) /\ q \in Slot(n) /\ t \in Slot(n)
        BY <1>1, <2>1 DEF Slot
      <3>3. InOrder(a, q, p)
        <4>1. /\ a.sc[p] \in Int /\ a.sc[q] \in Int
              /\ Title[a.mv[p].film] \in Int /\ Title[a.mv[q].film] \in Int
          BY <3>2, SlotValues
        <4>2. /\ ~(a.sc[p] > a.sc[q])
              /\ ~(a.sc[p] = a.sc[q] /\ StrLess(a.mv[p], a.mv[q]))
          BY <1>6, <3>1 DEF TakeLeft
        <4> QED
          BY <4>1, <4>2 DEF InOrder, StrLess
      <3>4. InOrder(a, p, t)
        BY <1>3, <3>2, Ordered
      <3> QED
        BY <3>2, <3>3, <3>4, Ordered
    <2>3. \A t \in Rest(p, q, mid, r) \ {q} : InOrder(a, q, t)
      BY <1>4, <2>2 DEF Rest
    <2>4. Rest(p, q, mid, r) \ {q} = Rest(p, q + 1, mid, r)
      BY <1>1, <2>1 DEF Rest
    <2>5. q \in Rest(p, q, mid, r)
      BY <2>1 DEF Rest
    <2> QED
      BY <1>6, <2>1, <2>3, <2>4, <2>5 DEF TakenSlot
  <1> QED
    BY <1>5, <1>6
\* The slots in the order in which the merge of two sorted parts takes them:
\* each of them once, the better ones first.
LEMMA MergedOrder ==
    ASSUME NEW a, NEW n, NEW F, IsArray(a, n, F),
           NEW l \in Nat, NEW mid \in Nat, NEW r \in Nat,
           l <= mid, mid <= r, r <= n, Sorted(a, l, mid), Sorted(a, mid, r)
    PROVE  Taken(a, l .. r - 1, Merged(a, l, mid, r), r - l, {})
  <1> DEFINE N == r - l
             slots == l .. r - 1
             B == [order : Seq(slots), lptr : l .. mid, rptr : mid .. r]
             turn == [was \in B |->
                         IF TakeLeft(a, was.lptr, was.rptr, mid, r)
                         THEN [was EXCEPT !.order = Append(@, was.lptr), !.lptr = @ + 1]
                         ELSE [was EXCEPT !.order = Append(@, was.rptr), !.rptr = @ + 1]]
             ended(v) == v.lptr = mid /\ v.rptr = r
             step == [x \in Nat \X B |-> IF ended(x[2]) THEN x[2] ELSE turn[x[2]]]
             first == [order |-> <<>>, lptr |-> l, rptr |-> mid]
             after == CHOOSE f : f = [k \in 0 .. N |-> IF k = 0 THEN first
                                                       ELSE turn[f[k - 1]]]
             left(v) == Rest(v.lptr, v.rptr, mid, r)
  <1>1. /\ N \in Nat /\ first \in B /\ first.order = <<>>
        /\ first.lptr = l /\ first.rptr = mid
    OBVIOUS
  <1> HIDE DEF N, first, after
  <1>2. ASSUME NEW v \in B, ~ended(v), NEW b, b = TakenSlot(a, v.lptr, v.rptr, mid, r)
        PROVE  /\ turn[v] \in B /\ turn[v].order = Append(v.order, b)
               /\ turn[v].lptr + turn[v].rptr = v.lptr + v.rptr + 1
               /\ b \in left(v) /\ left(turn[v]) = left(v) \ {b}
               /\ \A t \in left(v) \ {b} : InOrder(a, b, t)
    <2> DEFINE p == v.lptr
               q == v.rptr
    <2>1. /\ p \in l .. mid /\ q \in mid .. r /\ v.order \in Seq(slots)
          /\ p # mid \/ q # r
      BY <1>2
    <2>2. /\ b \in Rest(p, q, mid, r)
          /\ \A t \in Rest(p, q, mid, r) \ {b} : InOrder(a, b, t)
          /\ TakeLeft(a, p, q, mid, r)
                 => p # mid /\ Rest(p, q, mid, r) \ {b} = Rest(p + 1, q, mid, r)
          /\ ~TakeLeft(a, p, q, mid, r)
                 => q # r /\ Rest(p, q, mid, r) \ {b} = Rest(p, q + 1, mid, r)
      <3> HIDE DEF p, q
      <3>1. b = TakenSlot(a, p, q, mid, r)
        BY <1>2 DEF p, q
      <3>2. MayTake(a, p, q, mid, r, TakenSlot(a, p, q, mid, r))
        BY <2>1, TakenFirst
      <3> QED
        BY <3>1, <3>2 DEF MayTake
    <2>3. b \in slots
      BY <2>1, <2>2 DEF Rest
    <2>4. Append(v.order, b) \in Seq(slots)
      BY <2>1, <2>3
    <2>5. CASE TakeLeft(a, p, q, mid, r)
      <3>1. turn[v] = [v EXCEPT !.order = Append(v.order, p), !.lptr = p + 1]
        BY <2>5
      <3>2. b = p
        BY <1>2, <2>5 DEF TakenSlot
      <3>3. /\ turn[v].order = Append(v.order, b) /\ turn[v].lptr = p + 1
            /\ turn[v].rptr = q
        BY <3>1, <3>2
      <3>4. p + 1 \in l .. mid
        BY <2>1, <2>2, <2>5
      <3>5. turn[v] \in B
        BY <2>1, <2>4, <3>1, <3>2, <3>4
      <3>6. turn[v].lptr + turn[v].rptr = p + q + 1
        BY <2>1, <3>3
      <3>7. left(turn[v]) = Rest(p, q, mid, r) \ {b}
        BY <2>2, <2>5, <3>3
      <3> HIDE DEF turn
      <3> QED
        BY <2>2, <3>3, <3>5, <3>6, <3>7
    <2>6. CASE ~TakeLeft(a, p, q, mid, r)
      <3>1. turn[v] = [v EXCEPT !.order = Append(v.order, q), !.rptr = q + 1]
        BY <2>6
      <3>2. b = q
        BY <1>2, <2>6 DEF TakenSlot
      <3>3. /\ turn[v].order = Append(v.order, b) /\ turn[v].lptr = p
            /\ turn[v].rptr = q + 1
        BY <3>1, <3>2
      <3>4. q + 1 \in mid .. r
        BY <2>1, <2>2, <2>6
      <3>5. turn[v] \in B
        BY <2>1, <2>4, <3>1, <3>2, <3>4
      <3>6. turn[v].lptr + turn[v].rptr = p + q + 1
        BY <2>1, <3>3
      <3>7. left(turn[v]) = Rest(p, q, mid, r) \ {b}
        BY <2>2, <2>6, <3>3
      <3> HIDE DEF turn
      <3> QED
        BY <2>2, <3>3, <3>5, <3>6, <3>7
    <2> QED
      BY <2>5, <2>6
  <1>3. ASSUME NEW k \in Nat, NEW v \in B
        PROVE  step[<<k, v>>] = IF ended(v) THEN v ELSE turn[v]
    <2>1. <<k, v>> \in Nat \X B
      OBVIOUS
    <2> HIDE DEF turn
    <2> QED
      BY <2>1 DEF step
  <1>4. step \in [Nat \X B -> B]
    <2> SUFFICES ASSUME NEW x \in Nat \X B
                 PROVE  (IF ended(x[2]) THEN x[2] ELSE turn[x[2]]) \in B
      BY DEF step
    <2>1. x[2] \in B
      OBVIOUS
    <2> HIDE DEF turn, B
    <2> QED
      BY <1>2, <2>1
  <1> HIDE DEF step, turn, B
  <1>5. PICK f : Lists(f, N, B, first, step)
    BY <1>1, <1>4, Iterates
  <1>6. f \in [0 .. N -> B] /\ f[0] = first
    BY <1>5 DEF Lists
  <1>7. ASSUME NEW k \in 1 .. N
        PROVE  f[k] = IF ended(f[k - 1]) THEN f[k - 1] ELSE turn[f[k - 1]]
    <2>1. f[k] = step[<<k, f[k - 1]>>]
      BY <1>5 DEF Lists
    <2>2. f[k - 1] \in B
      BY <1>1, <1>6
    <2> QED
      BY <1>3, <2>1, <2>2
  <1>8. ASSUME NEW v \in B, NEW k \in Nat, v.lptr + v.rptr = l + mid + k
        PROVE  ended(v) <=> k = N
    <2>1. v.lptr \in l .. mid /\ v.rptr \in mid .. r
      BY DEF B
    <2> QED
      BY <1>8, <2>1 DEF N
  <1>9. \A k \in 0 .. N : /\ Taken(a, slots, f[k].order, k, left(f[k]))
                          /\ f[k].lptr + f[k].rptr = l + mid + k
    <2> DEFINE Good == {k \in Nat : k <= N =>
                           /\ Taken(a, slots, f[k].order, k, left(f[k]))
                           /\ f[k].lptr + f[k].rptr = l + mid + k}
    <2>1. 0 \in Good
      <3>1. left(first) \subseteq slots
        BY <1>1 DEF Rest
      <3>2. Taken(a, slots, <<>>, 0, left(first))
        BY <3>1 DEF Taken
      <3> QED
        BY <1>1, <1>6, <3>2
    <2>2. ASSUME NEW k \in Nat, k \in Good
          PROVE  k + 1 \in Good
      <3> SUFFICES ASSUME k + 1 <= N
                   PROVE  /\ Taken(a, slots, f[k + 1].order, k + 1, left(f[k + 1]))
                          /\ f[k + 1].lptr + f[k + 1].rptr = l + mid + (k + 1)
        OBVIOUS
      <3> DEFINE v == f[k]
                 next == f[k + 1].order
      <3>1. /\ Taken(a, slots, v.order, k, left(v))
            /\ v.lptr + v.rptr = l + mid + k
            /\ k + 1 \in 1 .. N /\ (k + 1) - 1 = k /\ k \in 0 .. N /\ k # N
        BY <1>1, <2>2
      <3>2. v \in B /\ f[k + 1] = IF ended(v) THEN v ELSE turn[v]
        BY <1>6, <1>7, <3>1
      <3> HIDE DEF v
      <3>3. ~ended(v)
        BY <1>8, <3>1, <3>2
      <3>4. PICK b : b = TakenSlot(a, v.lptr, v.rptr, mid, r)
        OBVIOUS
      <3>5. f[k + 1] = turn[v]
        BY <3>2, <3>3
      <3>6. /\ next = Append(v.order, b)
            /\ f[k + 1].lptr + f[k + 1].rptr = v.lptr + v.rptr + 1
            /\ b \in left(v) /\ left(f[k + 1]) = left(v) \ {b}
            /\ \A t \in left(v) \ {b} : InOrder(a, b, t)
        BY <1>2, <3>2, <3>3, <3>4, <3>5
      <3> DEFINE had == left(v)
                 has == left(f[k + 1])
      <3>7. /\ Taken(a, slots, v.order, k, had) /\ b \in had /\ has = had \ {b}
            /\ \A t \in had \ {b} : InOrder(a, b, t)
        BY <3>1, <3>6
      <3> HIDE DEF had, has, next
      <3>8. Taken(a, slots, next, k + 1, has)
        BY <3>6, <3>7, TakeNext
      <3> QED
        BY <3>1, <3>6, <3>8 DEF next, has
    <2>3. Nat \subseteq Good
      <3> HIDE DEF Good
      <3> QED
        BY <2>1, <2>2, Induction
    <2> QED
      BY <1>1, <2>3
  <1> DEFINE Solution(g) == g = [k \in 0 .. N |-> IF k = 0 THEN first ELSE turn[g[k - 1]]]
  <1>10. Solution(f)
    <2>1. ASSUME NEW k \in 1 .. N
          PROVE  f[k] = turn[f[k - 1]]
      <3>1. k - 1 \in 0 .. N /\ k - 1 \in Nat /\ k - 1 # N
        BY <1>1
      <3>2. f[k - 1] \in B /\ f[k - 1].lptr + f[k - 1].rptr = l + mid + (k - 1)
        BY <1>6, <1>9, <3>1
      <3>3. ~ended(f[k - 1])
        BY <1>8, <3>1, <3>2
      <3> QED
        BY <1>7, <3>3
    <2>2. ASSUME NEW k \in 0 .. N
          PROVE  f[k] = IF k = 0 THEN first ELSE turn[f[k - 1]]
      <3>1. k = 0 \/ k \in 1 .. N
        BY <1>1
      <3> QED
        BY <1>6, <2>1, <3>1
    <2>3. f = [k \in 0 .. N |-> f[k]]
      BY <1>6
    <2> QED
      BY <2>2, <2>3
  <1>11. Solution(after)
    <2>1. after = CHOOSE g : Solution(g)
      BY DEF after
    <2> HIDE DEF Solution
    <2> QED
      BY <1>10, <2>1
  <1>12. \A k \in 0 .. N : f[k] = after[k]
    <2>1. f[0] = after[0]
      BY <1>1, <1>6, <1>11
    <2>2. ASSUME NEW k \in 1 .. N, f[k - 1] = after[k - 1]
          PROVE  f[k] = after[k]
      <3>1. k \in 0 .. N /\ k # 0
        BY <1>1
      <3>2. f[k] = turn[f[k - 1]]
        BY <1>10, <3>1
      <3>3. after[k] = turn[after[k - 1]]
        <4> HIDE DEF turn
        <4> QED
          BY <1>11, <3>1
      <3> QED
        BY <2>2, <3>2, <3>3
    <2>3. N \in Nat /\ RunsAlike(f, after, N)
      BY <1>1, <2>1, <2>2 DEF RunsAlike
    <2> HIDE DEF Solution, ended, left
    <2> QED
      BY <2>3, SameIteration
  <1>13. Merged(a, l, mid, r) = after[r - l].order
    BY DEF Merged, after, turn, B, first, N
  <1>14. Merged(a, l, mid, r) = f[N].order /\ N \in 0 .. N
    BY <1>1, <1>12, <1>13 DEF N
  <1>15. f[N] \in B /\ ended(f[N])
    BY <1>1, <1>6, <1>8, <1>9, <1>14
  <1>16. left(f[N]) = {}
    BY <1>15 DEF Rest
  <1>17. Taken(a, slots, f[N].order, N, left(f[N]))
    BY <1>9, <1>14
  <1> QED
    BY <1>14, <1>16, <1>17 DEF N
-----------------------------------------------------------------------------
(* The arrays afterwards.                                                   *)

\* Slot k holds what slot f[k] held: nothing is lost, what is outside of
\* l .. r - 1 stays where it was, and what is inside is in order.
Shuffles(f, a, n, l, r) ==
    /\ f \in [Slot(n) -> Slot(n)]
    /\ \A i, j \in Slot(n) : f[i] = f[j] => i = j
    /\ \A k \in l .. r - 1 : f[k] \in l .. r - 1
    /\ \A k \in Slot(n) : k \notin l .. r - 1 => f[k] = k
    /\ \A i, j \in l .. r - 1 : i < j => InOrder(a, f[i], f[j])

\* The place that the order of a loop gives to every slot.
Places(order, n, l, r) ==
    [k \in Slot(n) |-> IF k \in l .. r - 1 THEN order[k - l + 1] ELSE k]

\* Array x after its n slots have been shuffled.
Shuffled(x, f, n) == [k \in Slot(n) |-> x[f[k]]]

\* To move the slots into this order is to shuffle them by f.
MovesAs(order, f, n, l) ==
    \A x : DOMAIN x = Slot(n) => Moved(x, l, order) = Shuffled(x, f, n)

\* Slots that are taken once, in order, are shuffled so.
LEMMA TakenShuffles ==
    ASSUME NEW a, NEW n \in Nat, NEW l \in Nat, NEW r \in Nat, l <= r, r <= n,
           NEW order, NEW S, S = l .. r - 1, Taken(a, S, order, r - l, {}),
           NEW f, f = Places(order, n, l, r)
    PROVE  Shuffles(f, a, n, l, r) /\ MovesAs(order, f, n, l)
  <1>1. order \in Seq(S) /\ Len(order) = r - l
    BY DEF Taken
  <1>2. S \subseteq Slot(n)
    BY DEF Slot
  <1>3. \A k \in S : /\ k - l + 1 \in 1 .. r - l
                     /\ f[k] = order[k - l + 1] /\ f[k] \in S
    <2> SUFFICES ASSUME NEW k \in S
                 PROVE  /\ k - l + 1 \in 1 .. r - l
                        /\ f[k] = order[k - l + 1] /\ f[k] \in S
      OBVIOUS
    <2>1. k - l + 1 \in 1 .. r - l
      OBVIOUS
    <2>2. f[k] = order[k - l + 1]
      BY <1>2 DEF Places
    <2>3. order[k - l + 1] \in S
      BY <1>1, <2>1
    <2> QED
      BY <2>1, <2>2, <2>3
  <1>4. \A k \in Slot(n) : k \notin S => f[k] = k
    BY DEF Places
  <1>5. f \in [Slot(n) -> Slot(n)]
    <2>1. \A k \in Slot(n) : f[k] \in Slot(n)
      BY <1>2, <1>3, <1>4
    <2>2. f = [k \in Slot(n) |-> f[k]]
      BY DEF Places
    <2> QED
      BY <2>1, <2>2
  <1>6. ASSUME NEW i \in S, NEW j \in S, i < j
        PROVE  f[i] # f[j] /\ InOrder(a, f[i], f[j])
    <2>1. PICK u, v : u = i - l + 1 /\ v = j - l + 1
      OBVIOUS
    <2>2. u \in 1 .. r - l /\ v \in 1 .. r - l /\ f[i] = order[u] /\ f[j] = order[v]
      BY <1>3, <2>1
    <2>3. u < v
      BY <1>6, <2>1
    <2> QED
      BY <2>2, <2>3 DEF Taken
  <1>7. ASSUME NEW i \in Slot(n), NEW j \in Slot(n), f[i] = f[j]
        PROVE  i = j
    <2>1. i \in Int /\ j \in Int
      BY DEF Slot
    <2>2. CASE i \in S /\ j \in S
      <3>1. ~(i < j) /\ ~(j < i)
        BY <1>6, <1>7, <2>2
      <3> QED
        BY <2>1, <3>1
    <2>3. CASE i \notin S \/ j \notin S
      BY <1>3, <1>4, <1>7, <2>3
    <2> QED
      BY <2>2, <2>3
  <1>8. Shuffles(f, a, n, l, r)
    BY <1>3, <1>4, <1>5, <1>6, <1>7 DEF Shuffles
  <1>9. ASSUME NEW x, DOMAIN x = Slot(n)
        PROVE  Moved(x, l, order) = Shuffled(x, f, n)
    <2>1. l + Len(order) - 1 = r - 1
      BY <1>1
    <2>2. Moved(x, l, order) =
              [k \in Slot(n) |-> IF k \in S THEN x[order[k - l + 1]] ELSE x[k]]
      BY <1>9, <2>1 DEF Moved
    <2>3. \A k \in Slot(n) :
              (IF k \in S THEN x[order[k - l + 1]] ELSE x[k]) = x[f[k]]
      BY <1>3, <1>4
    <2> QED
      BY <2>2, <2>3 DEF Shuffled
  <1> QED
    BY <1>8, <1>9 DEF MovesAs

\* The arrays hold movies of match with their scores, each of them once.
Holds(a, n, F, match, score) ==
    /\ IsArray(a, n, F)
    /\ \A k \in Slot(n) : /\ a.mv[k].film \in match
                          /\ a.sc[k] = score[a.mv[k].film]
                          /\ a.mv[k].secret \in 0 .. 1
    /\ \A i, j \in Slot(n) : a.mv[i].film = a.mv[j].film => i = j

\* No slot of l .. r - 1 has been sorted; all of them have.
Fresh(a, l, r) == \A k \in l .. r - 1 : a.mv[k].secret = 0
Ready(a, l, r) == Sorted(a, l, r) /\ \A k \in l .. r - 1 : a.mv[k].secret = 1

\* Outside of l .. r - 1 arrays b are as a.
Keeps(b, a, n, l, r) ==
    \A k \in Slot(n) : k \notin l .. r - 1 => b.mv[k] = a.mv[k] /\ b.sc[k] = a.sc[k]

\* Arrays b are a with the slots shuffled; secrets may be new in l .. r - 1.
Reorders(b, a, f, n, l, r, F) ==
    /\ b.sc = Shuffled(a.sc, f, n)
    /\ b.mv \in [Slot(n) -> Strings(F)]
    /\ \A k \in Slot(n) : /\ b.mv[k].film = a.mv[f[k]].film
                          /\ b.mv[k].secret \in 0 .. 1
    /\ \A k \in Slot(n) : k \notin l .. r - 1 => b.mv[k] = a.mv[f[k]]

\* Arrays whose slots have been shuffled.
LEMMA ShuffledHolds ==
    ASSUME NEW a, NEW b, NEW n, NEW F, NEW match, NEW score,
           Holds(a, n, F, match, score),
           NEW l \in Nat, NEW r \in Nat, r <= n, NEW f, Shuffles(f, a, n, l, r),
           Reorders(b, a, f, n, l, r, F)
    PROVE  Holds(b, n, F, match, score) /\ Sorted(b, l, r) /\ Keeps(b, a, n, l, r)
  <1> USE DEF Reorders
  <1>1. f \in [Slot(n) -> Slot(n)] /\ n \in Nat /\ Title \in [F -> Nat]
    BY DEF Shuffles, Holds, IsArray
  <1>2. a.sc \in [Slot(n) -> Nat]
    BY DEF Holds, IsArray
  <1>3. \A k \in Slot(n) : b.sc[k] = a.sc[f[k]]
    BY DEF Shuffled
  <1>4. b.sc \in [Slot(n) -> Nat]
    BY <1>1, <1>2 DEF Shuffled
  <1>5. IsArray(b, n, F)
    BY <1>1, <1>4 DEF IsArray
  <1>6. \A k \in Slot(n) : b.mv[k].film \in match /\ b.sc[k] = score[b.mv[k].film]
    BY <1>1, <1>3 DEF Holds
  <1>7. \A i, j \in Slot(n) : b.mv[i].film = b.mv[j].film => i = j
    BY <1>1 DEF Holds, Shuffles
  <1>8. Sorted(b, l, r)
    <2> SUFFICES ASSUME NEW i \in l .. r - 1, NEW j \in l .. r - 1, i < j
                 PROVE  InOrder(b, i, j)
      BY DEF Sorted
    <2>1. i \in Slot(n) /\ j \in Slot(n)
      BY <1>1 DEF Slot
    <2>2. InOrder(a, f[i], f[j])
      BY DEF Shuffles
    <2> QED
      BY <1>3, <2>1, <2>2 DEF InOrder
  <1>9. Keeps(b, a, n, l, r)
    BY <1>3 DEF Keeps, Shuffles
  <1> QED
    BY <1>5, <1>6, <1>7, <1>8, <1>9 DEF Holds

\* sort() puts fresh slots in order and loses nothing.
LEMMA SortDoes ==
    ASSUME NEW a, NEW b, NEW n, NEW F, NEW match, NEW score,
           Holds(a, n, F, match, score), NEW l \in Nat, NEW r \in Nat, l <= r, r <= n,
           Fresh(a, l, r), b = Sort(a, l, r)
    PROVE  Holds(b, n, F, match, score) /\ Ready(b, l, r) /\ Keeps(b, a, n, l, r)
  <1> DEFINE order == Selected(a, l, r)
             f == Places(order, n, l, r)
             S == l .. r - 1
  <1>1. /\ n \in Nat /\ IsArray(a, n, F)
        /\ a.mv \in [Slot(n) -> Strings(F)] /\ a.sc \in [Slot(n) -> Nat]
    BY DEF Holds, IsArray
  <1>2. Taken(a, S, order, r - l, {})
    BY <1>1, SelectedOrder
  <1> HIDE DEF order
  <1>3. /\ Shuffles(f, a, n, l, r)
        /\ Moved(a.mv, l, order) = Shuffled(a.mv, f, n)
        /\ Moved(a.sc, l, order) = Shuffled(a.sc, f, n)
    <2>1. n \in Nat /\ f = Places(order, n, l, r) /\ S = l .. r - 1
      BY <1>1
    <2>2. DOMAIN a.mv = Slot(n) /\ DOMAIN a.sc = Slot(n)
      BY <1>1
    <2>3. l <= r
      OBVIOUS
    <2> HIDE DEF f, S
    <2>4. Shuffles(f, a, n, l, r) /\ MovesAs(order, f, n, l)
      BY <1>2, <2>1, <2>3, TakenShuffles
    <2> QED
      BY <2>2, <2>4 DEF MovesAs
  <1> HIDE DEF f
  <1> DEFINE g == Shuffled(a.mv, f, n)
  <1>4. /\ b.sc = Shuffled(a.sc, f, n)
        /\ b.mv = [k \in Slot(n) |-> IF k \in S THEN AddSecret(g[k]) ELSE g[k]]
    <2>1. DOMAIN a.mv = Slot(n)
      BY <1>1
    <2> QED
      BY <1>3, <2>1 DEF Sort, order
  <1>5. \A k \in Slot(n) : f[k] \in Slot(n) /\ g[k] = a.mv[f[k]] /\ g[k] \in Strings(F)
    BY <1>1, <1>3 DEF Shuffles, Shuffled
  <1> HIDE DEF g
  <1>6. S \subseteq Slot(n)
    BY <1>1 DEF Slot
  <1>7. ASSUME NEW k \in S
        PROVE  /\ b.mv[k] \in Strings(F) /\ b.mv[k].film = a.mv[f[k]].film
               /\ b.mv[k].secret = 1
    <2>1. k \in Slot(n) /\ g[k] \in Strings(F) /\ b.mv[k] = AddSecret(g[k])
      BY <1>4, <1>5, <1>6
    <2>2. g[k].film = a.mv[f[k]].film /\ g[k].secret = 0
      <3>1. f[k] \in S
        BY <1>3 DEF Shuffles
      <3> QED
        BY <1>5, <2>1, <3>1 DEF Fresh
    <2> QED
      BY <2>1, <2>2 DEF AddSecret, Strings
  <1>8. ASSUME NEW k \in Slot(n), k \notin S
        PROVE  b.mv[k] = a.mv[f[k]] /\ b.mv[k] \in Strings(F)
    BY <1>4, <1>5, <1>8
  <1>9. b.mv \in [Slot(n) -> Strings(F)]
    BY <1>4, <1>7, <1>8
  <1>10. ASSUME NEW k \in Slot(n)
         PROVE  b.mv[k].film = a.mv[f[k]].film /\ b.mv[k].secret \in 0 .. 1
    BY <1>5, <1>7, <1>8 DEF Holds
  <1>11. Holds(b, n, F, match, score) /\ Sorted(b, l, r) /\ Keeps(b, a, n, l, r)
    <2>1. Reorders(b, a, f, n, l, r, F)
      BY <1>4, <1>8, <1>9, <1>10 DEF Reorders
    <2> QED
      BY <1>3, <2>1, ShuffledHolds
  <1> QED
    BY <1>7, <1>11 DEF Ready

\* So does the merge of two sorted parts.
LEMMA MergeDoes ==
    ASSUME NEW a, NEW b, NEW n, NEW F, NEW match, NEW score,
           Holds(a, n, F, match, score),
           NEW l \in Nat, NEW mid \in Nat, NEW r \in Nat, l <= mid, mid <= r, r <= n,
           Ready(a, l, mid), Ready(a, mid, r), b = Merge(a, l, mid, r)
    PROVE  Holds(b, n, F, match, score) /\ Ready(b, l, r) /\ Keeps(b, a, n, l, r)
  <1> DEFINE order == Merged(a, l, mid, r)
             f == Places(order, n, l, r)
             S == l .. r - 1
  <1>1. /\ n \in Nat /\ IsArray(a, n, F) /\ Sorted(a, l, mid) /\ Sorted(a, mid, r)
        /\ a.mv \in [Slot(n) -> Strings(F)] /\ a.sc \in [Slot(n) -> Nat]
    BY DEF Holds, IsArray, Ready
  <1>2. Taken(a, S, order, r - l, {})
    BY <1>1, MergedOrder
  <1> HIDE DEF order
  <1>3. /\ Shuffles(f, a, n, l, r)
        /\ Moved(a.mv, l, order) = Shuffled(a.mv, f, n)
        /\ Moved(a.sc, l, order) = Shuffled(a.sc, f, n)
    <2>1. n \in Nat /\ f = Places(order, n, l, r) /\ S = l .. r - 1
      BY <1>1
    <2>2. DOMAIN a.mv = Slot(n) /\ DOMAIN a.sc = Slot(n)
      BY <1>1
    <2>3. l <= r
      OBVIOUS
    <2> HIDE DEF f, S
    <2>4. Shuffles(f, a, n, l, r) /\ MovesAs(order, f, n, l)
      BY <1>2, <2>1, <2>3, TakenShuffles
    <2> QED
      BY <2>2, <2>4 DEF MovesAs
  <1> HIDE DEF f
  <1>4. b.sc = Shuffled(a.sc, f, n) /\ b.mv = Shuffled(a.mv, f, n)
    BY <1>3 DEF Merge, order
  <1>5. \A k \in Slot(n) : f[k] \in Slot(n)
    BY <1>3 DEF Shuffles
  <1>6. b.mv \in [Slot(n) -> Strings(F)]
    BY <1>1, <1>4, <1>5 DEF Shuffled
  <1>7. ASSUME NEW k \in Slot(n)
        PROVE  /\ b.mv[k] = a.mv[f[k]]
               /\ b.mv[k].film = a.mv[f[k]].film /\ b.mv[k].secret \in 0 .. 1
    BY <1>4, <1>5 DEF Holds, Shuffled
  <1>8. Holds(b, n, F, match, score) /\ Sorted(b, l, r) /\ Keeps(b, a, n, l, r)
    <2>1. Reorders(b, a, f, n, l, r, F)
      BY <1>4, <1>6, <1>7 DEF Reorders
    <2> QED
      BY <1>3, <2>1, ShuffledHolds
  <1>9. ASSUME NEW k \in S
        PROVE  b.mv[k].secret = 1
    <2>1. k \in Slot(n)
      BY <1>1 DEF Slot
    <2>2. f[k] \in S
      BY <1>3 DEF Shuffles
    <2>3. f[k] \in l .. mid - 1 \/ f[k] \in mid .. r - 1
      BY <2>2
    <2> QED
      BY <1>7, <2>1, <2>3 DEF Ready
  <1> QED
    BY <1>8, <1>9 DEF Ready

\* What is done elsewhere in the arrays does not change a part.
LEMMA KeptPart ==
    ASSUME NEW a, NEW b, NEW n \in Nat, NEW l \in Nat, NEW r \in Nat, Keeps(b, a, n, l, r),
           NEW u \in Nat, NEW v \in Nat, v <= n, v <= l \/ r <= u
    PROVE  (Fresh(a, u, v) => Fresh(b, u, v)) /\ (Ready(a, u, v) => Ready(b, u, v))
  <1>1. \A k \in u .. v - 1 : b.mv[k] = a.mv[k] /\ b.sc[k] = a.sc[k]
    <2> SUFFICES ASSUME NEW k \in u .. v - 1
                 PROVE  b.mv[k] = a.mv[k] /\ b.sc[k] = a.sc[k]
      OBVIOUS
    <2>1. k \in Slot(n) /\ k \notin l .. r - 1
      BY DEF Slot
    <2> QED
      BY <2>1 DEF Keeps
  <1>2. Fresh(a, u, v) => Fresh(b, u, v)
    BY <1>1 DEF Fresh
  <1>3. Ready(a, u, v) => Ready(b, u, v)
    BY <1>1 DEF Ready, Sorted, InOrder
  <1> QED
    BY <1>2, <1>3

\* A part of a part.
LEMMA PartOfPart ==
    ASSUME NEW a, NEW l \in Nat, NEW r \in Nat, NEW u \in Nat, NEW v \in Nat,
           l <= u, v <= r
    PROVE  (Fresh(a, l, r) => Fresh(a, u, v)) /\ (Ready(a, l, r) => Ready(a, u, v))
  <1>1. u .. v - 1 \subseteq l .. r - 1
    OBVIOUS
  <1> QED
    BY <1>1 DEF Fresh, Ready, Sorted
-----------------------------------------------------------------------------
(* Ranks.                                                                   *)

\* There are n slots.
LEMMA SlotCount ==
    ASSUME NEW n \in Nat
    PROVE  IsFiniteSet(Slot(n)) /\ Cardinality(Slot(n)) = n
  <1>1. PICK top \in Int : top = n - 1
    OBVIOUS
  <1>2. IsFiniteSet(0 .. top) /\ Cardinality(0 .. top) = IF 0 > top THEN 0 ELSE top - 0 + 1
    BY FS_Interval
  <1>3. (IF 0 > top THEN 0 ELSE top - 0 + 1) = n
    BY <1>1
  <1> QED
    BY <1>1, <1>2, <1>3 DEF Slot

\* R says of any two members of S which one stands before the other.
Ranks(R, S) ==
    \A f, g, h \in S : /\ <<f, f>> \notin R
                       /\ f = g \/ <<f, g>> \in R \/ <<g, f>> \in R
                       /\ <<f, g>> \in R /\ <<g, h>> \in R => <<f, h>> \in R

\* Those that stand before f.
Ahead(R, S, f) == {g \in S : <<g, f>> \in R}

\* Just n stand before one of them.
IsRank(R, S, n) == \E f \in S : Cardinality(Ahead(R, S, f)) = n

\* As many stand before some member as one likes, up to all but one.
LEMMA RankTaken ==
    ASSUME NEW S, IsFiniteSet(S), NEW R, Ranks(R, S),
           NEW n \in Nat, n < Cardinality(S)
    PROVE  IsRank(R, S, n)
  <1> DEFINE N == Cardinality(S)
             rank == [f \in S |-> Cardinality(Ahead(R, S, f))]
             places == Slot(N)
  <1>1. N \in Nat
    BY FS_CardinalityType
  <1>2. ASSUME NEW f \in S
        PROVE  /\ IsFiniteSet(Ahead(R, S, f)) /\ Cardinality(Ahead(R, S, f)) \in Nat
               /\ Cardinality(Ahead(R, S, f)) < N
    <2>1. Ahead(R, S, f) \subseteq S /\ f \notin Ahead(R, S, f)
      BY DEF Ahead, Ranks
    <2>2. PICK T : T = Ahead(R, S, f)
      OBVIOUS
    <2>3. T \in SUBSET S /\ S # T
      BY <2>1, <2>2
    <2>4. IsFiniteSet(T) /\ Cardinality(T) <= Cardinality(S) /\ Cardinality(S) # Cardinality(T)
      BY <2>3, FS_Subset
    <2>5. Cardinality(T) \in Nat
      BY <2>4, FS_CardinalityType
    <2> QED
      BY <1>1, <2>2, <2>4, <2>5
  <1>3. ASSUME NEW f \in S, NEW g \in S, <<g, f>> \in R
        PROVE  rank[g] < rank[f]
    <2>1. PICK T, U : T = Ahead(R, S, g) /\ U = Ahead(R, S, f)
      OBVIOUS
    <2>2. T \in SUBSET U /\ U # T
      BY <1>3, <2>1 DEF Ahead, Ranks
    <2>3. IsFiniteSet(U) /\ Cardinality(U) \in Nat /\ Cardinality(T) \in Nat
      BY <1>2, <2>1
    <2>4. Cardinality(T) <= Cardinality(U) /\ Cardinality(U) # Cardinality(T)
      BY <2>2, <2>3, FS_Subset
    <2>5. rank[g] = Cardinality(T) /\ rank[f] = Cardinality(U)
      BY <2>1
    <2> QED
      BY <2>3, <2>4, <2>5
  <1>4. rank \in [S -> places]
    BY <1>1, <1>2 DEF Slot
  <1>5. ASSUME NEW f \in S, NEW g \in S, rank[f] = rank[g]
        PROVE  f = g
    <2>1. rank[f] \in Nat /\ rank[g] \in Nat
      BY <1>1, <1>4 DEF Slot
    <2>2. <<f, g>> \notin R /\ <<g, f>> \notin R
      BY <1>3, <1>5, <2>1
    <2> QED
      BY <2>2 DEF Ranks
  <1>6. rank \in Injection(S, places)
    <2> HIDE DEF rank, places
    <2> QED
      BY <1>4, <1>5 DEF Injection, IsInjective
  <1>7. IsFiniteSet(places) /\ Cardinality(places) = N
    BY <1>1, SlotCount
  <1>8. n \in places
    BY <1>1 DEF Slot
  <1> HIDE DEF rank, places
  <1>9. rank \in Surjection(S, places)
    BY <1>6, <1>7, FS_Injection DEF N
  <1>10. PICK f \in S : rank[f] = n
    BY <1>8, <1>9 DEF Surjection
  <1> QED
    BY <1>10 DEF rank, IsRank
-----------------------------------------------------------------------------
(* The answer.                                                              *)

\* The first m slots hold m movies.
LEMMA FirstHeld ==
    ASSUME NEW a, NEW n, NEW F, NEW match, NEW score, Holds(a, n, F, match, score),
           NEW m \in Nat, m <= n, NEW Q, Q = {a.mv[s].film : s \in Slot(m)}
    PROVE  IsFiniteSet(Q) /\ Cardinality(Q) = m
  <1> DEFINE film == [s \in Slot(m) |-> a.mv[s].film]
  <1>1. n \in Nat
    BY DEF Holds, IsArray
  <1>2. Slot(m) \subseteq Slot(n)
    BY <1>1 DEF Slot
  <1>3. film \in Injection(Slot(m), Q) /\ film \in Surjection(Slot(m), Q)
    BY <1>2 DEF Injection, IsInjective, Surjection, Holds
  <1>4. IsFiniteSet(Slot(m)) /\ Cardinality(Slot(m)) = m
    BY SlotCount
  <1> HIDE DEF film
  <1> QED
    BY <1>3, <1>4, FS_Surjection

\* All of them hold all matches.
LEMMA AllHeld ==
    ASSUME NEW a, NEW n, NEW F, NEW match, NEW score, Holds(a, n, F, match, score),
           IsFiniteSet(match), n = Cardinality(match)
    PROVE  match = {a.mv[s].film : s \in Slot(n)}
  <1>1. PICK Q : Q = {a.mv[s].film : s \in Slot(n)}
    OBVIOUS
  <1>2. n \in Nat /\ Q \in SUBSET match
    BY <1>1 DEF Holds, IsArray
  <1>3. Cardinality(Q) = Cardinality(match)
    BY <1>1, <1>2, FirstHeld
  <1> QED
    BY <1>1, <1>2, <1>3, FS_Subset

\* f is strictly better than g, whatever their numbers.
Better(score, f, g) ==
    score[f] > score[g] \/ (score[f] = score[g] /\ Title[f] < Title[g])

\* The order of the reference on the matches, as a set of pairs.
BeforeIn(match, score) == {p \in match \X match : Before(score, p[1], p[2])}

\* Before() says of any two movies which one comes first.
LEMMA BeforeRanks ==
    ASSUME NEW F, F \subseteq Nat, Title \in [F -> Nat], NEW score \in [F -> Nat],
           NEW match, match \subseteq F,
           NEW R, R = BeforeIn(match, score)
    PROVE  Ranks(R, match)
  <1>1. \A f, g \in match : <<f, g>> \in R <=> Before(score, f, g)
    BY DEF BeforeIn
  <1>2. \A f \in match : f \in Int /\ score[f] \in Int /\ Title[f] \in Int
    <2> SUFFICES ASSUME NEW f \in match
                 PROVE  f \in Int /\ score[f] \in Int /\ Title[f] \in Int
      OBVIOUS
    <2>1. f \in F
      OBVIOUS
    <2>2. f \in Nat /\ score[f] \in Nat /\ Title[f] \in Nat
      BY <2>1
    <2> QED
      BY <2>2
  <1>3. ASSUME NEW f \in match, NEW g \in match, NEW h \in match
        PROVE  /\ ~Before(score, f, f)
               /\ f = g \/ Before(score, f, g) \/ Before(score, g, f)
               /\ Before(score, f, g) /\ Before(score, g, h) => Before(score, f, h)
    <2>1. /\ f \in Int /\ score[f] \in Int /\ Title[f] \in Int
          /\ g \in Int /\ score[g] \in Int /\ Title[g] \in Int
          /\ h \in Int /\ score[h] \in Int /\ Title[h] \in Int
      BY <1>2
    <2> QED
      BY <2>1 DEF Before
  <1> QED
    BY <1>1, <1>3 DEF Ranks

\* What is printed for a movie.
Line(f) == [title |-> Title[f], secret |-> 1]

\* The arrays hold the matches, all of them in order.
SortedHolds(a, n, F, match, score) ==
    /\ F \subseteq Nat /\ score \in [F -> Nat]
    /\ match \subseteq F /\ IsFiniteSet(match) /\ n = Cardinality(match)
    /\ Holds(a, n, F, match, score) /\ Sorted(a, 0, n)

\* Slots that are in order hold the titles of the ranking.
LEMMA RankedTitle ==
    ASSUME NEW a, NEW n, NEW F, NEW match, NEW score, SortedHolds(a, n, F, match, score),
           NEW k \in Slot(n), NEW line, line = k + 1
    PROVE  Ranked(match, score)[line] = Line(a.mv[k].film)
  <1> DEFINE AheadOf(f) == {g \in match : Before(score, g, f)}
  <1>0. /\ F \subseteq Nat /\ score \in [F -> Nat]
        /\ match \subseteq F /\ IsFiniteSet(match) /\ n = Cardinality(match)
        /\ Holds(a, n, F, match, score) /\ Sorted(a, 0, n)
    BY DEF SortedHolds
  <1> USE <1>0
  <1>1. /\ n \in Nat /\ Title \in [F -> Nat] /\ k \in Nat /\ k < n
        /\ k + 1 \in Nat /\ k + 1 <= n
    BY DEF Holds, IsArray, Slot
  <1>2. \E f \in match : Cardinality(AheadOf(f)) = k
    <2>1. PICK S : S = BeforeIn(match, score)
      OBVIOUS
    <2>2. Ranks(S, match)
      BY <1>1, <2>1, BeforeRanks
    <2>3. PICK m \in Nat : m = k /\ m < Cardinality(match)
      BY <1>1
    <2>4. PICK f \in match : Cardinality(Ahead(S, match, f)) = m
      <3>1. IsRank(S, match, m)
        BY <2>2, <2>3, RankTaken
      <3> QED
        BY <3>1 DEF IsRank
    <2>5. Ahead(S, match, f) = AheadOf(f)
      BY <2>1 DEF Ahead, BeforeIn
    <2> QED
      BY <2>3, <2>4, <2>5
  <1>3. PICK f \in match :
            /\ Cardinality(AheadOf(f)) = k
            /\ Ranked(match, score)[k + 1] = [title |-> Title[f], secret |-> 1]
    <2> DEFINE best(j) == CHOOSE f \in match : Cardinality(AheadOf(f)) = j - 1
    <2>1. Ranked(match, score) = [j \in 1 .. n |-> [title |-> Title[best(j)], secret |-> 1]]
      BY DEF Ranked
    <2>2. k + 1 \in 1 .. n /\ (k + 1) - 1 = k
      BY <1>1
    <2>3. best(k + 1) \in match /\ Cardinality(AheadOf(best(k + 1))) = k
      BY <1>2, <2>2
    <2>4. Ranked(match, score)[k + 1] = [title |-> Title[best(k + 1)], secret |-> 1]
      BY <2>1, <2>2
    <2> QED
      BY <2>3, <2>4
  <1> DEFINE A == AheadOf(f)
             h == a.mv[k].film
  <1>4. h \in match /\ IsFiniteSet(A) /\ A \subseteq match
    BY FS_Subset DEF Holds
  <1>5. \A g \in match : score[g] \in Int /\ Title[g] \in Int /\ g \in Int
    <2> SUFFICES ASSUME NEW g \in match
                 PROVE  score[g] \in Int /\ Title[g] \in Int /\ g \in Int
      OBVIOUS
    <2>1. g \in F
      OBVIOUS
    <2>2. score[g] \in Nat /\ Title[g] \in Nat /\ g \in Nat
      BY <1>1, <2>1
    <2> QED
      BY <2>2
  <1>6. ASSUME NEW s \in Slot(n), NEW t \in Slot(n), s < t
        PROVE  ~Better(score, a.mv[t].film, a.mv[s].film)
    <2>1. InOrder(a, s, t)
      BY <1>1, <1>6 DEF Sorted, Slot
    <2>2. /\ a.mv[s].film \in match /\ a.sc[s] = score[a.mv[s].film]
          /\ a.mv[t].film \in match /\ a.sc[t] = score[a.mv[t].film]
      BY DEF Holds
    <2>3. /\ score[a.mv[s].film] \in Int /\ Title[a.mv[s].film] \in Int
          /\ score[a.mv[t].film] \in Int /\ Title[a.mv[t].film] \in Int
      BY <1>5, <2>2
    <2> QED
      BY <2>1, <2>2, <2>3 DEF InOrder, Better
  <1>7. ~Better(score, f, h)
    <2> SUFFICES ASSUME Better(score, f, h) PROVE FALSE
      OBVIOUS
    <2>1. PICK P, Q : P = A \cup {f} /\ Q = {a.mv[s].film : s \in Slot(k)}
      OBVIOUS
    <2>2. f \notin A
      BY <1>5 DEF Before
    <2>3. Cardinality(P) = k + 1
      <3>1. Cardinality(A \cup {f}) = IF f \in A THEN Cardinality(A) ELSE Cardinality(A) + 1
        <4> HIDE DEF A
        <4> QED
          BY <1>4, FS_AddElement
      <3>2. Cardinality(A) = k
        BY <1>3
      <3> HIDE DEF A
      <3> QED
        BY <2>1, <2>2, <3>1, <3>2
    <2>4. IsFiniteSet(Q) /\ Cardinality(Q) = k
      BY <1>1, <2>1, FirstHeld
    <2>5. P \subseteq Q
      <3> SUFFICES ASSUME NEW g \in P PROVE g \in Q
        OBVIOUS
      <3>1. g \in match /\ Better(score, g, h)
        <4>1. g = f \/ (g \in match /\ Before(score, g, f))
          BY <2>1
        <4>2. g \in match
          BY <4>1
        <4>3. /\ score[g] \in Int /\ Title[g] \in Int /\ score[f] \in Int /\ Title[f] \in Int
              /\ score[h] \in Int /\ Title[h] \in Int
          BY <1>4, <1>5, <4>2
        <4> HIDE DEF h
        <4> QED
          BY <4>1, <4>2, <4>3 DEF Better, Before
      <3>2. PICK s \in Slot(n) : g = a.mv[s].film
        BY <3>1, AllHeld
      <3>3. ~(k < s)
        BY <1>6, <3>1, <3>2
      <3>4. s # k
        BY <1>4, <1>5, <3>1, <3>2 DEF Better
      <3>5. s \in Slot(k)
        BY <1>1, <3>3, <3>4 DEF Slot
      <3> QED
        BY <2>1, <3>2, <3>5
    <2>6. Cardinality(P) <= Cardinality(Q)
      BY <2>4, <2>5, FS_Subset
    <2> QED
      BY <1>1, <2>3, <2>4, <2>6
  <1>8. ~Better(score, h, f)
    <2> SUFFICES ASSUME Better(score, h, f) PROVE FALSE
      OBVIOUS
    <2>1. PICK m, Q : m = k + 1 /\ Q = {a.mv[s].film : s \in Slot(m)}
      OBVIOUS
    <2>2. m \in Nat /\ m <= n
      BY <1>1, <2>1
    <2>3. IsFiniteSet(Q) /\ Cardinality(Q) = m
      BY <2>1, <2>2, FirstHeld
    <2>4. Q \subseteq A
      <3> SUFFICES ASSUME NEW s \in Slot(m) PROVE a.mv[s].film \in A
        BY <2>1
      <3>1. s \in Slot(n) /\ (s = k \/ s < k)
        BY <1>1, <2>1 DEF Slot
      <3>2. a.mv[s].film \in match
        BY <3>1 DEF Holds
      <3>3. ~Better(score, h, a.mv[s].film)
        <4>1. CASE s = k
          <5>1. a.mv[s].film = h /\ score[h] \in Int /\ Title[h] \in Int
            BY <1>4, <1>5, <4>1
          <5> HIDE DEF h
          <5> QED
            BY <5>1 DEF Better
        <4>2. CASE s < k
          BY <1>6, <3>1, <4>2
        <4> QED
          BY <3>1, <4>1, <4>2
      <3>4. PICK g \in match : g = a.mv[s].film
        BY <3>2
      <3>5. /\ score[g] \in Int /\ Title[g] \in Int /\ score[f] \in Int /\ Title[f] \in Int
            /\ score[h] \in Int /\ Title[h] \in Int
        BY <1>4, <1>5
      <3> HIDE DEF h
      <3>6. Before(score, g, f)
        BY <3>3, <3>4, <3>5 DEF Better, Before
      <3> QED
        BY <3>4, <3>6
    <2>5. Cardinality(Q) <= Cardinality(A)
      <3> HIDE DEF A
      <3> QED
        BY <1>4, <2>4, FS_Subset
    <2>6. Cardinality(A) = k
      BY <1>3
    <2> QED
      BY <1>1, <2>1, <2>3, <2>5, <2>6
  <1>9. Title[f] = Title[h]
    <2>1. /\ score[h] \in Int /\ Title[h] \in Int /\ score[f] \in Int /\ Title[f] \in Int
      BY <1>4, <1>5
    <2> HIDE DEF h
    <2> QED
      BY <1>7, <1>8, <2>1 DEF Better
  <1> QED
    BY <1>3, <1>9 DEF Line
=============================================================================
