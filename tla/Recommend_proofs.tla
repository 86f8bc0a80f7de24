--------------------------- MODULE Recommend_proofs ---------------------------
(***************************************************************************)
(* Proofs about the trees of workers in Recommend, for every data set,     *)
(* every sequence of requests and every order of the workers' steps: the   *)
(* workers never race for a slot of the arrays, and only bad input or a    *)
(* request without a match brings the server down.                         *)
(*                                                                         *)
(* The tree of one request is described by the function p that says where  *)
(* each worker is and the function a that gives its part of the arrays.    *)
(***************************************************************************)
EXTENDS Recommend, Ranking_proofs, FiniteSetTheorems, SequenceTheorems, TLAPS

Place == {"none", "begin", "half", "join", "merge", "done"}
Part == [l : Nat, r : Nat, layer : 0 .. LastLayer]

\* Worker j is in the tree under worker k.
Below(j, k) == j \div 2 = k \/ j \div 4 = k \/ j \div 8 = k

\* The parts lie in the arrays, and no tree is deeper than the layers.
Bounded(p, a, n) ==
    \A k \in Node : p[k] # "none" =>
        /\ a[k].l <= a[k].r /\ a[k].r <= n
        /\ k >= 2 => a[k].layer >= 1
        /\ k >= 4 => a[k].layer >= 2
        /\ k >= 8 => a[k].layer >= 3

\* With two matches or more each layer has enough slots for the layers below.
Sized(p, a, n) ==
    n >= 2 => \A k \in Node : p[k] # "none" =>
        /\ a[k].r - a[k].l >= 2
        /\ a[k].layer <= 2 => a[k].r - a[k].l >= 4
        /\ a[k].layer <= 1 => a[k].r - a[k].l >= 8
        /\ a[k].layer = 0 => a[k].r - a[k].l >= 16

\* One match is one leaf, in which a thread has nothing left to do.
Alone(p, a, n, threads) ==
    n = 1 => \A k \in Node : p[k] # "none" =>
        /\ k = 1 /\ a[k] = Root(1)
        /\ threads => p[k] = "done"

\* Whoever has a worker under it is waiting for it or has seen it end, and
\* covers its part.
Nested(p, a) ==
    \A j, k \in Node : (Below(j, k) /\ p[j] # "none") =>
        /\ p[k] \in {"half", "join", "merge", "done"}
        /\ p[k] \in {"merge", "done"} => p[j] = "done"
        /\ a[k].layer # LastLayer
        /\ a[k].l <= a[j].l /\ a[j].r <= a[k].r

\* A left child stays in the left half; there is no right one before "join".
Halved(p, a) ==
    \A k, c \in Node :
        /\ (c = 2 * k /\ p[c] # "none") => a[c].r <= Mid(a[k])
        /\ (c = 2 * k + 1 /\ p[k] = "half") => p[c] = "none"

\* Two workers of which neither is under the other have separate parts.
Apart(p, a) ==
    \A j, k \in Node : (j # k /\ p[j] # "none" /\ p[k] # "none") =>
        \/ Below(j, k) \/ Below(k, j)
        \/ a[j].r <= a[k].l \/ a[k].r <= a[j].l

Tree(p, a, n, threads) ==
    /\ Bounded(p, a, n)
    /\ Sized(p, a, n)
    /\ Alone(p, a, n, threads)
    /\ Nested(p, a)
    /\ Halved(p, a)
    /\ Apart(p, a)

-----------------------------------------------------------------------------
(* The numbering of the workers.                                            *)

\* A child, and whatever is under it, is under its parent, and nothing else is.
LEMMA ChildBelow ==
    ASSUME NEW k \in Node, NEW c \in Node, c \in Children(k)
    PROVE  /\ Below(c, k) /\ c # k /\ ~Below(k, c) /\ ~Below(c, c)
           /\ \A j \in Node : Below(j, c) => Below(j, k) /\ j # c
           /\ \A j \in Node : Below(k, j) => Below(c, j)
           /\ \A j \in Node : Below(c, j) => j = k \/ Below(k, j)
  BY DEF Children, Node, Below

\* What is under a worker is one of its children or under one of them.
LEMMA BelowChild ==
    ASSUME NEW k \in Node, NEW j \in Node, Below(j, k)
    PROVE  \E c \in Node : c \in Children(k) /\ (j = c \/ Below(j, c))
  <1>1. CASE j \div 2 = k
    BY <1>1 DEF Children, Node
  <1>2. CASE j \div 4 = k
    <2>1. j \div 2 \in Node /\ j \div 2 \in Children(k) /\ Below(j, j \div 2)
      BY <1>2 DEF Children, Node, Below
    <2> QED BY <2>1
  <1>3. CASE j \div 8 = k
    <2>1. j \div 4 \in Node /\ j \div 4 \in Children(k) /\ Below(j, j \div 4)
      BY <1>3 DEF Children, Node, Below
    <2> QED BY <2>1
  <1> QED BY <1>1, <1>2, <1>3 DEF Below

-----------------------------------------------------------------------------
(* What the steps of a worker do to the tree of its request.                *)

\* A worker may go on without a new child: with no worker under it, or to
\* "merge" and "done" when all of them are done.
MayGo(p, k, to) ==
    /\ p[k] \notin {"none", "done"}
    /\ \A j \in Node : (Below(j, k) /\ p[j] # "none") => p[j] = "done" /\ to # "half"

\* A worker goes on where it is allowed to: the tree stays sound.
LEMMA MoveTree ==
    ASSUME NEW p \in [Node -> Place], NEW a \in [Node -> Part],
           NEW n \in Nat, NEW threads \in BOOLEAN,
           Tree(p, a, n, threads),
           NEW k \in Node, NEW to \in {"half", "merge", "done"}, MayGo(p, k, to)
    PROVE  Tree([p EXCEPT ![k] = to], a, n, threads)
  <1> DEFINE p2 == [p EXCEPT ![k] = to]
  <1>1. /\ p2 \in [Node -> Place] /\ p2[k] = to
        /\ \A j \in Node \ {k} : p2[j] = p[j]
        /\ \A j \in Node : p2[j] # "none" <=> p[j] # "none"
    BY DEF Place, MayGo
  <1> HIDE DEF p2
  <1>2. Bounded(p2, a, n) /\ Sized(p2, a, n)
    BY <1>1 DEF Tree, Bounded, Sized, MayGo
  <1>3. Alone(p2, a, n, threads)
    BY <1>1 DEF Tree, Alone, MayGo
  <1>4. Nested(p2, a)
    <2> SUFFICES ASSUME NEW j \in Node, NEW m \in Node, Below(j, m), p2[j] # "none"
                 PROVE  /\ p2[m] \in {"half", "join", "merge", "done"}
                        /\ p2[m] \in {"merge", "done"} => p2[j] = "done"
                        /\ a[m].layer # LastLayer
                        /\ a[m].l <= a[j].l /\ a[j].r <= a[m].r
      BY DEF Nested
    <2>1. /\ p[m] \in {"half", "join", "merge", "done"}
          /\ p[m] \in {"merge", "done"} => p[j] = "done"
          /\ a[m].layer # LastLayer
          /\ a[m].l <= a[j].l /\ a[j].r <= a[m].r
      BY <1>1 DEF Tree, Nested
    <2>2. j # m
      BY DEF Below, Node
    <2>3. CASE m = k
      BY <1>1, <2>1, <2>2, <2>3 DEF MayGo
    <2>4. CASE m # k
      BY <1>1, <2>1, <2>4 DEF MayGo
    <2> QED BY <2>3, <2>4
  <1>5. Halved(p2, a)
    <2> SUFFICES ASSUME NEW m \in Node, NEW c \in Node
                 PROVE  /\ (c = 2 * m /\ p2[c] # "none") => a[c].r <= Mid(a[m])
                        /\ (c = 2 * m + 1 /\ p2[m] = "half") => p2[c] = "none"
      BY DEF Halved
    <2>1. c = 2 * m + 1 => Below(c, m)
      BY DEF Below, Node
    <2> QED BY <1>1, <2>1 DEF Tree, Halved, MayGo
  <1>6. Apart(p2, a)
    BY <1>1 DEF Tree, Apart, MayGo
  <1> QED BY <1>2, <1>3, <1>4, <1>5, <1>6 DEF Tree, p2

\* A worker starts the next of its children on that half of its part.
LEMMA SpawnTree ==
    ASSUME NEW p \in [Node -> Place], NEW a \in [Node -> Part],
           NEW n \in Nat, NEW threads \in BOOLEAN,
           Tree(p, a, n, threads),
           NEW k \in Node, NEW c \in Node, NEW to \in Place, NEW x,
           a[k].layer # LastLayer,
           \/ p[k] = "begin" /\ c = 2 * k /\ to = "half" /\ x = LeftArg(a[k])
           \/ p[k] = "half" /\ c = 2 * k + 1 /\ to = "join" /\ x = RightArg(a[k])
    PROVE  /\ x \in Part
           /\ Tree([p EXCEPT ![k] = to, ![c] = "begin"], [a EXCEPT ![c] = x], n, threads)
  <1> DEFINE p2 == [p EXCEPT ![k] = to, ![c] = "begin"]
             a2 == [a EXCEPT ![c] = x]
  <1>1. /\ a[k].l \in Nat /\ a[k].r \in Nat /\ a[k].layer \in 0 .. 2
        /\ a[k].l <= a[k].r /\ a[k].r <= n
    BY DEF Part, LastLayer, Tree, Bounded
  <1>2. c \in Children(k) /\ c # k
    BY DEF Children, Node
  <1>3. p[c] = "none"
    BY <1>2, ChildBelow DEF Tree, Nested, Halved
  <1>4. \A j \in Node : Below(j, c) => p[j] = "none"
    BY <1>3 DEF Tree, Nested
  <1>5. /\ x \in Part /\ x.layer = a[k].layer + 1
        /\ a[k].l <= x.l /\ x.l <= x.r /\ x.r <= a[k].r
        /\ x.r - x.l >= (a[k].r - a[k].l) \div 2
        /\ c = 2 * k => x.r = Mid(a[k])
        /\ c = 2 * k + 1 => x.l = Mid(a[k])
    <2> DEFINE mid == Mid(a[k])
    <2>1. /\ mid \in Nat /\ a[k].l <= mid /\ mid <= a[k].r
          /\ mid - a[k].l >= (a[k].r - a[k].l) \div 2
          /\ a[k].r - mid >= (a[k].r - a[k].l) \div 2
      BY <1>1 DEF Mid
    <2> HIDE DEF mid
    <2>2. CASE c = 2 * k /\ x = LeftArg(a[k])
      <3>1. x = [l |-> a[k].l, r |-> mid, layer |-> a[k].layer + 1] /\ x.r = Mid(a[k])
        BY <2>2 DEF LeftArg, mid
      <3> QED BY <1>1, <2>1, <2>2, <3>1 DEF Part, LastLayer, Node
    <2>3. CASE c = 2 * k + 1 /\ x = RightArg(a[k])
      <3>1. x = [l |-> mid, r |-> a[k].r, layer |-> a[k].layer + 1] /\ x.l = Mid(a[k])
        BY <2>3 DEF RightArg, mid
      <3> QED BY <1>1, <2>1, <2>3, <3>1 DEF Part, LastLayer, Node
    <2> QED BY <2>2, <2>3
  <1>6. /\ p2 \in [Node -> Place] /\ p2[k] = to /\ p2[c] = "begin"
        /\ \A j \in Node \ {k, c} : p2[j] = p[j]
        /\ \A j \in Node : p2[j] # "none" <=> j = c \/ p[j] # "none"
    BY <1>2 DEF Place
  <1>7. /\ a2 \in [Node -> Part] /\ a2[c] = x
        /\ \A j \in Node \ {c} : a2[j] = a[j]
    BY <1>5
  <1> HIDE DEF p2, a2
  <1>8. Bounded(p2, a2, n)
    <2>1. /\ c >= 4 => k >= 2
          /\ c >= 8 => k >= 4
      BY <1>2 DEF Children, Node
    <2> SUFFICES ASSUME NEW j \in Node, p2[j] # "none"
                 PROVE  /\ a2[j].l <= a2[j].r /\ a2[j].r <= n
                        /\ j >= 2 => a2[j].layer >= 1
                        /\ j >= 4 => a2[j].layer >= 2
                        /\ j >= 8 => a2[j].layer >= 3
      BY DEF Bounded
    <2>2. CASE j = c
      <3>1. /\ k >= 2 => a[k].layer >= 1
            /\ k >= 4 => a[k].layer >= 2
        BY DEF Tree, Bounded
      <3> QED BY <1>1, <1>5, <1>7, <2>1, <2>2, <3>1 DEF Node, Part
    <2>3. CASE j # c
      BY <1>6, <1>7, <2>3 DEF Tree, Bounded
    <2> QED BY <2>2, <2>3
  <1>9. Sized(p2, a2, n)
    <2> SUFFICES ASSUME n >= 2, NEW j \in Node, p2[j] # "none"
                 PROVE  /\ a2[j].r - a2[j].l >= 2
                        /\ a2[j].layer <= 2 => a2[j].r - a2[j].l >= 4
                        /\ a2[j].layer <= 1 => a2[j].r - a2[j].l >= 8
                        /\ a2[j].layer = 0 => a2[j].r - a2[j].l >= 16
      BY DEF Sized
    <2>1. CASE j = c
      <3>1. /\ a[k].r - a[k].l >= 4
            /\ a[k].layer <= 1 => a[k].r - a[k].l >= 8
            /\ a[k].layer = 0 => a[k].r - a[k].l >= 16
        BY <1>1 DEF Tree, Sized
      <3> DEFINE had == a[k].r - a[k].l
                 has == x.r - x.l
      <3>2. had \in Int /\ has \in Int /\ has >= had \div 2
        BY <1>1, <1>5 DEF Part
      <3>3. had >= 4 /\ (a[k].layer <= 1 => had >= 8) /\ (a[k].layer = 0 => had >= 16)
        BY <3>1
      <3> HIDE DEF had, has
      <3>4. /\ has >= 2
            /\ x.layer <= 2 => has >= 4
            /\ x.layer <= 1 => has >= 8
            /\ x.layer # 0
        BY <1>1, <1>5, <3>2, <3>3
      <3> QED BY <1>7, <2>1, <3>4 DEF has
    <2>2. CASE j # c
      BY <1>6, <1>7, <2>2 DEF Tree, Sized
    <2> QED BY <2>1, <2>2
  <1>10. Alone(p2, a2, n, threads)
    <2>1. n = 1 => a[k] = Root(1)
      BY DEF Tree, Alone
    <2>2. Root(1).layer = LastLayer
      BY SizeAssumption DEF Root, Layer, LastLayer
    <2> QED BY <2>1, <2>2 DEF Alone
  <1>11. Nested(p2, a2)
    <2> SUFFICES ASSUME NEW j \in Node, NEW m \in Node, Below(j, m), p2[j] # "none"
                 PROVE  /\ p2[m] \in {"half", "join", "merge", "done"}
                        /\ p2[m] \in {"merge", "done"} => p2[j] = "done"
                        /\ a2[m].layer # LastLayer
                        /\ a2[m].l <= a2[j].l /\ a2[j].r <= a2[m].r
      BY DEF Nested
    <2>1. m # c
      BY <1>2, <1>4, <1>6, ChildBelow
    <2>2. CASE j = c /\ m = k
      BY <1>1, <1>2, <1>5, <1>6, <1>7, <2>2
    <2>3. CASE j = c /\ m # k
      <3>1. Below(k, m)
        BY <1>2, <2>3, ChildBelow
      <3>2. /\ p[m] \in {"half", "join"}
            /\ a[m].layer # LastLayer
            /\ a[m].l <= a[k].l /\ a[k].r <= a[m].r
        BY <3>1 DEF Tree, Nested
      <3>3. a[m].l \in Nat /\ a[m].r \in Nat /\ x.l \in Nat /\ x.r \in Nat
        BY <1>5 DEF Part
      <3> QED BY <1>1, <1>5, <1>6, <1>7, <2>1, <2>3, <3>2, <3>3
    <2>4. CASE j # c
      <3>1. /\ p[j] # "none"
            /\ p[m] \in {"half", "join", "merge", "done"}
            /\ p[m] \in {"merge", "done"} => p[j] = "done"
            /\ a[m].layer # LastLayer
            /\ a[m].l <= a[j].l /\ a[j].r <= a[m].r
        BY <1>6, <2>4 DEF Tree, Nested
      <3>2. CASE m = k
        BY <1>2, <1>6, <1>7, <2>1, <2>4, <3>1, <3>2
      <3>3. CASE m # k
        <4>1. p2[m] = p[m] /\ a2[m] = a[m] /\ a2[j] = a[j]
          BY <1>6, <1>7, <2>1, <2>4, <3>3
        <4>2. p[m] \in {"merge", "done"} => j # k
          BY <3>1
        <4> QED BY <1>6, <2>4, <3>1, <4>1, <4>2
      <3> QED BY <3>2, <3>3
    <2> QED BY <2>2, <2>3, <2>4
  <1>12. Halved(p2, a2)
    <2> SUFFICES ASSUME NEW m \in Node, NEW d \in Node
                 PROVE  /\ (d = 2 * m /\ p2[d] # "none") => a2[d].r <= Mid(a2[m])
                        /\ (d = 2 * m + 1 /\ p2[m] = "half") => p2[d] = "none"
      BY DEF Halved
    <2>1. /\ (d = 2 * m /\ p[d] # "none") => a[d].r <= Mid(a[m])
          /\ (d = 2 * m + 1 /\ p[m] = "half") => p[d] = "none"
          /\ (d = 2 * m \/ d = 2 * m + 1) => Below(d, m) /\ d # m
      BY DEF Tree, Halved, Below, Node
    <2>2. d = c => (d = 2 * m \/ d = 2 * m + 1 => m = k)
      BY <1>2 DEF Children, Node
    <2>3. CASE d = 2 * m /\ p2[d] # "none"
      <3>1. CASE d = c
        <4>1. m = k /\ Mid(a2[m]) = Mid(a[k]) /\ a2[d] = x /\ x.r = Mid(a[k])
          BY <1>2, <1>5, <1>7, <2>2, <2>3, <3>1
        <4>2. x.r \in Nat
          BY <1>5 DEF Part
        <4>3. d # 2 * m + 1
          BY <2>3 DEF Node
        <4> QED BY <4>1, <4>2, <4>3
      <3>2. CASE d # c
        <4>1. m # c
          BY <1>4, <1>6, <2>1, <2>3, <3>2
        <4>2. d # 2 * m + 1
          BY <2>3 DEF Node
        <4> QED BY <1>6, <1>7, <2>1, <2>3, <3>2, <4>1, <4>2
      <3> QED BY <3>1, <3>2
    <2>4. CASE d = 2 * m + 1 /\ p2[m] = "half"
      <3>1. d # 2 * m
        BY <2>4 DEF Node
      <3>2. m # c
        BY <1>6, <2>4
      <3>3. CASE m = k
        <4>1. to = "half" /\ c = 2 * k /\ p[k] = "begin"
          BY <1>6, <2>4, <3>3
        <4>2. p[d] = "none"
          BY <2>1, <2>4, <3>3, <4>1 DEF Tree, Nested
        <4>3. d # c
          BY <2>4, <3>3, <4>1 DEF Node
        <4> QED BY <1>6, <3>1, <4>2, <4>3
      <3>4. CASE m # k
        BY <1>6, <2>1, <2>2, <2>4, <3>1, <3>2, <3>4
      <3> QED BY <3>3, <3>4
    <2> QED BY <2>3, <2>4
  <1>13. Apart(p2, a2)
    <2>1. ASSUME NEW j \in Node, j # c, p[j] # "none"
          PROVE  Below(j, c) \/ Below(c, j) \/ a[j].r <= x.l \/ x.r <= a[j].l
      <3>1. a[j].l \in Nat /\ a[j].r \in Nat /\ x.l \in Nat /\ x.r \in Nat
        BY <1>5 DEF Part
      <3>2. CASE j = k \/ Below(k, j)
        BY <1>2, <3>2, ChildBelow
      <3>3. CASE Below(j, k)
        <4>1. p[k] = "half" /\ c = 2 * k + 1 /\ x.l = Mid(a[k])
          BY <1>5, <2>1, <3>3 DEF Tree, Nested
        <4>2. PICK d \in Node : d \in Children(k) /\ (j = d \/ Below(j, d))
          BY <3>3, BelowChild
        <4>3. d = 2 * k
          BY <1>4, <2>1, <4>1, <4>2 DEF Children
        <4>4. p[d] # "none" /\ a[j].r <= a[d].r
          <5>1. CASE j = d
            BY <2>1, <3>1, <5>1
          <5>2. CASE Below(j, d)
            BY <2>1, <5>2 DEF Tree, Nested
          <5> QED BY <4>2, <5>1, <5>2
        <4>5. a[d].r <= Mid(a[k])
          BY <4>3, <4>4 DEF Tree, Halved
        <4>6. a[d].r \in Nat
          BY DEF Part
        <4> QED BY <3>1, <4>1, <4>4, <4>5, <4>6
      <3>4. CASE j # k /\ ~Below(j, k) /\ ~Below(k, j)
        <4>1. a[j].r <= a[k].l \/ a[k].r <= a[j].l
          BY <2>1, <3>4 DEF Tree, Apart
        <4> QED BY <1>1, <1>5, <3>1, <4>1
      <3> QED BY <3>2, <3>3, <3>4
    <2> SUFFICES ASSUME NEW j \in Node, NEW m \in Node,
                        j # m, p2[j] # "none", p2[m] # "none"
                 PROVE  \/ Below(j, m) \/ Below(m, j)
                        \/ a2[j].r <= a2[m].l \/ a2[m].r <= a2[j].l
      BY DEF Apart
    <2>2. CASE j # c /\ m # c
      BY <1>6, <1>7, <2>2 DEF Tree, Apart
    <2>3. CASE j = c
      BY <1>6, <1>7, <2>1, <2>3
    <2>4. CASE m = c
      BY <1>6, <1>7, <2>1, <2>4
    <2> QED BY <2>2, <2>3, <2>4
  <1> QED BY <1>5, <1>8, <1>9, <1>10, <1>11, <1>12, <1>13 DEF Tree, p2, a2

Unused(p) == \A k \in Node : p[k] = "none"

\* The first worker of a request is not needed by a thread with one match.
FirstPlace(n, threads, to) == (threads /\ n = 1) => to = "done"

\* Where the first worker starts is a part of the arrays.
LEMMA RootType ==
    ASSUME NEW n \in Nat
    PROVE  Root(n) \in Part
  BY SizeAssumption DEF Root, Layer, Part, LastLayer

\* A tree that is only the first worker, which has all the slots.
LEMMA StartTree ==
    ASSUME NEW p \in [Node -> Place], NEW a \in [Node -> Part],
           NEW n \in Nat, NEW threads \in BOOLEAN,
           \A k \in Node : k # 1 => p[k] = "none",
           FirstPlace(n, threads, p[1]), a[1] = Root(n)
    PROVE  Tree(p, a, n, threads)
  <1>1. /\ Root(n).l = 0 /\ Root(n).r = n
        /\ n >= 2 => /\ Root(n).layer <= 2 => n >= 4
                     /\ Root(n).layer <= 1 => n >= 8
                     /\ Root(n).layer = 0 => n >= 16
    BY SizeAssumption DEF Root, Layer, Part, LastLayer
  <1>2. \A k \in Node : p[k] # "none" => k = 1
    OBVIOUS
  <1>3. Bounded(p, a, n) /\ Sized(p, a, n)
    BY <1>1, <1>2 DEF Bounded, Sized
  <1>4. Alone(p, a, n, threads)
    BY <1>2 DEF Alone, FirstPlace
  <1>5. \A k \in Node : ~Below(1, k)
    BY DEF Below, Node
  <1>6. Nested(p, a) /\ Apart(p, a)
    BY <1>2, <1>5 DEF Nested, Apart
  <1>7. Halved(p, a)
    BY <1>2 DEF Halved, Node
  <1> QED BY <1>3, <1>4, <1>6, <1>7 DEF Tree

-----------------------------------------------------------------------------
(* The invariant.                                                           *)

Types ==
    /\ build \in Builds /\ input \in Inputs
    /\ main \in {"load", "loop", "serve", "exited", "crashed"}
    /\ i \in Nat
    /\ stage \in [Request -> {"none", "begin", "sort", "print", "done"}]
    /\ arg \in [Request -> [Node -> Part]]
    /\ pc \in [Request -> [Node -> Place]]
    /\ DOMAIN array = Request

\* main() gets only to requests that there are, and to each of them once.
MainInOrder ==
    /\ main = "load" => i = 0 /\ \A q \in Request : stage[q] = "none"
    /\ main = "loop" => Threads /\ i < Len(input)
    /\ Threads => \A q \in Request : q > i => stage[q] = "none"
    /\ \A q \in Request : stage[q] # "none" => q \in DOMAIN input

\* A request has workers from the moment it has arrays, and results when the
\* first of its workers is done.
RequestInOrder(q) ==
    /\ stage[q] \in {"none", "begin"} => \A k \in Node : pc[q][k] = "none"
    /\ stage[q] \in {"sort", "print", "done"} => DOMAIN array[q].mv = 0 .. Matches(q) - 1
    /\ stage[q] \in {"print", "done"} => pc[q][1] = "done"
    /\ Tree(pc[q], arg[q], Matches(q), Threads)

Inv == /\ Types
       /\ MainInOrder
       /\ \A q \in Request : RequestInOrder(q)
       /\ CrashOnlyOnNothing

\* A worker that is not of the last layer has numbers for two children.
LEMMA RoomForChildren ==
    ASSUME NEW p, NEW a \in [Node -> Part], NEW n, NEW threads, Tree(p, a, n, threads),
           NEW k \in Node, p[k] # "none", a[k].layer # LastLayer
    PROVE  k < 8 /\ 2 * k \in Node /\ 2 * k + 1 \in Node
  <1>1. a[k].layer \in 0 .. 2
    BY DEF Part, LastLayer
  <1>2. k >= 8 => a[k].layer >= 3
    BY DEF Tree, Bounded
  <1>3. k \in 1 .. 15
    BY DEF Node
  <1> QED
    BY <1>1, <1>2, <1>3 DEF Node

\* The number of matches of a request that is read.
LEMMA MatchesType ==
    ASSUME input \in Inputs, NEW q \in DOMAIN input
    PROVE  Matches(q) \in Nat
  <1>1. input[q] \in ReadRequest
    BY CaseAssumption
  <1>2. input[q].match \subseteq Film
    BY <1>1 DEF ReadRequest
  <1> QED BY <1>2, FilmAssumption, FS_Subset, FS_CardinalityType DEF Matches

\* A request with a worker that is not done is being sorted.
LEMMA Sorting ==
    ASSUME Inv, NEW q \in Request, NEW k \in Node, pc[q][k] \notin {"none", "done"}
    PROVE  stage[q] = "sort" /\ q \in DOMAIN input /\ Matches(q) \in Nat
  <1>1. stage[q] \in {"sort", "print", "done"}
    BY DEF Inv, Types, RequestInOrder
  <1>2. k # 1 => Below(k, 1)
    BY DEF Below, Node
  <1>3. stage[q] \notin {"print", "done"}
    <2>1. 1 \in Node /\ Nested(pc[q], arg[q])
      BY DEF Inv, RequestInOrder, Tree, Node
    <2>2. pc[q][1] = "done" => pc[q][k] = "done"
      BY <1>2, <2>1 DEF Nested
    <2>3. stage[q] \in {"print", "done"} => pc[q][1] = "done"
      BY DEF Inv, RequestInOrder
    <2> QED
      BY <2>2, <2>3
  <1>4. q \in DOMAIN input
    BY <1>1 DEF Inv, MainInOrder
  <1> QED BY <1>1, <1>3, <1>4, MatchesType DEF Inv, Types

\* What a worker does keeps the invariant if it leaves a tree.
LEMMA WorkerStep ==
    ASSUME Inv, NEW q \in Request, NEW k \in Node, pc[q][k] \notin {"none", "done"},
           NEW p \in [Node -> Place], NEW a \in [Node -> Part],
           Tree(p, a, Matches(q), Threads),
           pc' = [pc EXCEPT ![q] = p], arg' = [arg EXCEPT ![q] = a],
           UNCHANGED <<fixed, i, stage>>,
           DOMAIN array' = Request,
           \A r \in Request : DOMAIN array'[r].mv = DOMAIN array[r].mv,
           main' \in {main, "exited"} \/ (main' = "crashed" /\ Matches(q) = 0)
    PROVE  Inv'
  <1>1. Types'
    BY DEF Inv, Types, fixed
  <1>2. MainInOrder'
    <2>1. main' = "load" => main = "load"
      OBVIOUS
    <2>2. main' = "loop" => main = "loop"
      OBVIOUS
    <2> QED BY <2>1, <2>2 DEF Inv, MainInOrder, fixed, Threads
  <1>3. stage[q] = "sort" /\ q \in DOMAIN input
    BY Sorting
  <1>4. ASSUME NEW r \in Request
        PROVE  RequestInOrder(r)'
    <2>1. Matches(r)' = Matches(r) /\ Threads' = Threads
      BY DEF Matches, Threads, fixed
    <2>2. CASE r = q
      <3>1. pc'[r] = p /\ arg'[r] = a
        BY <2>2 DEF Inv, Types
      <3> QED BY <1>3, <2>1, <2>2, <3>1 DEF Inv, RequestInOrder
    <2>3. CASE r # q
      <3>1. pc'[r] = pc[r] /\ arg'[r] = arg[r]
        BY <2>3 DEF Inv, Types
      <3> QED BY <2>1, <3>1 DEF Inv, RequestInOrder
    <2> QED BY <2>2, <2>3
  <1>5. CrashOnlyOnNothing'
    BY <1>3 DEF Inv, CrashOnlyOnNothing, BadInput, SecondNumber, ShortLine, Matches, Threads, fixed
  <1> QED BY <1>1, <1>2, <1>4, <1>5 DEF Inv

-----------------------------------------------------------------------------
(* The steps of the workers.                                                *)

\* sort() and the merge leave the arrays as long as they are.
LEMMA SameLength ==
    ASSUME NEW b, NEW l, NEW mid, NEW r
    PROVE  DOMAIN Sort(b, l, r).mv = DOMAIN b.mv /\ DOMAIN Merge(b, l, mid, r).mv = DOMAIN b.mv
  BY DEF Sort, Merge, Moved

\* A sort or a merge in one request keeps the sizes of all arrays.
LEMMA Rearranged ==
    ASSUME DOMAIN array = Request, NEW q \in Request, NEW b,
           DOMAIN b.mv = DOMAIN array[q].mv, array' = [array EXCEPT ![q] = b]
    PROVE  /\ DOMAIN array' = Request
           /\ \A r \in Request : DOMAIN array'[r].mv = DOMAIN array[r].mv
  OBVIOUS

\* No worker is under a leaf.
LEMMA NoneUnderLeaf ==
    ASSUME Inv, NEW q \in Request, NEW k \in Node, Leaf(q, k)
    PROVE  \A j \in Node : Below(j, k) => pc[q][j] = "none"
  BY DEF Inv, RequestInOrder, Tree, Nested, Leaf

\* The tree of a request after a worker of it has gone on.
LEMMA GoesTree ==
    ASSUME Inv, NEW q \in Request, NEW k \in Node, NEW to \in {"half", "merge", "done"},
           MayGo(pc[q], k, to)
    PROVE  Tree([pc[q] EXCEPT ![k] = to], arg[q], Matches(q), Threads)
  <1>1. /\ pc[q] \in [Node -> Place] /\ arg[q] \in [Node -> Part]
        /\ Threads \in BOOLEAN /\ Matches(q) \in Nat
    <2>1. pc[q][k] \notin {"none", "done"}
      BY DEF MayGo
    <2>2. Matches(q) \in Nat
      BY <2>1, Sorting
    <2>3. /\ pc \in [Request -> [Node -> Place]] /\ arg \in [Request -> [Node -> Part]]
          /\ Threads \in BOOLEAN
      BY DEF Inv, Types, Threads
    <2> QED
      BY <2>2, <2>3
  <1>2. Tree(pc[q], arg[q], Matches(q), Threads)
    BY DEF Inv, RequestInOrder
  <1>3. PICK p, a, n, threads :
            p = pc[q] /\ a = arg[q] /\ n = Matches(q) /\ threads = Threads
    OBVIOUS
  <1>4. /\ p \in [Node -> Place] /\ a \in [Node -> Part] /\ n \in Nat
        /\ threads \in BOOLEAN /\ Tree(p, a, n, threads) /\ MayGo(p, k, to)
    BY <1>1, <1>2, <1>3
  <1>5. Tree([p EXCEPT ![k] = to], a, n, threads)
    BY <1>4, MoveTree
  <1> QED
    BY <1>3, <1>5

\* A worker that goes on alone, whatever it does to the slots of the arrays.
LEMMA GoesStep ==
    ASSUME Inv, NEW q \in Request, NEW k \in Node, NEW to \in {"half", "merge", "done"},
           MayGo(pc[q], k, to), Goes(q, k, to),
           UNCHANGED <<fixed, i, stage, arg>>,
           DOMAIN array' = Request,
           \A r \in Request : DOMAIN array'[r].mv = DOMAIN array[r].mv,
           main' \in {main, "exited"} \/ (main' = "crashed" /\ Matches(q) = 0)
    PROVE  Inv'
  <1> DEFINE next == [pc[q] EXCEPT ![k] = to]
  <1>1. pc[q] \in [Node -> Place] /\ arg[q] \in [Node -> Part] /\ Threads \in BOOLEAN
    BY DEF Inv, Types, Threads
  <1>2. next \in [Node -> Place]
    BY <1>1 DEF Place
  <1>3. pc' = [pc EXCEPT ![q] = next] /\ arg' = [arg EXCEPT ![q] = arg[q]]
    BY DEF Goes, Inv, Types
  <1>4. pc[q][k] \notin {"none", "done"} /\ Matches(q) \in Nat
    BY Sorting DEF MayGo
  <1>5. Tree(pc[q], arg[q], Matches(q), Threads)
    BY DEF Inv, RequestInOrder
  <1>6. Tree(next, arg[q], Matches(q), Threads)
    BY GoesTree
  <1> HIDE DEF next
  <1> QED BY <1>1, <1>2, <1>3, <1>4, <1>6, WorkerStep

\* create_thread() or fork() for the left or the right half keeps the invariant.
LEMMA SpawnStep ==
    ASSUME Inv, NEW q \in Request, NEW k \in Node, SpawnLeft(q, k) \/ SpawnRight(q, k)
    PROVE  Inv'
  <1>1. PICK c, from, to, x :
            /\ Spawn(q, k, c, from, to, x)
            /\ \/ c = 2 * k /\ from = "begin" /\ to = "half" /\ x = LeftArg(arg[q][k])
               \/ c = 2 * k + 1 /\ from = "half" /\ to = "join" /\ x = RightArg(arg[q][k])
    BY DEF SpawnLeft, SpawnRight
  <1> DEFINE p == [pc[q] EXCEPT ![k] = to, ![c] = "begin"]
             a == [arg[q] EXCEPT ![c] = x]
  <1>2. /\ pc[q] \in [Node -> Place] /\ arg[q] \in [Node -> Part] /\ Threads \in BOOLEAN
        /\ DOMAIN array = Request
    BY DEF Inv, Types, Threads
  <1>3. /\ pc[q][k] = from /\ arg[q][k].layer # LastLayer
        /\ pc' = [pc EXCEPT ![q][k] = to, ![q][c] = "begin"]
        /\ arg' = [arg EXCEPT ![q][c] = x]
        /\ UNCHANGED <<fixed, main, i, stage, array>>
    BY <1>1 DEF Spawn, At, Leaf
  <1>4. Tree(pc[q], arg[q], Matches(q), Threads)
    BY DEF Inv, RequestInOrder
  <1>5. Matches(q) \in Nat
    BY <1>1, <1>3, Sorting
  <1>6. c \in Node
    <2>1. pc[q][k] # "none"
      BY <1>1, <1>3
    <2>2. 2 * k \in Node /\ 2 * k + 1 \in Node
      BY <1>2, <1>3, <1>4, <2>1, RoomForChildren
    <2> QED
      BY <1>1, <2>2
  <1>7. x \in Part /\ Tree(p, a, Matches(q), Threads)
    <2> DEFINE n == Matches(q)
               threads == Threads
               before == pc[q]
               parts == arg[q]
    <2>1. /\ before \in [Node -> Place] /\ parts \in [Node -> Part]
          /\ n \in Nat /\ threads \in BOOLEAN /\ to \in Place
          /\ Tree(before, parts, n, threads)
          /\ parts[k].layer # LastLayer
          /\ \/ before[k] = "begin" /\ c = 2 * k /\ to = "half" /\ x = LeftArg(parts[k])
             \/ before[k] = "half" /\ c = 2 * k + 1 /\ to = "join" /\ x = RightArg(parts[k])
      BY <1>1, <1>2, <1>3, <1>4, <1>5 DEF Place
    <2> HIDE DEF n, threads, before, parts
    <2>2. /\ x \in Part
          /\ Tree([before EXCEPT ![k] = to, ![c] = "begin"], [parts EXCEPT ![c] = x], n, threads)
      BY <1>6, <2>1, SpawnTree
    <2> QED BY <2>2 DEF n, threads, before, parts
  <1>8. p \in [Node -> Place] /\ a \in [Node -> Part]
    BY <1>1, <1>2, <1>7 DEF Place
  <1>9. pc' = [pc EXCEPT ![q] = p] /\ arg' = [arg EXCEPT ![q] = a]
    BY <1>3 DEF Inv, Types
  <1> HIDE DEF p, a
  <1> QED BY <1>1, <1>2, <1>3, <1>7, <1>8, <1>9, WorkerStep

\* Waiting for both children keeps it.
LEMMA JoinStep ==
    ASSUME Inv, NEW q \in Request, NEW k \in Node, Join(q, k)
    PROVE  Inv'
  <1>1. ASSUME NEW j \in Node, Below(j, k), pc[q][j] # "none"
        PROVE  pc[q][j] = "done"
    <2>1. PICK c \in Node : c \in Children(k) /\ (j = c \/ Below(j, c))
      BY <1>1, BelowChild
    <2>2. pc[q][c] = "done"
      BY <2>1 DEF Join, Joined
    <2> QED BY <1>1, <2>1, <2>2 DEF Inv, RequestInOrder, Tree, Nested
  <1>2. /\ MayGo(pc[q], k, "merge") /\ Goes(q, k, "merge")
        /\ UNCHANGED <<fixed, main, i, stage, array, arg>>
    BY <1>1 DEF Join, At, MayGo
  <1>3. DOMAIN array = Request
    BY DEF Inv, Types
  <1> QED BY <1>2, <1>3, GoesStep

\* So does a merge.
LEMMA MergeStep ==
    ASSUME Inv, NEW q \in Request, NEW k \in Node, MergeParts(q, k)
    PROVE  Inv'
  <1>1. \A j \in Node : Below(j, k) /\ pc[q][j] # "none" => pc[q][j] = "done"
    BY DEF MergeParts, At, Inv, RequestInOrder, Tree, Nested
  <1>2. /\ MayGo(pc[q], k, "done") /\ Goes(q, k, "done")
        /\ UNCHANGED <<fixed, main, i, stage, arg>>
    BY <1>1 DEF MergeParts, At, MayGo
  <1>3. /\ DOMAIN array' = Request
        /\ \A r \in Request : DOMAIN array'[r].mv = DOMAIN array[r].mv
    BY SameLength, Rearranged DEF MergeParts, Inv, Types
  <1> QED BY <1>2, <1>3, GoesStep

\* A leaf finds no slot only if the request matches nothing.
LEMMA LeafHasSlots ==
    ASSUME Inv, NEW q \in Request, NEW k \in Node, Leaf(q, k),
           pc[q][k] \notin {"none", "done"},
           \/ arg[q][k].l = arg[q][k].r
           \/ Threads /\ Mid(arg[q][k]) \in {arg[q][k].l, arg[q][k].r}
    PROVE  Matches(q) = 0
  <1>1. Matches(q) \in Nat
    BY Sorting
  <1>2. arg[q][k].l \in Nat /\ arg[q][k].r \in Nat
    BY DEF Inv, Types, Part
  <1>3. Matches(q) # 1
    BY DEF Inv, RequestInOrder, Tree, Alone, Root
  <1>4. ~(Matches(q) >= 2)
    <2> SUFFICES ASSUME Matches(q) >= 2 PROVE FALSE
      OBVIOUS
    <2>1. arg[q][k].r - arg[q][k].l >= 2
      BY DEF Inv, RequestInOrder, Tree, Sized
    <2> QED BY <1>2, <2>1 DEF Mid
  <1> QED BY <1>1, <1>3, <1>4

\* So does a call of sort() by a leaf.
LEMMA LeafStep ==
    ASSUME Inv, NEW q \in Request, NEW k \in Node,
           SortRight(q, k) \/ SortLeft(q, k) \/ SortPart(q, k) \/ SortAll(q, k)
    PROVE  Inv'
  <1>1. /\ Leaf(q, k) /\ pc[q][k] \notin {"none", "done"}
        /\ \A to \in {"half", "merge", "done"} : MayGo(pc[q], k, to)
    BY NoneUnderLeaf DEF SortRight, SortLeft, SortPart, SortAll, At, MayGo
  <1>2. DOMAIN array = Request
    BY DEF Inv, Types
  <1>3. ASSUME NEW l, NEW r, NEW to \in {"half", "merge", "done"},
               SortSlots(q, k, l, r, to), l = r => Matches(q) = 0
        PROVE  Inv'
    <2>1. CASE l = r
      <3>1. main' = "crashed" /\ UNCHANGED <<fixed, i, stage, array, arg, pc>>
        BY <1>3, <2>1 DEF SortSlots, Crash
      <3>2. /\ pc[q] \in [Node -> Place] /\ arg[q] \in [Node -> Part]
            /\ pc' = [pc EXCEPT ![q] = pc[q]] /\ arg' = [arg EXCEPT ![q] = arg[q]]
        BY <3>1 DEF Inv, Types
      <3>3. Tree(pc[q], arg[q], Matches(q), Threads)
        BY DEF Inv, RequestInOrder
      <3> QED BY <1>1, <1>2, <1>3, <2>1, <3>1, <3>2, <3>3, WorkerStep
    <2>2. CASE l # r
      <3>1. /\ array' = [array EXCEPT ![q] = Sort(array[q], l, r)]
            /\ Goes(q, k, to)
            /\ UNCHANGED <<fixed, main, i, stage, arg>>
        BY <1>2, <1>3, <2>2 DEF SortSlots
      <3>2. /\ DOMAIN array' = Request
            /\ \A m \in Request : DOMAIN array'[m].mv = DOMAIN array[m].mv
        BY <1>2, <3>1, SameLength, Rearranged
      <3> QED BY <1>1, <3>1, <3>2, GoesStep
    <2> QED BY <2>1, <2>2
  <1>4. CASE SortRight(q, k)
    BY <1>1, <1>3, <1>4, LeafHasSlots DEF SortRight
  <1>5. CASE SortLeft(q, k)
    BY <1>1, <1>3, <1>5, LeafHasSlots DEF SortLeft
  <1>6. CASE SortPart(q, k)
    BY <1>1, <1>3, <1>6, LeafHasSlots DEF SortPart
  <1>7. CASE SortAll(q, k)
    <2>1. /\ array' = [array EXCEPT ![q] = Sort(array[q], arg[q][k].l, arg[q][k].r)]
          /\ Goes(q, k, "done")
          /\ UNCHANGED <<fixed, i, stage, arg>>
          /\ main' = "exited" \/ (main' = "crashed" /\ arg[q][k].l = arg[q][k].r)
      BY <1>2, <1>7 DEF SortAll
    <2>2. /\ DOMAIN array' = Request
          /\ \A m \in Request : DOMAIN array'[m].mv = DOMAIN array[m].mv
      BY <1>2, <2>1, SameLength, Rearranged
    <2>3. main' \in {main, "exited"} \/ (main' = "crashed" /\ Matches(q) = 0)
      BY <1>1, <2>1, LeafHasSlots
    <2> QED BY <1>1, <2>1, <2>2, <2>3, GoesStep
  <1> QED BY <1>4, <1>5, <1>6, <1>7

-----------------------------------------------------------------------------
(* The steps of main() and of the requests.                                 *)

\* The requests a run starts with are some of the inputs.
LEMMA InitInput ==
    ASSUME Init
    PROVE  build \in Builds /\ input \in Inputs
  <1>1. build \in Builds /\ input \in Cases[build]
    BY DEF Init
  <1>2. Cases[build] \in {Cases[b] : b \in Builds}
    BY <1>1
  <1> QED BY <1>1, <1>2 DEF Inputs

\* main() starts with the invariant.
LEMMA InitInv ==
    ASSUME Init
    PROVE  Inv
  <1>1. Root(0) \in Part
    BY RootType
  <1>2. Types
    BY <1>1, InitInput DEF Init, Types, Place
  <1>3. MainInOrder
    BY DEF Init, MainInOrder
  <1>4. ASSUME NEW q \in Request
        PROVE  RequestInOrder(q)
    <2>1. \A k \in Node : pc[q][k] = "none"
      BY DEF Init
    <2>2. stage[q] = "none"
      BY DEF Init
    <2>3. Tree(pc[q], arg[q], Matches(q), Threads)
      BY <2>1 DEF Tree, Bounded, Sized, Alone, Nested, Halved, Apart
    <2> QED BY <2>1, <2>2, <2>3 DEF RequestInOrder
  <1>5. CrashOnlyOnNothing
    BY DEF Init, CrashOnlyOnNothing
  <1> QED BY <1>2, <1>3, <1>4, <1>5 DEF Inv

\* A step that leaves the trees alone keeps what is said of the requests.
LEMMA RequestsKept ==
    ASSUME Inv, UNCHANGED <<fixed, array, arg, pc>>, NEW q \in Request,
           stage'[q] = stage[q] \/ (stage[q] = "none" /\ stage'[q] = "begin")
    PROVE  RequestInOrder(q)'
  <1>1. Matches(q)' = Matches(q) /\ Threads' = Threads
    BY DEF Matches, Threads, fixed
  <1> QED BY <1>1 DEF Inv, RequestInOrder

\* Reading the input keeps it.
LEMMA LoadStep ==
    ASSUME Inv, Load
    PROVE  Inv'
  <1>1. Types'
    BY SizeAssumption DEF Inv, Types, Load, fixed
  <1>2. input \in Seq(ReadRequest)
    BY CaseAssumption DEF Inv, Types
  <1>3. input # <<>> => 1 \in DOMAIN input /\ 0 < Len(input)
    BY <1>2
  <1>4. i = 0 /\ \A q \in Request : stage[q] = "none"
    BY DEF Inv, MainInOrder, Load
  <1>5. MainInOrder'
    <2>1. /\ main' # "load" /\ i' = 0 /\ input' = input /\ Threads' = Threads
          /\ main' = "loop" => Threads /\ input # <<>>
          /\ Threads => main' # "serve"
          /\ main' = "serve" => input # <<>>
      BY <1>4 DEF Load, Threads, BadInput, SecondNumber, ShortLine, fixed
    <2>2. /\ main' # "serve" => stage' = stage
          /\ \A q \in Request : stage'[q] # "none" => q = 1 /\ main' = "serve"
      BY <1>4 DEF Load, Inv, Types
    <2> QED BY <1>3, <1>4, <2>1, <2>2 DEF MainInOrder
  <1>6. \A q \in Request : RequestInOrder(q)'
    BY <1>4, RequestsKept DEF Load, Inv, Types
  <1>7. CrashOnlyOnNothing'
    BY DEF Load, CrashOnlyOnNothing, BadInput, SecondNumber, ShortLine, Threads, fixed
  <1> QED BY <1>1, <1>5, <1>6, <1>7 DEF Inv

\* So does starting a thread for the next request.
LEMMA CreateStep ==
    ASSUME Inv, CreateRequest
    PROVE  Inv'
  <1>1. Types'
    <2>1. i' \in Nat /\ stage' \in [Request -> {"none", "begin", "sort", "print", "done"}]
      <3>1. i' = i + 1 /\ stage' = [stage EXCEPT ![i + 1] = "begin"]
        BY DEF CreateRequest
      <3>2. i \in Nat /\ stage \in [Request -> {"none", "begin", "sort", "print", "done"}]
        BY DEF Inv, Types
      <3>3. \A n : [stage EXCEPT ![n] = "begin"] \in [Request -> {"none", "begin", "sort", "print", "done"}]
        BY <3>2
      <3>4. i' \in Nat
        BY <3>1, <3>2
      <3> QED BY <3>1, <3>3, <3>4
    <2>2. main' = "loop" \/ main' = "exited"
      <3>1. main = "loop" /\ main' = IF LoopEnds(i + 1) THEN "exited" ELSE main
        BY DEF CreateRequest
      <3> QED BY <3>1
    <2> QED BY <2>1, <2>2 DEF Inv, Types, CreateRequest, fixed
  <1>2. /\ Threads /\ Threads' = Threads /\ i \in Nat /\ i < Len(input)
        /\ input' = input /\ i' = i + 1
        /\ Len(input) \in Nat /\ DOMAIN input = 1 .. Len(input)
    BY CaseAssumption DEF Inv, Types, MainInOrder, CreateRequest, fixed, Threads
  <1>3. i + 1 \in DOMAIN input /\ i + 1 \in Request
    BY <1>2, CaseAssumption DEF Inv, Types
  <1>4. /\ stage'[i + 1] = "begin" /\ stage[i + 1] = "none"
        /\ \A q \in Request \ {i + 1} : stage'[q] = stage[q]
    BY <1>2, <1>3 DEF CreateRequest, Inv, Types, MainInOrder
  <1>5. MainInOrder'
    <2>1. main' = "loop" => i + 1 # Len(input)
      BY DEF CreateRequest, LoopEnds
    <2>2. main' # "load"
      BY DEF CreateRequest
    <2>3. \A q \in Request : q > i + 1 => stage'[q] = "none"
      BY <1>2, <1>4, SizeAssumption DEF Inv, MainInOrder
    <2>4. \A q \in Request : stage'[q] # "none" => q \in DOMAIN input
      BY <1>3, <1>4 DEF Inv, MainInOrder
    <2>5. main' = "loop" => i' < Len(input')
      <3> DEFINE len == Len(input)
      <3>1. main' = "loop" => i + 1 # len
        BY <2>1
      <3>2. i \in Nat /\ len \in Nat /\ i < len /\ Len(input') = len /\ i' = i + 1
        BY <1>2
      <3> HIDE DEF len
      <3> QED BY <3>1, <3>2
    <2>6. i' = i + 1 /\ input' = input /\ Threads'
      BY <1>2
    <2> QED BY <2>2, <2>3, <2>4, <2>5, <2>6 DEF MainInOrder
  <1>6. \A q \in Request : RequestInOrder(q)'
    BY <1>4, RequestsKept DEF CreateRequest
  <1>7. CrashOnlyOnNothing'
    BY DEF CreateRequest, CrashOnlyOnNothing
  <1> QED BY <1>1, <1>5, <1>6, <1>7 DEF Inv

\* So does printing the results of a request.
LEMMA PrintStep ==
    ASSUME Inv, NEW q \in Request, Flush(q) \/ PrintAnswer(q)
    PROVE  Inv'
  <1>1. Types'
    BY DEF Inv, Types, Flush, PrintAnswer, fixed
  <1>2. /\ stage[q] \in {"sort", "print"} /\ stage'[q] \in {"print", "done"}
        /\ pc[q][1] = "done"
        /\ \A r \in Request \ {q} : stage'[r] = stage[r]
        /\ UNCHANGED <<fixed, i, array, arg, pc>>
        /\ main' \in {main, "exited"} /\ main # "crashed"
    BY DEF Flush, PrintAnswer, Printing, Running, Inv, Types
  <1>3. MainInOrder'
    <2>1. Threads' = Threads /\ input' = input
      BY <1>2 DEF Threads, fixed
    <2> QED BY <1>2, <2>1 DEF Inv, MainInOrder
  <1>4. ASSUME NEW r \in Request
        PROVE  RequestInOrder(r)'
    <2>1. CASE r = q
      <3>1. Matches(r)' = Matches(r) /\ Threads' = Threads
        BY <1>2 DEF Matches, Threads, fixed
      <3> QED BY <1>2, <2>1, <3>1 DEF Inv, RequestInOrder
    <2>2. CASE r # q
      BY <1>2, <2>2, RequestsKept
    <2> QED BY <2>1, <2>2
  <1>5. CrashOnlyOnNothing'
    BY <1>2 DEF Inv, CrashOnlyOnNothing, BadInput, SecondNumber, ShortLine, Matches, Threads, fixed
  <1> QED BY <1>1, <1>3, <1>4, <1>5 DEF Inv

\* The tree of a request that is dealt with.
LEMMA DealTree ==
    ASSUME Inv, NEW q \in Request, Matches(q) \in Nat, Unused(pc[q]),
           NEW to \in {"begin", "done"}, FirstPlace(Matches(q), Threads, to)
    PROVE  Tree([pc[q] EXCEPT ![1] = to], [arg[q] EXCEPT ![1] = Root(Matches(q))],
                Matches(q), Threads)
  <1> DEFINE p2 == [pc[q] EXCEPT ![1] = to]
             a2 == [arg[q] EXCEPT ![1] = Root(Matches(q))]
  <1>1. /\ p2 \in [Node -> Place] /\ p2[1] = to
        /\ \A k \in Node : k # 1 => p2[k] = "none"
    BY DEF Inv, Types, Unused, Place, Node
  <1>2. a2 \in [Node -> Part] /\ a2[1] = Root(Matches(q))
    BY RootType DEF Inv, Types, Node
  <1>3. Threads \in BOOLEAN /\ FirstPlace(Matches(q), Threads, p2[1])
    BY <1>1 DEF Threads
  <1> HIDE DEF p2, a2
  <1>4. Tree(p2, a2, Matches(q), Threads)
    BY <1>1, <1>2, <1>3, StartTree
  <1> QED BY <1>4 DEF p2, a2

\* So does copying the matching movies and starting the first worker.
LEMMA DealStep ==
    ASSUME Inv, NEW q \in Request, Deal(q)
    PROVE  Inv'
  <1>0. PICK to \in {"begin", "done"} : \E b :
            /\ array' = [array EXCEPT ![q] = b]
            /\ DOMAIN b.mv = 0 .. Matches(q) - 1
            /\ pc' = [pc EXCEPT ![q][1] = to]
            /\ FirstPlace(Matches(q), Threads, to)
    <2>1. PICK dirty :
            LET a == Copies(input[q], dirty)
                alone == Threads /\ Single(Matches(q))
            IN /\ array' = [array EXCEPT ![q] = IF alone THEN Sort(a, 0, 1) ELSE a]
               /\ pc' = [pc EXCEPT ![q][1] = IF alone THEN "done" ELSE "begin"]
      BY DEF Deal
    <2> DEFINE a == Copies(input[q], dirty)
    <2>2. DOMAIN a.mv = 0 .. Matches(q) - 1
      BY DEF Copies, Matches
    <2>3. DOMAIN Sort(a, 0, 1).mv = DOMAIN a.mv
      BY SameLength
    <2> HIDE DEF a
    <2>4. CASE Threads /\ Single(Matches(q))
      <3>1. array' = [array EXCEPT ![q] = Sort(a, 0, 1)] /\ pc' = [pc EXCEPT ![q][1] = "done"]
        BY <2>1, <2>4 DEF a
      <3> QED BY <2>2, <2>3, <3>1 DEF FirstPlace
    <2>5. CASE ~(Threads /\ Single(Matches(q)))
      <3>1. array' = [array EXCEPT ![q] = a] /\ pc' = [pc EXCEPT ![q][1] = "begin"]
        BY <2>1, <2>5 DEF a
      <3>2. FirstPlace(Matches(q), Threads, "begin")
        BY <2>5 DEF Single, FirstPlace
      <3> QED BY <2>2, <3>1, <3>2
    <2> QED BY <2>4, <2>5
  <1>1. PICK b : /\ array' = [array EXCEPT ![q] = b]
                 /\ DOMAIN b.mv = 0 .. Matches(q) - 1
                 /\ pc' = [pc EXCEPT ![q][1] = to]
                 /\ FirstPlace(Matches(q), Threads, to)
    BY <1>0
  <1>2. /\ stage[q] = "begin" /\ stage'[q] = "sort"
        /\ \A r \in Request \ {q} : stage'[r] = stage[r]
        /\ arg' = [arg EXCEPT ![q][1] = Root(Matches(q))]
        /\ UNCHANGED <<fixed, main, i>>
    BY DEF Deal, Inv, Types
  <1>3. /\ q \in DOMAIN input /\ Matches(q) \in Nat
        /\ Unused(pc[q])
    BY <1>2, MatchesType DEF Inv, Types, MainInOrder, RequestInOrder, Unused
  <1>4. /\ Root(Matches(q)) \in Part
        /\ Tree([pc[q] EXCEPT ![1] = to], [arg[q] EXCEPT ![1] = Root(Matches(q))],
                Matches(q), Threads)
    BY <1>1, <1>3, DealTree, RootType
  <1>5. Types'
    <2>1. pc' \in [Request -> [Node -> Place]]
      <3>1. to \in Place /\ pc \in [Request -> [Node -> Place]]
        BY DEF Inv, Types, Place
      <3>2. [pc[q] EXCEPT ![1] = to] \in [Node -> Place]
        BY <3>1
      <3>3. pc' = [pc EXCEPT ![q] = [pc[q] EXCEPT ![1] = to]]
        BY <1>1
      <3> QED BY <3>1, <3>2, <3>3
    <2>2. arg' \in [Request -> [Node -> Part]]
      <3>1. arg \in [Request -> [Node -> Part]]
        BY DEF Inv, Types
      <3>2. [arg[q] EXCEPT ![1] = Root(Matches(q))] \in [Node -> Part]
        BY <1>4, <3>1
      <3>3. arg' = [arg EXCEPT ![q] = [arg[q] EXCEPT ![1] = Root(Matches(q))]]
        BY <1>2
      <3> QED BY <3>1, <3>2, <3>3
    <2>3. DOMAIN array' = Request
      BY <1>1 DEF Inv, Types
    <2>4. stage' \in [Request -> {"none", "begin", "sort", "print", "done"}]
      BY DEF Inv, Types, Deal
    <2> QED BY <1>2, <2>1, <2>2, <2>3, <2>4 DEF Inv, Types, fixed
  <1>6. MainInOrder'
    <2>1. Threads' = Threads /\ input' = input
      BY <1>2 DEF Threads, fixed
    <2> QED BY <1>2, <1>3, <2>1 DEF Inv, MainInOrder
  <1>7. ASSUME NEW r \in Request
        PROVE  RequestInOrder(r)'
    <2>1. Matches(r)' = Matches(r) /\ Threads' = Threads
      BY <1>2 DEF Matches, Threads, fixed
    <2>2. CASE r = q
      <3>1. /\ pc'[r] = [pc[q] EXCEPT ![1] = to] /\ array'[r] = b
            /\ arg'[r] = [arg[q] EXCEPT ![1] = Root(Matches(q))]
        BY <1>1, <1>2, <2>2 DEF Inv, Types
      <3> QED BY <1>1, <1>2, <1>4, <2>1, <2>2, <3>1 DEF RequestInOrder
    <2>3. CASE r # q
      <3>1. pc'[r] = pc[r] /\ arg'[r] = arg[r] /\ array'[r] = array[r] /\ stage'[r] = stage[r]
        BY <1>1, <1>2, <2>3 DEF Inv, Types
      <3> QED BY <2>1, <3>1 DEF Inv, RequestInOrder
    <2> QED BY <2>2, <2>3
  <1>8. CrashOnlyOnNothing'
    BY <1>2 DEF Inv, CrashOnlyOnNothing, BadInput, SecondNumber, ShortLine, Matches, Threads, fixed
  <1> QED BY <1>5, <1>6, <1>7, <1>8 DEF Inv

-----------------------------------------------------------------------------
(* The theorems.                                                            *)

\* Whatever the server does next, its trees stay sound.
LEMMA InvStep ==
    ASSUME Inv, [Next]_vars
    PROVE  Inv'
  <1>1. CASE UNCHANGED vars
    <2>1. /\ UNCHANGED <<build, input, flaw, main, i, stage, array, arg, pc>>
          /\ Threads' = Threads
      BY <1>1 DEF vars, Threads
    <2>2. \A q \in Request : Matches(q)' = Matches(q)
      BY <2>1 DEF Matches
    <2>3. Types' /\ MainInOrder'
      BY <2>1 DEF Inv, Types, MainInOrder
    <2>4. \A q \in Request : RequestInOrder(q)'
      BY <2>1, RequestsKept DEF fixed
    <2>5. CrashOnlyOnNothing'
      BY <2>1 DEF Inv, CrashOnlyOnNothing, BadInput, SecondNumber, ShortLine, Matches
    <2> QED BY <2>3, <2>4, <2>5 DEF Inv
  <1>2. CASE Load
    BY <1>2, LoadStep
  <1>3. CASE CreateRequest
    BY <1>3, CreateStep
  <1>4. ASSUME NEW q \in Request, Serve(q)
        PROVE  Inv'
    <2>1. CASE Deal(q)
      BY <2>1, DealStep
    <2>2. CASE Flush(q) \/ PrintAnswer(q)
      BY <2>2, PrintStep
    <2>3. ASSUME NEW k \in Node, Work(q, k)
          PROVE  Inv'
      <3>1. CASE SpawnLeft(q, k) \/ SpawnRight(q, k)
        BY <3>1, SpawnStep
      <3>2. CASE Join(q, k)
        BY <3>2, JoinStep
      <3>3. CASE MergeParts(q, k)
        BY <3>3, MergeStep
      <3>4. CASE SortRight(q, k) \/ SortLeft(q, k) \/ SortPart(q, k) \/ SortAll(q, k)
        BY <3>4, LeafStep
      <3> QED BY <2>3, <3>1, <3>2, <3>3, <3>4 DEF Work
    <2> QED BY <1>4, <2>1, <2>2, <2>3 DEF Serve
  <1> QED BY <1>1, <1>2, <1>3, <1>4 DEF Next, Terminated

\* In every run of merge_sort() and process_merge_sort(), the tree of every
\* request is sound: parts are nested as the workers are, each worker has as
\* many slots as the layers under it need, and none goes on before the workers
\* it waits for.
THEOREM TreesSound == Spec => []Inv
  <1>1. Init => Inv
    BY InitInv
  <1>2. Inv /\ [Next]_vars => Inv'
    BY InvStep
  <1> QED BY <1>1, <1>2, PTL DEF Spec

\* A busy worker has only slots that exist, and no slot of another one.
LEMMA InvRaceFree ==
    ASSUME Inv
    PROVE  RaceFree
  <1> SUFFICES ASSUME NEW q \in Request, NEW k \in Node, Busy(q, k)
               PROVE  /\ Slots(q, k) \subseteq DOMAIN array[q].mv
                      /\ stage[q] = "sort"
                      /\ \A j \in Node \ {k} :
                             Busy(q, j) => Slots(q, k) \cap Slots(q, j) = {}
    BY DEF RaceFree
  <1>1. ASSUME NEW j \in Node, Busy(q, j)
        PROVE  /\ pc[q][j] \in {"begin", "half", "merge"}
               /\ \A m \in Node : Below(m, j) => pc[q][m] \in {"none", "done"}
               /\ arg[q][j].l \in Nat /\ arg[q][j].r \in Nat
    BY <1>1 DEF Busy, Leaf, Inv, Types, RequestInOrder, Tree, Nested, Part
  <1>2. pc[q][k] \notin {"none", "done"}
    BY <1>1
  <1>3. stage[q] = "sort" /\ Matches(q) \in Nat
    BY <1>2, Sorting
  <1>4. Slots(q, k) \subseteq DOMAIN array[q].mv
    <2>1. arg[q][k].r <= Matches(q) /\ DOMAIN array[q].mv = 0 .. Matches(q) - 1
      BY <1>2, <1>3 DEF Inv, RequestInOrder, Tree, Bounded
    <2> QED BY <1>1, <1>3, <2>1 DEF Slots
  <1>5. ASSUME NEW j \in Node \ {k}, Busy(q, j)
        PROVE  Slots(q, k) \cap Slots(q, j) = {}
    <2>1. pc[q][j] \notin {"none", "done"} /\ ~Below(j, k) /\ ~Below(k, j)
      BY <1>1, <1>2, <1>5
    <2>2. arg[q][j].r <= arg[q][k].l \/ arg[q][k].r <= arg[q][j].l
      BY <1>2, <2>1 DEF Inv, RequestInOrder, Tree, Apart
    <2>3. /\ arg[q][j].l \in Nat /\ arg[q][j].r \in Nat
          /\ arg[q][k].l \in Nat /\ arg[q][k].r \in Nat
      BY <1>1, <1>5
    <2> QED BY <2>2, <2>3 DEF Slots
  <1> QED BY <1>3, <1>4, <1>5

\* The workers of merge_sort() and process_merge_sort() need no lock: no two
\* of them that may run at once touch the same slot, none leaves the arrays,
\* and the results are read only when all of them are done.
THEOREM NoRace == Spec => []RaceFree
  <1>1. Inv => RaceFree
    BY InvRaceFree
  <1> QED BY <1>1, TreesSound, PTL

\* The server goes down only for a request without a match or for bad input:
\* the choice of the layer in deal_request() and main() leaves no thread or
\* process without a slot to sort.
THEOREM CrashesExplained == Spec => []CrashOnlyOnNothing
  <1>1. Inv => CrashOnlyOnNothing
    BY DEF Inv
  <1> QED BY <1>1, TreesSound, PTL

-----------------------------------------------------------------------------
(* The copies of the matching titles.                                       *)

\* There is a movie for every place among the matches.
LEMMA NthMatches ==
    ASSUME NEW match, match \subseteq Film, NEW n \in Nat, n < Cardinality(match)
    PROVE  Nth(match, n) \in match /\ Cardinality({g \in match : g < Nth(match, n)}) = n
  <1> DEFINE R == {p \in match \X match : p[1] < p[2]}
  <1>1. IsFiniteSet(match)
    BY FilmAssumption, FS_Subset
  <1>2. \A f, g \in match : <<f, g>> \in R <=> f < g
    OBVIOUS
  <1>3. match \subseteq Nat
    BY FilmAssumption
  <1> HIDE DEF R
  <1>4. Ranks(R, match)
    <2>1. \A f \in match : f \in Int
      BY <1>3
    <2>2. \A f, g, h \in match : ~(f < f) /\ (f = g \/ f < g \/ g < f) /\ (f < g /\ g < h => f < h)
      BY <2>1
    <2> QED
      BY <1>2, <2>2 DEF Ranks
  <1>5. PICK f \in match : Cardinality(Ahead(R, match, f)) = n
    BY <1>1, <1>4, RankTaken DEF IsRank
  <1>6. Ahead(R, match, f) = {g \in match : g < f}
    BY <1>2 DEF Ahead
  <1>7. Cardinality({g \in match : g < f}) = n
    BY <1>5, <1>6
  <1> QED
    BY <1>7 DEF Nth

\* deal_request() copies every matching movie once, with its score.
LEMMA CopiesHold ==
    ASSUME NEW req \in ReadRequest, NEW dirty, NEW a, a = Copies(req, dirty),
           NEW n, n = Cardinality(req.match)
    PROVE  Holds(a, n, Film, req.match, req.score) /\ Fresh(a, 0, n)
  <1> DEFINE match == req.match
             score == req.score
  <1>1. match \subseteq Film /\ score \in [Film -> Nat]
    BY DEF ReadRequest
  <1>2. n \in Nat
    BY <1>1, FilmAssumption, FS_Subset, FS_CardinalityType
  <1>3. a = [mv |-> [k \in Slot(n) |-> String(Nth(match, k), IF k \in dirty THEN 1 ELSE 0)],
             sc |-> [k \in Slot(n) |-> score[Nth(match, k)]]]
    BY DEF Copies, Slot
  <1> HIDE DEF match, score
  <1>4. ASSUME NEW k \in Slot(n)
        PROVE  /\ k \in Nat /\ Nth(match, k) \in match
               /\ Cardinality({g \in match : g < Nth(match, k)}) = k
    <2>1. k \in Nat /\ k < n
      BY <1>2 DEF Slot
    <2> QED
      BY <1>1, <2>1, NthMatches DEF match
  <1>5. ASSUME NEW k \in Slot(n)
        PROVE  /\ a.mv[k] = String(Nth(match, k), IF k \in dirty THEN 1 ELSE 0)
               /\ a.mv[k] \in Strings(Film)
               /\ a.mv[k].film = Nth(match, k) /\ a.mv[k].secret = 0
               /\ a.sc[k] = score[Nth(match, k)] /\ a.sc[k] \in Nat
    <2>1. /\ a.mv[k] = String(Nth(match, k), IF k \in dirty THEN 1 ELSE 0)
          /\ a.sc[k] = score[Nth(match, k)]
      BY <1>3
    <2>2. Nth(match, k) \in Film
      BY <1>1, <1>4
    <2> QED
      BY <1>1, <2>1, <2>2 DEF String, Strings
  <1>6. IsArray(a, n, Film)
    BY <1>2, <1>3, <1>5, TitleAssumption DEF IsArray
  <1>7. \A u, v \in Slot(n) : a.mv[u].film = a.mv[v].film => u = v
    <2>1. \A k \in Slot(n) : a.mv[k].film = Nth(match, k)
      BY <1>5
    <2> DEFINE below(f) == Cardinality({g \in match : g < f})
    <2>2. \A k \in Slot(n) : below(Nth(match, k)) = k
      BY <1>4
    <2> HIDE DEF below
    <2> QED
      BY <2>1, <2>2
  <1>8. ASSUME NEW k \in Slot(n)
        PROVE  /\ a.mv[k].film \in match /\ a.sc[k] = score[a.mv[k].film]
               /\ a.mv[k].secret \in 0 .. 1
    <2>1. a.mv[k].film = Nth(match, k) /\ a.mv[k].secret = 0 /\ a.sc[k] = score[Nth(match, k)]
      BY <1>5
    <2>2. Nth(match, k) \in match
      BY <1>4
    <2> QED
      BY <2>1, <2>2
  <1>9. Holds(a, n, Film, match, score)
    BY <1>6, <1>7, <1>8 DEF Holds
  <1>10. Fresh(a, 0, n)
    BY <1>5 DEF Fresh, Slot
  <1> QED
    BY <1>9, <1>10 DEF match, score

-----------------------------------------------------------------------------
(* What the workers have made of the arrays.                                *)

\* A worker that waits for its children has given them the halves of its part.
Handed(p, a) ==
    \A k, c \in Node :
        /\ p[k] = "join" => a[k].layer # LastLayer
        /\ (c = 2 * k /\ p[k] \in {"half", "join"} /\ a[k].layer # LastLayer) =>
               a[c] = LeftArg(a[k])
        /\ (c = 2 * k + 1 /\ p[k] = "join") => a[c] = RightArg(a[k])

\* A worker with part x that has come to a place has made this of arrays b.
WorkDone(where, x, b) ==
    /\ where = "begin" => Fresh(b, x.l, x.r)
    /\ where = "half" /\ x.layer # LastLayer => Fresh(b, Mid(x), x.r)
    /\ where = "half" /\ x.layer = LastLayer =>
           Fresh(b, x.l, Mid(x)) /\ Ready(b, Mid(x), x.r)
    /\ where = "merge" => Ready(b, x.l, Mid(x)) /\ Ready(b, Mid(x), x.r)
    /\ where = "done" => Ready(b, x.l, x.r)

\* All workers of a tree.
AllDone(p, a, b) == \A k \in Node : WorkDone(p[k], a[k], b)

\* The arrays of a request hold its movies from the moment they are copied,
\* and all of them are the part of the first worker.
DataOf(q) ==
    /\ stage[q] \in {"none", "begin"} =>
           DOMAIN array[q].mv = {} /\ DOMAIN array[q].sc = {}
    /\ stage[q] \in {"sort", "print", "done"} =>
           /\ Holds(array[q], Matches(q), Film, input[q].match, input[q].score)
           /\ arg[q][1].l = 0 /\ arg[q][1].r = Matches(q)
    /\ Handed(pc[q], arg[q])
    /\ AllDone(pc[q], arg[q], array[q])

DataInv == flaw \in {"none", "number", "genres"} /\ \A q \in Request : DataOf(q)

\* The middle of a part.
LEMMA Middle ==
    ASSUME NEW x \in Part, x.l <= x.r
    PROVE  Mid(x) \in Nat /\ x.l <= Mid(x) /\ Mid(x) <= x.r
  BY DEF Part, Mid

\* The workers under one that has put its part in order are no exception.
LEMMA PartsBelow ==
    ASSUME NEW p \in [Node -> Place], NEW a \in [Node -> Part],
           NEW n, NEW threads, Tree(p, a, n, threads),
           NEW k \in Node, NEW new, Ready(new, a[k].l, a[k].r),
           NEW j \in Node, Below(j, k), p[j] # "none"
    PROVE  Ready(new, a[j].l, a[j].r)
  <1>1. a[k].l <= a[j].l /\ a[j].r <= a[k].r
    BY DEF Tree, Nested
  <1>2. /\ a[j].l \in Nat /\ a[j].r \in Nat /\ a[k].l \in Nat /\ a[k].r \in Nat
    BY DEF Part
  <1>3. PICK u, v, u0, v0 : u = a[j].l /\ v = a[j].r /\ u0 = a[k].l /\ v0 = a[k].r
    OBVIOUS
  <1>4. /\ u \in Nat /\ v \in Nat /\ u0 \in Nat /\ v0 \in Nat
        /\ u0 <= u /\ v <= v0 /\ Ready(new, u0, v0)
    BY <1>1, <1>2, <1>3
  <1>5. Ready(new, u, v)
    BY <1>4, PartOfPart
  <1> QED
    BY <1>3, <1>5

\* The workers under worker k have ended and left their parts in order.
Ended(p, a, b, k) ==
    \A j \in Node : (Below(j, k) /\ p[j] # "none") =>
        p[j] = "done" /\ Ready(b, a[j].l, a[j].r)

\* What a worker k does to the slots l .. r - 1 of its own part does not undo
\* what others have done, when those under it have ended.
LEMMA OthersKept ==
    ASSUME NEW p \in [Node -> Place], NEW a \in [Node -> Part],
           NEW n \in Nat, NEW threads \in BOOLEAN, Tree(p, a, n, threads),
           NEW b, NEW new, AllDone(p, a, b),
           NEW k \in Node, NEW l \in Nat, NEW r \in Nat, Keeps(new, b, n, l, r),
           a[k].l <= l, r <= a[k].r, p[k] \notin {"none", "done"},
           Ended(p, a, new, k),
           NEW j \in Node, j # k
    PROVE  WorkDone(p[j], a[j], new)
  <1>1. CASE p[j] = "none"
    BY <1>1 DEF WorkDone
  <1>2. /\ a[j].l \in Nat /\ a[j].r \in Nat /\ a[k].l \in Nat /\ a[k].r \in Nat
        /\ p[j] # "none" => a[j].l <= a[j].r /\ a[j].r <= n
    BY DEF Part, Tree, Bounded
  <1>3. CASE p[j] # "none" /\ Below(j, k)
    BY <1>3 DEF WorkDone, Ended
  <1>4. p[j] # "none" => Mid(a[j]) \in Nat /\ a[j].l <= Mid(a[j]) /\ Mid(a[j]) <= a[j].r
    BY <1>2, Middle
  <1>5. WorkDone(p[j], a[j], b)
    BY DEF AllDone
  <1>6. CASE p[j] # "none" /\ Below(k, j)
    <2>1. p[j] \in {"half", "join"} /\ a[j].layer # LastLayer
      BY <1>6 DEF Tree, Nested
    <2>2. CASE p[j] = "join"
      BY <2>1, <2>2 DEF WorkDone
    <2>3. CASE p[j] = "half"
      <3>1. PICK c \in Node : c \in Children(j) /\ (k = c \/ Below(k, c))
        BY <1>6, BelowChild
      <3>2. p[c] # "none" /\ a[k].r <= a[c].r
        BY <1>2, <3>1 DEF Tree, Nested
      <3>3. c = 2 * j
        BY <2>3, <3>1, <3>2 DEF Tree, Halved, Children
      <3>4. a[c].r <= Mid(a[j])
        BY <3>2, <3>3 DEF Tree, Halved
      <3>5. a[c].r \in Nat
        BY DEF Part
      <3>6. r <= Mid(a[j])
        BY <1>2, <1>4, <1>6, <3>2, <3>4, <3>5
      <3>7. Fresh(b, Mid(a[j]), a[j].r)
        BY <1>5, <2>1, <2>3 DEF WorkDone
      <3>8. Fresh(new, Mid(a[j]), a[j].r)
        BY <1>2, <1>4, <1>6, <3>6, <3>7, KeptPart
      <3> QED
        BY <2>1, <2>3, <3>8 DEF WorkDone
    <2> QED
      BY <2>1, <2>2, <2>3
  <1>7. CASE p[j] # "none" /\ ~Below(j, k) /\ ~Below(k, j)
    <2>1. a[j].r <= a[k].l \/ a[k].r <= a[j].l
      BY <1>7 DEF Tree, Apart
    <2>2. a[j].r <= l \/ r <= a[j].l
      BY <1>2, <2>1
    <2> DEFINE mid == Mid(a[j])
    <2>3. /\ mid \in Nat /\ a[j].l <= mid /\ mid <= a[j].r /\ mid <= n /\ a[j].r <= n
          /\ mid <= l \/ r <= a[j].l
          /\ a[j].r <= l \/ r <= mid
      BY <1>2, <1>4, <1>7, <2>2
    <2> HIDE DEF mid
    <2>4. /\ Fresh(b, a[j].l, a[j].r) => Fresh(new, a[j].l, a[j].r)
          /\ Ready(b, a[j].l, a[j].r) => Ready(new, a[j].l, a[j].r)
      BY <1>2, <2>2, <2>3, KeptPart
    <2>5. /\ Fresh(b, mid, a[j].r) => Fresh(new, mid, a[j].r)
          /\ Ready(b, mid, a[j].r) => Ready(new, mid, a[j].r)
      BY <1>2, <2>3, KeptPart
    <2>6. /\ Fresh(b, a[j].l, mid) => Fresh(new, a[j].l, mid)
          /\ Ready(b, a[j].l, mid) => Ready(new, a[j].l, mid)
      BY <1>2, <2>3, KeptPart
    <2> QED
      BY <1>5, <2>4, <2>5, <2>6 DEF WorkDone, mid
  <1> QED
    BY <1>1, <1>3, <1>6, <1>7

-----------------------------------------------------------------------------
(* What the steps do to the data.                                           *)

\* Before the first step there is none.
LEMMA InitData ==
    ASSUME Init
    PROVE  DataInv
  <1> SUFFICES ASSUME NEW q \in Request PROVE DataOf(q)
    BY DEF Init, DataInv
  <1>1. /\ stage[q] = "none" /\ \A k \in Node : pc[q][k] = "none"
        /\ array[q] = Copies([match |-> {}, score |-> <<>>], {})
    BY DEF Init
  <1>2. Cardinality({}) = 0
    BY FS_EmptySet
  <1>3. DOMAIN array[q].mv = 0 .. 0 - 1 /\ DOMAIN array[q].sc = 0 .. 0 - 1
    BY <1>1, <1>2 DEF Copies
  <1>4. 0 .. 0 - 1 = {}
    OBVIOUS
  <1>5. Handed(pc[q], arg[q]) /\ AllDone(pc[q], arg[q], array[q])
    BY <1>1 DEF Handed, AllDone, WorkDone
  <1> QED
    BY <1>1, <1>3, <1>4, <1>5 DEF DataOf

\* A request whose arrays and workers are left alone.
LEMMA DataStays ==
    ASSUME DataInv, UNCHANGED fixed, NEW q \in Request,
           array'[q] = array[q], pc'[q] = pc[q], arg'[q] = arg[q],
           \/ stage'[q] = stage[q]
           \/ stage[q] = "none" /\ stage'[q] = "begin"
           \/ stage[q] \in {"sort", "print"} /\ stage'[q] \in {"print", "done"}
    PROVE  DataOf(q)'
  <1>1. Matches(q)' = Matches(q) /\ input' = input
    BY DEF Matches, fixed
  <1>2. DataOf(q)
    BY DEF DataInv
  <1> QED
    BY <1>1, <1>2 DEF DataOf

\* A worker that does its part of the work without a new child.
LEMMA WorkData ==
    ASSUME Inv, DataInv, NEW q \in Request, NEW k \in Node,
           pc[q][k] \notin {"none", "done"},
           NEW to \in {"half", "merge", "done"}, Goes(q, k, to),
           to = "half" => Leaf(q, k),
           UNCHANGED <<fixed, stage, arg>>,
           NEW new, array'[q] = new, \A m \in Request \ {q} : array'[m] = array[m],
           Holds(new, Matches(q), Film, input[q].match, input[q].score),
           NEW l \in Nat, NEW r \in Nat, Keeps(new, array[q], Matches(q), l, r),
           arg[q][k].l <= l, r <= arg[q][k].r,
           Ended(pc[q], arg[q], new, k),
           WorkDone(to, arg[q][k], new)
    PROVE  DataInv'
  <1>1. /\ pc \in [Request -> [Node -> Place]] /\ arg \in [Request -> [Node -> Part]]
        /\ DOMAIN array = Request /\ Threads \in BOOLEAN
    BY DEF Inv, Types, Threads
  <1>2. stage[q] = "sort" /\ Matches(q) \in Nat
    BY Sorting
  <1>3. Tree(pc[q], arg[q], Matches(q), Threads)
    BY DEF Inv, RequestInOrder
  <1>4. Handed(pc[q], arg[q]) /\ AllDone(pc[q], arg[q], array[q])
    BY DEF DataInv, DataOf
  <1>5. /\ array'[q] = new /\ arg'[q] = arg[q] /\ pc'[q][k] = to
        /\ \A j \in Node \ {k} : pc'[q][j] = pc[q][j]
        /\ stage'[q] = "sort"
    BY <1>1, <1>2 DEF Goes
  <1>6. ASSUME NEW j \in Node, j # k
        PROVE  WorkDone(pc[q][j], arg[q][j], new)
    <2> DEFINE p == pc[q]
               a == arg[q]
               b == array[q]
               n == Matches(q)
               threads == Threads
    <2>1. /\ p \in [Node -> Place] /\ a \in [Node -> Part] /\ n \in Nat /\ threads \in BOOLEAN
          /\ Tree(p, a, n, threads) /\ AllDone(p, a, b) /\ Keeps(new, b, n, l, r)
          /\ a[k].l <= l /\ r <= a[k].r /\ p[k] \notin {"none", "done"}
      BY <1>1, <1>2, <1>3, <1>4
    <2>2. Ended(p, a, new, k)
      OBVIOUS
    <2> HIDE DEF p, a, b, n, threads
    <2>3. WorkDone(p[j], a[j], new)
      BY <1>6, <2>1, <2>2, OthersKept
    <2> QED
      BY <2>3 DEF p, a
  <1>7. AllDone(pc'[q], arg[q], new)
    BY <1>5, <1>6 DEF AllDone
  <1>8. Handed(pc'[q], arg[q])
    <2> SUFFICES ASSUME NEW m \in Node, NEW c \in Node
                 PROVE  /\ pc'[q][m] = "join" => arg[q][m].layer # LastLayer
                        /\ (c = 2 * m /\ pc'[q][m] \in {"half", "join"}
                              /\ arg[q][m].layer # LastLayer) =>
                               arg[q][c] = LeftArg(arg[q][m])
                        /\ (c = 2 * m + 1 /\ pc'[q][m] = "join") =>
                               arg[q][c] = RightArg(arg[q][m])
      BY DEF Handed
    <2>1. CASE m = k
      BY <1>5, <2>1 DEF Leaf
    <2>2. CASE m # k
      BY <1>4, <1>5, <2>2 DEF Handed
    <2> QED
      BY <2>1, <2>2
  <1>9. Matches(q)' = Matches(q) /\ input' = input
    BY DEF Matches, fixed
  <1>10. DataOf(q)'
    BY <1>2, <1>5, <1>7, <1>8, <1>9 DEF DataInv, DataOf
  <1>11. ASSUME NEW m \in Request, m # q
         PROVE  DataOf(m)'
    <2>1. array'[m] = array[m] /\ pc'[m] = pc[m] /\ arg'[m] = arg[m] /\ stage'[m] = stage[m]
      BY <1>1, <1>11 DEF Goes
    <2> QED
      BY <2>1, DataStays
  <1>12. flaw' \in {"none", "number", "genres"}
    BY DEF DataInv, fixed
  <1> QED
    BY <1>10, <1>11, <1>12 DEF DataInv

\* Where a worker that is not done finds itself.
LEMMA Worker ==
    ASSUME Inv, DataInv, NEW q \in Request, NEW k \in Node, pc[q][k] \notin {"none", "done"}
    PROVE  /\ Matches(q) \in Nat /\ arg[q][k] \in Part
           /\ arg[q][k].l \in Nat /\ arg[q][k].r \in Nat /\ Mid(arg[q][k]) \in Nat
           /\ arg[q][k].l <= Mid(arg[q][k]) /\ Mid(arg[q][k]) <= arg[q][k].r
           /\ arg[q][k].l <= arg[q][k].r /\ arg[q][k].r <= Matches(q)
           /\ Holds(array[q], Matches(q), Film, input[q].match, input[q].score)
           /\ WorkDone(pc[q][k], arg[q][k], array[q])
           /\ pc[q] \in [Node -> Place] /\ arg[q] \in [Node -> Part]
           /\ Tree(pc[q], arg[q], Matches(q), Threads)
  <1>1. Matches(q) \in Nat /\ stage[q] = "sort"
    BY Sorting
  <1>2. /\ arg[q] \in [Node -> Part] /\ pc[q] \in [Node -> Place]
        /\ Tree(pc[q], arg[q], Matches(q), Threads)
    BY DEF Inv, Types, RequestInOrder
  <1>3. /\ arg[q][k] \in Part /\ arg[q][k].l \in Nat /\ arg[q][k].r \in Nat
        /\ arg[q][k].l <= arg[q][k].r /\ arg[q][k].r <= Matches(q)
    BY <1>2 DEF Part, Tree, Bounded
  <1>4. /\ Holds(array[q], Matches(q), Film, input[q].match, input[q].score)
        /\ WorkDone(pc[q][k], arg[q][k], array[q])
    BY <1>1 DEF DataInv, DataOf, AllDone
  <1> QED
    BY <1>1, <1>2, <1>3, <1>4, Middle

\* A merge puts the part in order.
LEMMA MergeData ==
    ASSUME Inv, DataInv, NEW q \in Request, NEW k \in Node, MergeParts(q, k)
    PROVE  DataInv'
  <1> DEFINE x == arg[q][k]
             b == array[q]
             n == Matches(q)
             new == Merge(b, x.l, Mid(x), x.r)
  <1>1. /\ pc[q][k] = "merge" /\ Goes(q, k, "done")
        /\ array'[q] = new /\ \A m \in Request \ {q} : array'[m] = array[m]
        /\ UNCHANGED <<fixed, stage, arg>>
    <2>1. DOMAIN array = Request
      BY DEF Inv, Types
    <2> QED
      BY <2>1 DEF MergeParts, At
  <1>2. /\ n \in Nat /\ x.l \in Nat /\ x.r \in Nat /\ Mid(x) \in Nat
        /\ x.l <= Mid(x) /\ Mid(x) <= x.r /\ x.r <= n
        /\ Holds(b, n, Film, input[q].match, input[q].score)
        /\ WorkDone("merge", x, b)
        /\ pc[q] \in [Node -> Place] /\ arg[q] \in [Node -> Part]
        /\ Tree(pc[q], arg[q], n, Threads)
    BY <1>1, Worker
  <1>3. Ready(b, x.l, Mid(x)) /\ Ready(b, Mid(x), x.r)
    BY <1>2 DEF WorkDone
  <1>4. PICK l, mid, r, match, score :
            /\ l = x.l /\ mid = Mid(x) /\ r = x.r
            /\ match = input[q].match /\ score = input[q].score
    OBVIOUS
  <1>5. new = Merge(b, l, mid, r)
    BY <1>4
  <1>6. PICK to : to = "done"
    OBVIOUS
  <1> HIDE DEF x, b, n, new
  <1>7. /\ l \in Nat /\ mid \in Nat /\ r \in Nat /\ l <= mid /\ mid <= r /\ r <= n
        /\ Holds(b, n, Film, match, score) /\ Ready(b, l, mid) /\ Ready(b, mid, r)
    BY <1>2, <1>3, <1>4
  <1>8. Holds(new, n, Film, match, score) /\ Ready(new, l, r) /\ Keeps(new, b, n, l, r)
    BY <1>5, <1>7, MergeDoes
  <1>9. Ended(pc[q], arg[q], new, k)
    <2>1. Ready(new, arg[q][k].l, arg[q][k].r)
      BY <1>4, <1>8 DEF x
    <2>2. ASSUME NEW j \in Node, Below(j, k), pc[q][j] # "none"
          PROVE  Ready(new, arg[q][j].l, arg[q][j].r)
      BY <1>2, <2>1, <2>2, PartsBelow
    <2>3. \A j \in Node : Below(j, k) /\ pc[q][j] # "none" => pc[q][j] = "done"
      BY <1>1, <1>2 DEF Tree, Nested
    <2> QED
      BY <2>2, <2>3 DEF Ended
  <1>10. WorkDone(to, x, new)
    BY <1>4, <1>6, <1>8 DEF WorkDone
  <1>11. x.l <= l /\ r <= x.r
    BY <1>2, <1>4
  <1> QED
    BY <1>1, <1>4, <1>6, <1>7, <1>8, <1>9, <1>10, <1>11, WorkData DEF x, b, n

\* The halves are in order when both children have been joined.
LEMMA JoinData ==
    ASSUME Inv, DataInv, NEW q \in Request, NEW k \in Node, Join(q, k)
    PROVE  DataInv'
  <1> DEFINE x == arg[q][k]
             b == array[q]
             n == Matches(q)
  <1>1. /\ pc[q][k] = "join" /\ Goes(q, k, "merge") /\ array' = array
        /\ UNCHANGED <<fixed, stage, arg>> /\ Joined(q, k)
    BY DEF Join, At
  <1>2. /\ n \in Nat /\ x.l \in Nat /\ x.r \in Nat /\ x.l <= x.r
        /\ Holds(b, n, Film, input[q].match, input[q].score)
        /\ pc[q] \in [Node -> Place] /\ arg[q] \in [Node -> Part]
        /\ Tree(pc[q], arg[q], n, Threads)
    BY <1>1, Worker
  <1>3. Handed(pc[q], arg[q]) /\ AllDone(pc[q], arg[q], b)
    BY DEF DataInv, DataOf
  <1>4. x.layer # LastLayer
    BY <1>1, <1>3 DEF Handed
  <1>5. 2 * k \in Node /\ 2 * k + 1 \in Node
    <2>1. pc[q][k] # "none" /\ Tree(pc[q], arg[q], n, Threads)
      BY <1>1, <1>2
    <2> QED
      BY <1>2, <1>4, <2>1, RoomForChildren
  <1>6. /\ pc[q][2 * k] = "done" /\ pc[q][2 * k + 1] = "done"
        /\ arg[q][2 * k] = LeftArg(x) /\ arg[q][2 * k + 1] = RightArg(x)
    BY <1>1, <1>3, <1>4, <1>5 DEF Joined, Children, Handed
  <1>7. Ready(b, LeftArg(x).l, LeftArg(x).r) /\ Ready(b, RightArg(x).l, RightArg(x).r)
    BY <1>3, <1>5, <1>6 DEF AllDone, WorkDone
  <1>8. Ready(b, x.l, Mid(x)) /\ Ready(b, Mid(x), x.r)
    BY <1>7 DEF LeftArg, RightArg
  <1>9. Ended(pc[q], arg[q], b, k)
    <2> SUFFICES ASSUME NEW j \in Node, Below(j, k), pc[q][j] # "none"
                 PROVE  pc[q][j] = "done" /\ Ready(b, arg[q][j].l, arg[q][j].r)
      BY DEF Ended
    <2>1. PICK c \in Node : c \in Children(k) /\ (j = c \/ Below(j, c))
      BY BelowChild
    <2>2. pc[q][c] = "done"
      BY <1>6, <2>1 DEF Children
    <2>3. pc[q][j] = "done"
      BY <1>2, <2>1, <2>2 DEF Tree, Nested
    <2> QED
      BY <1>3, <2>3 DEF AllDone, WorkDone
  <1>10. PICK to, l, r : to = "merge" /\ l = x.l /\ r = x.r
    OBVIOUS
  <1>11. WorkDone(to, x, b)
    BY <1>8, <1>10 DEF WorkDone
  <1>12. Keeps(b, b, n, l, r)
    BY DEF Keeps
  <1>13. array'[q] = b /\ \A m \in Request \ {q} : array'[m] = array[m]
    BY <1>1
  <1>14. l \in Nat /\ r \in Nat /\ x.l <= l /\ r <= x.r
    BY <1>2, <1>10
  <1> QED
    BY <1>1, <1>2, <1>9, <1>10, <1>11, <1>12, <1>13, <1>14, WorkData

\* A call of sort() by a leaf, on slots of its part that are fresh.
LEMMA SortData ==
    ASSUME Inv, DataInv, NEW q \in Request, NEW k \in Node,
           pc[q][k] \notin {"none", "done"}, Leaf(q, k),
           NEW to \in {"half", "merge", "done"}, Goes(q, k, to),
           UNCHANGED <<fixed, stage, arg>>,
           NEW l \in Nat, NEW r \in Nat, l <= r, arg[q][k].l <= l, r <= arg[q][k].r,
           Fresh(array[q], l, r),
           NEW new, new = Sort(array[q], l, r),
           array'[q] = new, \A m \in Request \ {q} : array'[m] = array[m],
           Ready(new, l, r) /\ Keeps(new, array[q], Matches(q), l, r)
               => WorkDone(to, arg[q][k], new)
    PROVE  DataInv'
  <1> DEFINE b == array[q]
             n == Matches(q)
  <1>1. /\ n \in Nat /\ arg[q][k].r \in Nat /\ arg[q][k].r <= n
        /\ Holds(b, n, Film, input[q].match, input[q].score)
    BY Worker
  <1>2. PICK match, score : match = input[q].match /\ score = input[q].score
    OBVIOUS
  <1>3. Holds(b, n, Film, match, score) /\ r <= n
    BY <1>1, <1>2
  <1> HIDE DEF b, n
  <1>4. new = Sort(b, l, r) /\ Fresh(b, l, r)
    BY DEF b
  <1>5. Holds(new, n, Film, match, score) /\ Ready(new, l, r) /\ Keeps(new, b, n, l, r)
    BY <1>3, <1>4, SortDoes
  <1>6. Ended(pc[q], arg[q], new, k)
    BY NoneUnderLeaf DEF Ended
  <1>7. /\ Holds(new, Matches(q), Film, input[q].match, input[q].score)
        /\ Keeps(new, array[q], Matches(q), l, r) /\ WorkDone(to, arg[q][k], new)
    BY <1>2, <1>5 DEF b, n
  <1> QED
    BY <1>6, <1>7, WorkData

\* A thread of the last layer sorts one half and then the other, a process all.
LEMMA LeafData ==
    ASSUME Inv, DataInv, NEW q \in Request, NEW k \in Node,
           SortRight(q, k) \/ SortLeft(q, k) \/ SortPart(q, k) \/ SortAll(q, k)
    PROVE  DataInv'
  <1> DEFINE x == arg[q][k]
             b == array[q]
             mid == Mid(x)
  <1>1. Leaf(q, k) /\ pc[q][k] \in {"begin", "half"} /\ DOMAIN array = Request
    BY DEF SortRight, SortLeft, SortPart, SortAll, At, Inv, Types
  <1>2. /\ x.l \in Nat /\ x.r \in Nat /\ mid \in Nat
        /\ x.l <= mid /\ mid <= x.r /\ x.l <= x.r
        /\ WorkDone(pc[q][k], x, b) /\ x.layer = LastLayer
        /\ Matches(q) \in Nat /\ x.r <= Matches(q)
    BY <1>1, Worker DEF Leaf
  <1>3. pc[q][k] = "begin" => /\ Fresh(b, x.l, x.r)
                              /\ Fresh(b, x.l, mid) /\ Fresh(b, mid, x.r)
    <2>1. Fresh(b, x.l, x.r) => Fresh(b, x.l, mid) /\ Fresh(b, mid, x.r)
      BY <1>2 DEF Fresh
    <2> QED
      BY <1>2, <2>1 DEF WorkDone
  <1>4. pc[q][k] = "half" => Fresh(b, x.l, mid) /\ Ready(b, mid, x.r)
    BY <1>2 DEF WorkDone
  <1>5. PICK l, r, m, n : l = x.l /\ r = x.r /\ m = mid /\ n = Matches(q)
    OBVIOUS
  <1>6. /\ l \in Nat /\ r \in Nat /\ m \in Nat /\ n \in Nat
        /\ l <= m /\ m <= r /\ l <= r /\ r <= n
    BY <1>2, <1>5
  <1> HIDE DEF x, b, mid
  <1>7. CASE SortAll(q, k) \/ (SortPart(q, k) /\ l # r)
    <2>1. PICK new, to : new = Sort(b, l, r) /\ to = "done"
      OBVIOUS
    <2>2. /\ array'[q] = new /\ \A p \in Request \ {q} : array'[p] = array[p]
          /\ Goes(q, k, to) /\ UNCHANGED <<fixed, stage, arg>> /\ pc[q][k] = "begin"
      BY <1>1, <1>5, <1>7, <2>1 DEF SortAll, SortPart, SortSlots, At, x, b
    <2>3. Ready(new, l, r) => WorkDone(to, x, new)
      BY <1>5, <2>1 DEF WorkDone
    <2>4. Fresh(b, l, r)
      BY <1>3, <1>5, <2>2
    <2> QED
      BY <1>1, <1>5, <1>6, <2>1, <2>2, <2>3, <2>4, SortData DEF x, b
  <1>8. CASE SortRight(q, k) /\ m # r
    <2>1. PICK new, to : new = Sort(b, m, r) /\ to = "half"
      OBVIOUS
    <2>2. /\ array'[q] = new /\ \A p \in Request \ {q} : array'[p] = array[p]
          /\ Goes(q, k, to) /\ UNCHANGED <<fixed, stage, arg>> /\ pc[q][k] = "begin"
      BY <1>1, <1>5, <1>8, <2>1 DEF SortRight, SortSlots, At, x, b, mid
    <2>3. Fresh(b, l, m) /\ Fresh(b, m, r)
      BY <1>3, <1>5, <2>2
    <2>4. ASSUME Ready(new, m, r), Keeps(new, b, n, m, r)
          PROVE  WorkDone(to, x, new)
      <3>1. m <= n
        BY <1>6
      <3>2. Fresh(new, l, m)
        BY <1>6, <2>3, <2>4, <3>1, KeptPart
      <3> QED
        BY <1>2, <1>5, <2>1, <2>4, <3>2 DEF WorkDone, mid
    <2>5. Ready(new, m, r) /\ Keeps(new, array[q], Matches(q), m, r)
              => WorkDone(to, arg[q][k], new)
      BY <1>5, <2>4 DEF b, x
    <2> QED
      BY <1>1, <1>5, <1>6, <2>1, <2>2, <2>3, <2>5, SortData DEF x, b
  <1>9. CASE SortLeft(q, k) /\ l # m
    <2>1. PICK new, to : new = Sort(b, l, m) /\ to = "merge"
      OBVIOUS
    <2>2. /\ array'[q] = new /\ \A p \in Request \ {q} : array'[p] = array[p]
          /\ Goes(q, k, to) /\ UNCHANGED <<fixed, stage, arg>> /\ pc[q][k] = "half"
      BY <1>1, <1>5, <1>9, <2>1 DEF SortLeft, SortSlots, At, x, b, mid
    <2>3. Fresh(b, l, m) /\ Ready(b, m, r)
      BY <1>4, <1>5, <2>2
    <2>4. ASSUME Ready(new, l, m), Keeps(new, b, n, l, m)
          PROVE  WorkDone(to, x, new)
      <3>1. Ready(new, m, r)
        BY <1>6, <2>3, <2>4, KeptPart
      <3> QED
        BY <1>2, <1>5, <2>1, <2>4, <3>1 DEF WorkDone, mid
    <2>5. Ready(new, l, m) /\ Keeps(new, array[q], Matches(q), l, m)
              => WorkDone(to, arg[q][k], new)
      BY <1>5, <2>4 DEF b, x
    <2> QED
      BY <1>1, <1>5, <1>6, <2>1, <2>2, <2>3, <2>5, SortData DEF x, b
  <1>10. CASE \/ SortPart(q, k) /\ l = r
              \/ SortRight(q, k) /\ m = r
              \/ SortLeft(q, k) /\ l = m
    <2>1. UNCHANGED <<fixed, stage, arg, array, pc>>
      BY <1>5, <1>10 DEF SortPart, SortRight, SortLeft, SortSlots, Crash, x, mid
    <2>2. \A p \in Request : DataOf(p)'
      BY <2>1, DataStays
    <2> QED
      BY <2>1, <2>2 DEF DataInv, fixed
  <1> QED
    BY <1>7, <1>8, <1>9, <1>10

\* A new worker finds its half as fresh as its parent found the whole.
LEMMA SpawnData ==
    ASSUME Inv, DataInv, NEW q \in Request, NEW k \in Node,
           SpawnLeft(q, k) \/ SpawnRight(q, k)
    PROVE  DataInv'
  <1> DEFINE x == arg[q][k]
             b == array[q]
             mid == Mid(x)
  <1>1. PICK c, from, to, y :
            /\ Spawn(q, k, c, from, to, y)
            /\ \/ c = 2 * k /\ from = "begin" /\ to = "half" /\ y = LeftArg(x)
               \/ c = 2 * k + 1 /\ from = "half" /\ to = "join" /\ y = RightArg(x)
    BY DEF SpawnLeft, SpawnRight
  <1>2. /\ pc[q][k] = from /\ x.layer # LastLayer
        /\ pc' = [pc EXCEPT ![q][k] = to, ![q][c] = "begin"]
        /\ arg' = [arg EXCEPT ![q][c] = y]
        /\ UNCHANGED <<fixed, main, i, stage, array>>
    BY <1>1 DEF Spawn, At, Leaf
  <1>3. /\ pc[q][k] \notin {"none", "done"} /\ c \in Nat /\ c # k
        /\ pc \in [Request -> [Node -> Place]] /\ arg \in [Request -> [Node -> Part]]
    BY <1>1, <1>2 DEF Inv, Types, Node
  <1>4. /\ x.l \in Nat /\ x.r \in Nat /\ mid \in Nat /\ x.l <= mid /\ mid <= x.r
        /\ WorkDone(from, x, b) /\ arg[q] \in [Node -> Part] /\ pc[q] \in [Node -> Place]
        /\ Tree(pc[q], arg[q], Matches(q), Threads) /\ Matches(q) \in Nat
    BY <1>2, <1>3, Worker
  <1>5. c \in Node
    <2>1. pc[q][k] # "none" /\ Tree(pc[q], arg[q], Matches(q), Threads)
      BY <1>3, <1>4
    <2>2. 2 * k \in Node /\ 2 * k + 1 \in Node
      BY <1>2, <1>4, <2>1, RoomForChildren
    <2> QED
      BY <1>1, <2>2
  <1>6. /\ pc'[q][k] = to /\ pc'[q][c] = "begin"
        /\ \A j \in Node \ {k, c} : pc'[q][j] = pc[q][j]
        /\ arg'[q][c] = y /\ \A j \in Node \ {c} : arg'[q][j] = arg[q][j]
        /\ array'[q] = b
    BY <1>2, <1>3, <1>5
  <1>7. Handed(pc[q], arg[q]) /\ AllDone(pc[q], arg[q], b)
    BY DEF DataInv, DataOf
  <1>8. Fresh(b, mid, x.r) /\ (from = "begin" => Fresh(b, x.l, mid))
    <2>1. Fresh(b, x.l, x.r) => Fresh(b, x.l, mid) /\ Fresh(b, mid, x.r)
      BY <1>4 DEF Fresh
    <2> QED
      BY <1>1, <1>2, <1>4, <2>1 DEF WorkDone
  <1>9. Fresh(b, y.l, y.r)
    BY <1>1, <1>8 DEF LeftArg, RightArg
  <1>10. AllDone(pc'[q], arg'[q], b)
    <2> SUFFICES ASSUME NEW j \in Node
                 PROVE  WorkDone(pc'[q][j], arg'[q][j], b)
      BY DEF AllDone
    <2>1. CASE j = c
      BY <1>6, <1>9, <2>1 DEF WorkDone
    <2>2. CASE j = k
      <3>1. pc'[q][j] \in {"half", "join"} /\ arg'[q][j] = x
        BY <1>1, <1>3, <1>6, <2>2
      <3> QED
        BY <1>2, <1>8, <3>1 DEF WorkDone
    <2>3. CASE j # c /\ j # k
      <3>1. pc'[q][j] = pc[q][j] /\ arg'[q][j] = arg[q][j]
        BY <1>6, <2>3
      <3> QED
        BY <1>7, <3>1 DEF AllDone
    <2> QED
      BY <2>1, <2>2, <2>3
  <1>11. Handed(pc'[q], arg'[q])
    <2> SUFFICES ASSUME NEW m \in Node, NEW d \in Node
                 PROVE  /\ pc'[q][m] = "join" => arg'[q][m].layer # LastLayer
                        /\ (d = 2 * m /\ pc'[q][m] \in {"half", "join"}
                              /\ arg'[q][m].layer # LastLayer) =>
                               arg'[q][d] = LeftArg(arg'[q][m])
                        /\ (d = 2 * m + 1 /\ pc'[q][m] = "join") =>
                               arg'[q][d] = RightArg(arg'[q][m])
      BY DEF Handed
    <2>1. d \in Children(m) => d # m
      BY DEF Children, Node
    <2>2. CASE m = k
      <3>1. arg'[q][m] = x /\ pc'[q][m] = to
        BY <1>3, <1>6, <2>2
      <3>2. CASE to = "half"
        <4>1. c = 2 * k /\ y = LeftArg(x)
          BY <1>1, <3>2
        <4> QED
          BY <1>6, <2>2, <3>1, <3>2, <4>1
      <3>3. CASE to = "join"
        <4>1. c = 2 * k + 1 /\ y = RightArg(x) /\ from = "half"
          BY <1>1, <3>3
        <4>2. d = 2 * m => d # c
          BY <2>2, <4>1 DEF Node
        <4>3. d = 2 * m => arg[q][d] = LeftArg(x)
          BY <1>2, <1>7, <2>2, <4>1 DEF Handed
        <4> QED
          BY <1>2, <1>6, <2>2, <3>1, <4>1, <4>2, <4>3
      <3> QED
        BY <1>1, <3>2, <3>3
    <2>3. CASE m = c
      BY <1>6, <2>3
    <2>4. CASE m # k /\ m # c
      <3>1. pc'[q][m] = pc[q][m] /\ arg'[q][m] = arg[q][m]
        BY <1>6, <2>4
      <3>2. (d = 2 * m \/ d = 2 * m + 1) => d # c
        BY <1>1, <2>4 DEF Node
      <3> QED
        BY <1>6, <1>7, <3>1, <3>2 DEF Handed
    <2> QED
      BY <2>2, <2>3, <2>4
  <1>12. Matches(q)' = Matches(q) /\ input' = input
    BY <1>2 DEF Matches, fixed
  <1>13. DataOf(q)'
    <2>1. stage[q] = "sort"
      BY <1>3, Sorting
    <2>2. 1 # c /\ 1 \in Node
      BY <1>1 DEF Node
    <2>3. arg'[q][1] = arg[q][1]
      BY <1>6, <2>2
    <2> QED
      BY <1>2, <1>6, <1>10, <1>11, <1>12, <2>1, <2>3 DEF DataInv, DataOf
  <1>14. ASSUME NEW m \in Request, m # q
         PROVE  DataOf(m)'
    <2>1. array'[m] = array[m] /\ pc'[m] = pc[m] /\ arg'[m] = arg[m] /\ stage'[m] = stage[m]
      BY <1>2, <1>3, <1>14
    <2> QED
      BY <1>2, <2>1, DataStays
  <1> QED
    BY <1>2, <1>13, <1>14 DEF DataInv, fixed

\* The copies are what the first worker starts with; a single one is sorted.
LEMMA DealData ==
    ASSUME Inv, DataInv, NEW q \in Request, Deal(q)
    PROVE  DataInv'
  <1>1. /\ stage[q] = "begin" /\ stage'[q] = "sort"
        /\ \A m \in Request \ {q} : stage'[m] = stage[m]
        /\ arg' = [arg EXCEPT ![q][1] = Root(Matches(q))]
        /\ UNCHANGED <<fixed, main, i>>
    BY DEF Deal, Inv, Types
  <1>2. /\ q \in DOMAIN input /\ Matches(q) \in Nat /\ Unused(pc[q])
        /\ input[q] \in ReadRequest
    BY <1>1, MatchesType, CaseAssumption DEF Inv, Types, MainInOrder, RequestInOrder, Unused
  <1> DEFINE n == Matches(q)
             match == input[q].match
             score == input[q].score
  <1>3. PICK dirty :
            LET a == Copies(input[q], dirty)
                alone == Threads /\ Single(n)
            IN /\ array' = [array EXCEPT ![q] = IF alone THEN Sort(a, 0, 1) ELSE a]
               /\ pc' = [pc EXCEPT ![q][1] = IF alone THEN "done" ELSE "begin"]
    BY DEF Deal
  <1>4. PICK req, a : req = input[q] /\ a = Copies(req, dirty)
    OBVIOUS
  <1>5. Holds(a, n, Film, match, score) /\ Fresh(a, 0, n)
    <2>1. req \in ReadRequest /\ n = Cardinality(req.match)
      BY <1>2, <1>4 DEF Matches
    <2>2. Holds(a, n, Film, req.match, req.score) /\ Fresh(a, 0, n)
      BY <1>4, <2>1, CopiesHold
    <2> QED
      BY <1>4, <2>2
  <1>6. \E b, to : /\ array' = [array EXCEPT ![q] = b] /\ pc' = [pc EXCEPT ![q][1] = to]
                   /\ to \in {"begin", "done"} /\ Holds(b, n, Film, match, score)
                   /\ WorkDone(to, Root(n), b)
    <2>1. CASE Threads /\ Single(n)
      <3>1. PICK b, l, r : b = Sort(a, l, r) /\ l = 0 /\ r = 1
        OBVIOUS
      <3>2. n = 1 /\ l \in Nat /\ r \in Nat /\ l <= r /\ r <= n
        BY <2>1, <3>1 DEF Single
      <3> HIDE DEF n, match, score
      <3>3. Fresh(a, l, r)
        BY <1>5, <3>1, <3>2
      <3>4. Holds(b, n, Film, match, score) /\ Ready(b, l, r)
        BY <1>5, <3>1, <3>2, <3>3, SortDoes
      <3>5. WorkDone("done", Root(n), b)
        BY <3>1, <3>2, <3>4 DEF WorkDone, Root
      <3>6. array' = [array EXCEPT ![q] = b] /\ pc' = [pc EXCEPT ![q][1] = "done"]
        BY <1>3, <1>4, <2>1, <3>1
      <3> QED
        BY <3>4, <3>5, <3>6
    <2>2. CASE ~(Threads /\ Single(n))
      <3>1. array' = [array EXCEPT ![q] = a] /\ pc' = [pc EXCEPT ![q][1] = "begin"]
        BY <1>3, <1>4, <2>2
      <3>2. WorkDone("begin", Root(n), a)
        BY <1>5 DEF WorkDone, Root
      <3> QED
        BY <1>5, <3>1, <3>2
    <2> QED
      BY <2>1, <2>2
  <1>7. PICK b, to :
            /\ array' = [array EXCEPT ![q] = b] /\ pc' = [pc EXCEPT ![q][1] = to]
            /\ to \in {"begin", "done"} /\ Holds(b, n, Film, match, score)
            /\ WorkDone(to, Root(n), b)
    BY <1>6
  <1>8. /\ DOMAIN array = Request /\ pc \in [Request -> [Node -> Place]]
        /\ arg \in [Request -> [Node -> Part]] /\ 1 \in Node
    BY DEF Inv, Types, Node
  <1>9. /\ array'[q] = b /\ pc'[q][1] = to /\ arg'[q][1] = Root(n)
        /\ \A k \in Node \ {1} : pc'[q][k] = "none"
    BY <1>1, <1>2, <1>7, <1>8 DEF Unused
  <1>10. Matches(q)' = Matches(q) /\ input' = input
    BY <1>1 DEF Matches, fixed
  <1>11. AllDone(pc'[q], arg'[q], b)
    <2>1. \A k \in Node : k = 1 \/ pc'[q][k] = "none"
      BY <1>9
    <2> HIDE DEF n
    <2> QED
      BY <1>7, <1>9, <2>1 DEF AllDone, WorkDone
  <1>12. Handed(pc'[q], arg'[q])
    <2>1. \A k \in Node : pc'[q][k] \in {"none", "begin", "done"}
      BY <1>7, <1>9
    <2> QED
      BY <2>1 DEF Handed
  <1>13. DataOf(q)'
    <2>1. arg'[q][1].l = 0 /\ arg'[q][1].r = n
      BY <1>9 DEF Root
    <2> QED
      BY <1>1, <1>7, <1>9, <1>10, <1>11, <1>12, <2>1 DEF DataOf
  <1>14. ASSUME NEW m \in Request, m # q
         PROVE  DataOf(m)'
    <2>1. array'[m] = array[m] /\ pc'[m] = pc[m] /\ arg'[m] = arg[m] /\ stage'[m] = stage[m]
      BY <1>1, <1>7, <1>8, <1>14
    <2> QED
      BY <1>1, <2>1, DataStays
  <1> QED
    BY <1>1, <1>13, <1>14 DEF DataInv, fixed

\* Whatever the server does next keeps the data.
LEMMA DataStep ==
    ASSUME Inv, DataInv, [Next]_vars
    PROVE  DataInv'
  <1>1. ASSUME UNCHANGED <<fixed, array, pc, arg>>,
               \A q \in Request : \/ stage'[q] = stage[q]
                                  \/ stage[q] = "none" /\ stage'[q] = "begin"
                                  \/ /\ stage[q] \in {"sort", "print"}
                                     /\ stage'[q] \in {"print", "done"}
        PROVE  DataInv'
    <2>1. \A q \in Request : DataOf(q)'
      BY <1>1, DataStays
    <2> QED
      BY <1>1, <2>1 DEF DataInv, fixed
  <1>2. CASE UNCHANGED vars
    BY <1>1, <1>2 DEF vars, fixed
  <1>3. CASE Load
    <2>1. \A q \in Request : stage[q] = "none" /\ (stage'[q] = "begin" \/ stage'[q] = stage[q])
      BY <1>3 DEF Load, Inv, Types, MainInOrder
    <2> QED
      BY <1>1, <1>3, <2>1 DEF Load
  <1>4. CASE CreateRequest
    <2>1. \A q \in Request : q = i + 1 => stage[q] = "none"
      <3>1. Threads /\ i \in Nat
        BY <1>4 DEF CreateRequest, Inv, Types, MainInOrder
      <3>2. i + 1 > i
        BY <3>1
      <3> QED
        BY <3>1, <3>2 DEF Inv, MainInOrder
    <2>2. stage' = [stage EXCEPT ![i + 1] = "begin"] /\ DOMAIN stage = Request
      BY <1>4 DEF CreateRequest, Inv, Types
    <2>3. \A q \in Request : stage'[q] = IF q = i + 1 THEN "begin" ELSE stage[q]
      BY <2>2
    <2> QED
      BY <1>1, <1>4, <2>1, <2>3 DEF CreateRequest
  <1>5. ASSUME NEW q \in Request, Serve(q)
        PROVE  DataInv'
    <2>1. CASE Flush(q) \/ PrintAnswer(q)
      <3>1. \A m \in Request : \/ stage'[m] = stage[m]
                               \/ /\ stage[m] \in {"sort", "print"}
                                  /\ stage'[m] \in {"print", "done"}
        BY <2>1 DEF Flush, PrintAnswer, Printing, Inv, Types
      <3> QED
        BY <1>1, <2>1, <3>1 DEF Flush, PrintAnswer
    <2>2. CASE Deal(q)
      BY <2>2, DealData
    <2>3. ASSUME NEW k \in Node, Work(q, k)
          PROVE  DataInv'
      <3>1. CASE SpawnLeft(q, k) \/ SpawnRight(q, k)
        BY <3>1, SpawnData
      <3>2. CASE Join(q, k)
        BY <3>2, JoinData
      <3>3. CASE MergeParts(q, k)
        BY <3>3, MergeData
      <3>4. CASE SortRight(q, k) \/ SortLeft(q, k) \/ SortPart(q, k) \/ SortAll(q, k)
        BY <3>4, LeafData
      <3> QED
        BY <2>3, <3>1, <3>2, <3>3, <3>4 DEF Work
    <2> QED
      BY <1>5, <2>1, <2>2, <2>3 DEF Serve
  <1> QED
    BY <1>2, <1>3, <1>4, <1>5 DEF Next, Terminated

\* In every run the arrays of a request hold its matches, and every worker
\* leaves the slots of its part as the place it has come to says.
THEOREM DataInvariant == Spec => [](Inv /\ DataInv)
  <1>1. Init => Inv /\ DataInv
    BY InitInv, InitData
  <1>2. Inv /\ DataInv /\ [Next]_vars => Inv' /\ DataInv'
    BY InvStep, DataStep
  <1> QED
    BY <1>1, <1>2, PTL DEF Spec

\* The variables of the servers keep to the values of their C types, the
\* films and secrets of the copied titles among them.
THEOREM RecommendTypes == Spec => []TypeOK
  <1>1. Inv /\ DataInv => TypeOK
    <2> SUFFICES ASSUME Inv, DataInv PROVE TypeOK
      OBVIOUS
    <2>1. /\ build \in Builds /\ input \in Inputs /\ flaw \in {"none", "number", "genres"}
          /\ main \in {"load", "loop", "serve", "exited", "crashed"}
          /\ i \in Nat
          /\ stage \in [Request -> {"none", "begin", "sort", "print", "done"}]
          /\ arg \in [Request -> [Node -> Part]]
          /\ pc \in [Request -> [Node -> Place]]
      BY DEF Inv, Types, DataInv
    <2>2. ASSUME NEW q \in Request
          PROVE  /\ DOMAIN array[q].mv = DOMAIN array[q].sc
                 /\ \A n \in DOMAIN array[q].mv : /\ array[q].mv[n].film \in Film
                                                  /\ array[q].mv[n].secret \in 0 .. 1
      <3>1. CASE stage[q] \in {"none", "begin"}
        BY <3>1 DEF DataInv, DataOf
      <3>2. CASE stage[q] \in {"sort", "print", "done"}
        <4>1. Holds(array[q], Matches(q), Film, input[q].match, input[q].score)
          BY <3>2 DEF DataInv, DataOf
        <4>2. /\ DOMAIN array[q].mv = Slot(Matches(q)) /\ DOMAIN array[q].sc = Slot(Matches(q))
              /\ array[q].mv \in [Slot(Matches(q)) -> Strings(Film)]
          BY <4>1 DEF Holds, IsArray
        <4> QED
          BY <4>1, <4>2 DEF Holds, Strings
      <3> QED
        BY <2>1, <3>1, <3>2
    <2> QED
      BY <2>1, <2>2 DEF TypeOK, Part, Place
  <1> QED
    BY <1>1, DataInvariant, PTL

\* A worker of merge_sort() or process_merge_sort() that is done leaves its
\* part in order, every title with the score of its movie and one secret, and
\* no worker above, beside or below it undoes that.
THEOREM PartsStaySorted == Spec => []PartsSorted
  <1>1. Inv /\ DataInv => PartsSorted
    <2> SUFFICES ASSUME Inv, DataInv, NEW q \in Request, NEW k \in Node, pc[q][k] = "done",
                        NEW n \in Slots(q, k)
                 PROVE  /\ array[q].mv[n].secret = 1
                        /\ array[q].sc[n] = input[q].score[array[q].mv[n].film]
                        /\ \A m \in Slots(q, k) : m < n => InOrder(array[q], m, n)
      BY DEF PartsSorted
    <2>1. Ready(array[q], arg[q][k].l, arg[q][k].r)
      BY DEF DataInv, DataOf, AllDone, WorkDone
    <2>2. stage[q] \in {"sort", "print", "done"}
      BY DEF Inv, Types, RequestInOrder
    <2>3. /\ Holds(array[q], Matches(q), Film, input[q].match, input[q].score)
          /\ Matches(q) \in Nat
      BY <2>2 DEF DataInv, DataOf, Holds, IsArray
    <2>4. arg[q][k].l \in Nat /\ arg[q][k].r \in Nat /\ arg[q][k].r <= Matches(q)
      BY DEF Inv, Types, Part, RequestInOrder, Tree, Bounded
    <2>5. n \in Slot(Matches(q))
      BY <2>3, <2>4 DEF Slots, Slot
    <2>6. array[q].sc[n] = input[q].score[array[q].mv[n].film]
      BY <2>3, <2>5 DEF Holds
    <2> QED
      BY <2>1, <2>6 DEF Ready, Sorted, Slots
  <1> QED
    BY <1>1, DataInvariant, PTL

\* No merge and no sort of the workers loses or doubles a matching movie,
\* however their steps interleave.
THEOREM NothingLost == Spec => []NoneLost
  <1>1. Inv /\ DataInv => NoneLost
    <2> SUFFICES ASSUME Inv, DataInv, NEW q \in Request, stage[q] \in {"sort", "print", "done"}
                 PROVE  LET films == {array[q].mv[n].film : n \in DOMAIN array[q].mv}
                        IN /\ films = input[q].match
                           /\ Cardinality(DOMAIN array[q].mv) = Cardinality(films)
      BY DEF NoneLost
    <2>1. Holds(array[q], Matches(q), Film, input[q].match, input[q].score)
      BY DEF DataInv, DataOf
    <2>2. q \in DOMAIN input /\ input \in Inputs
      BY DEF Inv, Types, MainInOrder
    <2>3. input[q].match \subseteq Film
      <3>1. input[q] \in ReadRequest
        BY <2>2, CaseAssumption
      <3> QED
        BY <3>1 DEF ReadRequest
    <2>4. IsFiniteSet(input[q].match)
      BY <2>3, FilmAssumption, FS_Subset
    <2>5. PICK match, n, a, score : /\ match = input[q].match /\ n = Matches(q)
                                    /\ a = array[q] /\ score = input[q].score
      OBVIOUS
    <2>6. IsFiniteSet(match) /\ n = Cardinality(match) /\ Holds(a, n, Film, match, score)
      BY <2>1, <2>4, <2>5 DEF Matches
    <2>7. match = {a.mv[s].film : s \in Slot(n)}
      BY <2>6, AllHeld
    <2>8. n \in Nat /\ DOMAIN a.mv = Slot(n)
      BY <2>6 DEF Holds, IsArray
    <2>9. Cardinality(DOMAIN a.mv) = n
      BY <2>8, SlotCount
    <2> QED
      BY <2>5, <2>6, <2>7, <2>8, <2>9
  <1> QED
    BY <1>1, DataInvariant, PTL

-----------------------------------------------------------------------------
(* The answers.                                                             *)

\* A request has no file before it is dealt with, and whole lines in it while
\* its results are printed.
FileOf(q) == /\ stage[q] \in {"none", "begin"} => file[q] = NoFile
             /\ stage[q] \in {"sort", "print"} => file[q] \in Seq(Strings(Film))
FileInv == DOMAIN file = Request /\ \A q \in Request : FileOf(q)

\* A sequence has one length.
LEMMA SameEnd ==
    ASSUME NEW k \in Nat, NEW n \in Nat, 1 .. k = 1 .. n
    PROVE  k = n
  <1>1. k # 0 => k \in 1 .. n
    OBVIOUS
  <1>2. n # 0 => n \in 1 .. k
    OBVIOUS
  <1> QED
    BY <1>1, <1>2

\* The lines of an array are its titles.
LEMMA LinesOf ==
    ASSUME NEW a, NEW n, NEW match, NEW score, Holds(a, n, Film, match, score)
    PROVE  /\ Lines(a) \in Seq(Strings(Film)) /\ Len(Lines(a)) = n /\ n \in Nat
           /\ \A k \in 1 .. n : k - 1 \in Slot(n) /\ Lines(a)[k] = a.mv[k - 1]
  <1>1. n \in Nat /\ DOMAIN a.mv = Slot(n) /\ a.mv \in [Slot(n) -> Strings(Film)]
    BY DEF Holds, IsArray
  <1>2. Lines(a) = [k \in 1 .. n |-> a.mv[k - 1]]
    BY <1>1, SlotCount DEF Lines
  <1> DEFINE f == Lines(a)
  <1>3. \A k \in 1 .. n : k - 1 \in Slot(n) /\ f[k] = a.mv[k - 1] /\ f[k] \in Strings(Film)
    BY <1>1, <1>2 DEF Slot
  <1>4. DOMAIN f = 1 .. n /\ f = [k \in 1 .. n |-> f[k]]
    BY <1>2
  <1> HIDE DEF f
  <1>5. f \in Seq(Strings(Film))
    BY <1>1, <1>3, <1>4
  <1>6. Len(f) = n
    <2>1. Len(f) \in Nat /\ DOMAIN f = 1 .. Len(f)
      BY <1>5
    <2> QED
      BY <1>1, <1>4, <2>1, SameEnd
  <1> QED
    BY <1>1, <1>3, <1>5, <1>6 DEF f

\* The first lines of a file.
LEMMA Beginning ==
    ASSUME NEW S, NEW f \in Seq(S), NEW m \in 0 .. Len(f)
    PROVE  /\ SubSeq(f, 1, m) \in Seq(S) /\ Len(SubSeq(f, 1, m)) = m
           /\ \A k \in 1 .. m : SubSeq(f, 1, m)[k] = f[k]
  <1>1. \A k \in 1 .. m : f[k] \in S
    OBVIOUS
  <1>2. /\ SubSeq(f, 1, m) \in Seq(S)
        /\ Len(SubSeq(f, 1, m)) = IF 1 <= m THEN m - 1 + 1 ELSE 0
        /\ \A k \in 1 .. m - 1 + 1 : SubSeq(f, 1, m)[k] = f[1 + k - 1]
    BY <1>1, SubSeqProperties
  <1>3. m \in Nat /\ m - 1 + 1 = m /\ \A k \in 1 .. m : 1 + k - 1 = k
    OBVIOUS
  <1> QED
    BY <1>2, <1>3

\* What the reader of a file makes of one line, and of all of them.
Entry(str) == [title |-> Title[str.film], secret |-> str.secret]
Entries == [title : Nat, secret : Nat]
LEMMA AnswerOf ==
    ASSUME NEW f \in Seq(Strings(Film))
    PROVE  /\ AnswerIn(f) \in Seq(Entries) /\ Len(AnswerIn(f)) = Len(f)
           /\ \A k \in 1 .. Len(f) : AnswerIn(f)[k] = Entry(f[k])
  <1>1. f # NoFile
    BY ValueAssumption DEF Strings
  <1>2. Len(f) \in Nat /\ DOMAIN f = 1 .. Len(f)
    OBVIOUS
  <1>3. AnswerIn(f) = [k \in 1 .. Len(f) |-> Entry(f[k])]
    BY <1>1, <1>2 DEF AnswerIn, Entry
  <1>4. \A k \in 1 .. Len(f) : Entry(f[k]) \in Entries
    <2> SUFFICES ASSUME NEW k \in 1 .. Len(f)
                 PROVE  Entry(f[k]) \in Entries
      OBVIOUS
    <2>1. f[k] \in Strings(Film)
      OBVIOUS
    <2>2. f[k].film \in Film /\ f[k].secret \in Nat
      BY <2>1 DEF Strings
    <2> QED
      BY <2>2, TitleAssumption DEF Entry, Entries
  <1> DEFINE g == AnswerIn(f)
  <1>5. g = [k \in 1 .. Len(f) |-> g[k]] /\ \A k \in 1 .. Len(f) : g[k] = Entry(f[k])
    BY <1>3
  <1> HIDE DEF g
  <1>6. g \in Seq(Entries)
    BY <1>2, <1>4, <1>5
  <1>7. Len(g) = Len(f)
    <2>1. Len(g) \in Nat /\ DOMAIN g = 1 .. Len(g) /\ DOMAIN g = 1 .. Len(f)
      BY <1>5, <1>6
    <2> QED
      BY <1>2, <2>1, SameEnd
  <1> QED
    BY <1>5, <1>6, <1>7 DEF g

\* What is printed of sorted arrays is the ranking, and its beginning when only
\* the first lines have been written.
LEMMA PrintsRanking ==
    ASSUME NEW match, match \subseteq Film, NEW score \in [Film -> Nat],
           NEW n, n = Cardinality(match), NEW a, Holds(a, n, Film, match, score),
           Ready(a, 0, n)
    PROVE  /\ AnswerIn(Lines(a)) = Ranked(match, score)
           /\ n \in Nat /\ Len(Ranked(match, score)) = n
           /\ \A m \in 0 .. n :
                  AnswerIn(SubSeq(Lines(a), 1, m)) = SubSeq(Ranked(match, score), 1, m)
  <1> DEFINE f == Lines(a)
             R == Ranked(match, score)
  <1>1. /\ f \in Seq(Strings(Film)) /\ Len(f) = n /\ n \in Nat
        /\ \A k \in 1 .. n : k - 1 \in Slot(n) /\ f[k] = a.mv[k - 1]
    BY LinesOf
  <1>2. DOMAIN R = 1 .. n /\ R = [k \in 1 .. n |-> R[k]]
    BY DEF Ranked
  <1>3. ASSUME NEW k \in 1 .. n
        PROVE  R[k] = Entry(f[k])
    <2>1. PICK s \in Slot(n) : s = k - 1 /\ k = s + 1
      BY <1>1
    <2>2. IsFiniteSet(match) /\ Film \subseteq Nat
      BY FilmAssumption, FS_Subset
    <2>3. Sorted(a, 0, n) /\ f[k] = a.mv[s] /\ a.mv[s].secret = 1
      BY <1>1, <2>1 DEF Ready, Slot
    <2>4. R[k] = Line(a.mv[s].film)
      <3>1. SortedHolds(a, n, Film, match, score)
        BY <2>2, <2>3 DEF SortedHolds
      <3> QED
        BY <2>1, <3>1, RankedTitle
    <2> QED
      BY <2>3, <2>4 DEF Line, Entry
  <1> HIDE DEF f, R
  <1>4. /\ AnswerIn(f) \in Seq(Entries) /\ Len(AnswerIn(f)) = n
        /\ \A k \in 1 .. n : AnswerIn(f)[k] = Entry(f[k])
    BY <1>1, AnswerOf
  <1>5. R = AnswerIn(f)
    <2>1. AnswerIn(f) = [k \in 1 .. n |-> AnswerIn(f)[k]]
      BY <1>4
    <2>2. \A k \in 1 .. n : R[k] = AnswerIn(f)[k]
      BY <1>3, <1>4
    <2> QED
      BY <1>2, <2>1, <2>2
  <1>6. ASSUME NEW m \in 0 .. n
        PROVE  AnswerIn(SubSeq(f, 1, m)) = SubSeq(R, 1, m)
    <2> DEFINE g == SubSeq(f, 1, m)
               h == SubSeq(R, 1, m)
    <2>1. g \in Seq(Strings(Film)) /\ Len(g) = m /\ \A k \in 1 .. m : g[k] = f[k]
      BY <1>1, Beginning
    <2>2. h \in Seq(Entries) /\ Len(h) = m /\ \A k \in 1 .. m : h[k] = R[k]
      BY <1>4, <1>5, Beginning
    <2> HIDE DEF g, h
    <2>3. /\ AnswerIn(g) \in Seq(Entries) /\ Len(AnswerIn(g)) = m
          /\ \A k \in 1 .. m : AnswerIn(g)[k] = Entry(g[k])
      BY <2>1, AnswerOf
    <2>4. \A k \in 1 .. m : k \in 1 .. n
      BY <1>1
    <2>5. \A k \in 1 .. m : AnswerIn(g)[k] = h[k]
      BY <1>3, <2>1, <2>2, <2>3, <2>4
    <2>6. AnswerIn(g) = h
      BY <2>2, <2>3, <2>5, SeqEqual
    <2> QED
      BY <2>6 DEF g, h
  <1> QED
    BY <1>1, <1>4, <1>5, <1>6 DEF f, R

\* A request that is printed has sorted arrays.
LEMMA Printable ==
    ASSUME Inv, DataInv, NEW q \in Request, Printing(q)
    PROVE  /\ q \in DOMAIN input
           /\ Holds(array[q], Matches(q), Film, input[q].match, input[q].score)
           /\ AnswerIn(Lines(array[q])) = Ranked(input[q].match, input[q].score)
           /\ Matches(q) \in Nat
           /\ Len(Ranked(input[q].match, input[q].score)) = Matches(q)
           /\ \A m \in 0 .. Matches(q) :
                  AnswerIn(SubSeq(Lines(array[q]), 1, m)) =
                      SubSeq(Ranked(input[q].match, input[q].score), 1, m)
  <1>1. stage[q] \in {"sort", "print"} /\ pc[q][1] = "done"
    BY DEF Printing
  <1>2. q \in DOMAIN input /\ input \in Inputs
    BY <1>1 DEF Inv, Types, MainInOrder
  <1>3. input[q] \in ReadRequest
    BY <1>2, CaseAssumption
  <1>4. PICK match, score, n, a :
            match = input[q].match /\ score = input[q].score /\ n = Matches(q) /\ a = array[q]
    OBVIOUS
  <1>5. /\ match \subseteq Film /\ score \in [Film -> Nat] /\ n = Cardinality(match)
        /\ Holds(a, n, Film, match, score)
    BY <1>1, <1>3, <1>4 DEF ReadRequest, Matches, DataInv, DataOf
  <1>6. Ready(a, 0, n)
    <2>1. arg[q][1].l = 0 /\ arg[q][1].r = n
      BY <1>1, <1>4 DEF DataInv, DataOf
    <2>2. Ready(array[q], arg[q][1].l, arg[q][1].r)
      <3>1. 1 \in Node /\ AllDone(pc[q], arg[q], array[q])
        BY DEF DataInv, DataOf, Node
      <3>2. WorkDone(pc[q][1], arg[q][1], array[q])
        BY <3>1 DEF AllDone
      <3> QED
        BY <1>1, <3>2 DEF WorkDone
    <2> QED
      BY <1>4, <2>1, <2>2
  <1>7. /\ AnswerIn(Lines(a)) = Ranked(match, score)
        /\ n \in Nat /\ Len(Ranked(match, score)) = n
        /\ \A m \in 0 .. n :
               AnswerIn(SubSeq(Lines(a), 1, m)) = SubSeq(Ranked(match, score), 1, m)
    BY <1>5, <1>6, PrintsRanking
  <1> QED
    BY <1>2, <1>4, <1>5, <1>7

\* A flush leaves more of the lines in the file than there were.
LEMMA FlushedLines ==
    ASSUME Inv, DataInv, FileInv, NEW q \in Request, Flush(q)
    PROVE  \E n \in Len(file[q]) + 1 .. Matches(q) :
               /\ n \in 0 .. Matches(q)
               /\ file' = [file EXCEPT ![q] = SubSeq(Lines(array[q]), 1, n)]
               /\ SubSeq(Lines(array[q]), 1, n) \in Seq(Strings(Film))
  <1>1. PICK n \in Len(file[q]) + Buffer .. Matches(q) :
            file' = [file EXCEPT ![q] = SubSeq(Lines(array[q]), 1, n)]
    BY DEF Flush
  <1>2. Printing(q) /\ stage[q] \in {"sort", "print"}
    BY DEF Flush, Printing
  <1>3. file[q] \in Seq(Strings(Film))
    BY <1>2 DEF FileInv, FileOf
  <1>4. PICK len \in Nat : len = Len(file[q])
    BY <1>3
  <1>5. Matches(q) \in Nat /\ Buffer \in Nat /\ Buffer >= 1
    BY <1>2, Printable, SizeAssumption
  <1>6. n \in len + Buffer .. Matches(q)
    BY <1>1, <1>4
  <1>7. n \in len + 1 .. Matches(q) /\ n \in 0 .. Matches(q)
    BY <1>4, <1>5, <1>6
  <1>8. Lines(array[q]) \in Seq(Strings(Film)) /\ Len(Lines(array[q])) = Matches(q)
    <2>1. Holds(array[q], Matches(q), Film, input[q].match, input[q].score)
      BY <1>2, Printable
    <2> QED
      BY <2>1, LinesOf
  <1>9. SubSeq(Lines(array[q]), 1, n) \in Seq(Strings(Film))
    BY <1>7, <1>8, Beginning
  <1> QED
    BY <1>1, <1>4, <1>7, <1>9

\* Only deal_request() and its counterpart in main() touch the files.
LEMMA FileStep ==
    ASSUME Inv, DataInv, FileInv, [Next]_vars
    PROVE  FileInv'
  <1>1. ASSUME file' = file,
               \A q \in Request : stage'[q] = stage[q]
                                  \/ (stage[q] = "none" /\ stage'[q] = "begin")
        PROVE  FileInv'
    BY <1>1 DEF FileInv, FileOf
  <1>2. CASE UNCHANGED vars
    BY <1>1, <1>2 DEF vars
  <1>3. CASE Load
    <2>1. \A q \in Request : stage[q] = "none" /\ (stage'[q] = "begin" \/ stage'[q] = stage[q])
      BY <1>3 DEF Load, Inv, Types, MainInOrder
    <2> QED
      BY <1>1, <1>3, <2>1 DEF Load
  <1>4. CASE CreateRequest
    <2>1. \A q \in Request : q = i + 1 => stage[q] = "none"
      <3>1. Threads /\ i \in Nat
        BY <1>4 DEF CreateRequest, Inv, Types, MainInOrder
      <3>2. i + 1 > i
        BY <3>1
      <3> QED
        BY <3>1, <3>2 DEF Inv, MainInOrder
    <2>2. stage' = [stage EXCEPT ![i + 1] = "begin"] /\ DOMAIN stage = Request
      BY <1>4 DEF CreateRequest, Inv, Types
    <2>3. \A q \in Request : stage'[q] = IF q = i + 1 THEN "begin" ELSE stage[q]
      BY <2>2
    <2> QED
      BY <1>1, <1>4, <2>1, <2>3 DEF CreateRequest
  <1>5. ASSUME NEW q \in Request, Serve(q)
        PROVE  FileInv'
    <2>1. CASE Deal(q) \/ Flush(q) \/ PrintAnswer(q)
      <3>1. /\ file' = [file EXCEPT ![q] = file'[q]] /\ DOMAIN file = Request
            /\ stage' = [stage EXCEPT ![q] = stage'[q]]
            /\ \/ stage'[q] = "sort" /\ file'[q] = <<>>
               \/ stage'[q] = "print" /\ file'[q] \in Seq(Strings(Film))
               \/ stage'[q] = "done"
        <4>1. CASE Deal(q)
          BY <4>1 DEF Deal, Inv, Types, FileInv
        <4>2. CASE Flush(q)
          <5>1. PICK n : /\ file' = [file EXCEPT ![q] = SubSeq(Lines(array[q]), 1, n)]
                         /\ SubSeq(Lines(array[q]), 1, n) \in Seq(Strings(Film))
            BY <4>2, FlushedLines
          <5>2. stage' = [stage EXCEPT ![q] = "print"] /\ DOMAIN stage = Request
            BY <4>2 DEF Flush, Inv, Types
          <5>3. DOMAIN file = Request
            BY DEF FileInv
          <5> QED
            BY <5>1, <5>2, <5>3
        <4>3. CASE PrintAnswer(q)
          BY <4>3 DEF PrintAnswer, Inv, Types, FileInv
        <4> QED
          BY <2>1, <4>1, <4>2, <4>3
      <3>2. \A m \in Request \ {q} : file'[m] = file[m] /\ stage'[m] = stage[m]
        BY <3>1 DEF Inv, Types
      <3>3. \A m \in Request \ {q} : FileOf(m)'
        BY <3>2 DEF FileInv, FileOf
      <3>4. FileOf(q)'
        <4>1. <<>> \in Seq(Strings(Film))
          OBVIOUS
        <4>2. \/ stage'[q] \in {"sort", "print"} /\ file'[q] \in Seq(Strings(Film))
              \/ stage'[q] = "done"
          BY <3>1, <4>1
        <4> QED
          BY <4>2 DEF FileOf
      <3>5. DOMAIN file' = Request
        BY <3>1
      <3> QED
        BY <3>3, <3>4, <3>5 DEF FileInv
    <2>2. ASSUME NEW k \in Node, Work(q, k)
          PROVE  FileInv'
      <3>1. file' = file /\ stage' = stage
        BY <2>2 DEF Work, SpawnLeft, SpawnRight, Spawn, Join, MergeParts, SortRight,
                    SortLeft, SortPart, SortAll, SortSlots, Crash
      <3> QED
        BY <1>1, <3>1
    <2> QED
      BY <1>5, <2>1, <2>2 DEF Serve
  <1> QED
    BY <1>2, <1>3, <1>4, <1>5 DEF Next, Terminated

\* The answers that the files give, and those that are complete.
Answers == [q \in Request |-> AnswerIn(file[q])]
Closed == {q \in Request : stage[q] = "done"}
Whole(q) == Ranked(input[q].match, input[q].score)

\* What a step may do to the answer to a request.
Grows(q) ==
    /\ q \in DOMAIN input \ Closed
    /\ \E n \in Len(Answers[q]) + 1 .. Len(Whole(q)) :
           Answers' = [Answers EXCEPT ![q] = SubSeq(Whole(q), 1, n)]
    /\ UNCHANGED <<input, Closed>>
Completes(q) ==
    /\ q \in DOMAIN input \ Closed
    /\ Answers' = [Answers EXCEPT ![q] = Whole(q)]
    /\ Closed' = Closed \cup {q}
    /\ UNCHANGED input

\* A flush makes one answer grow.
LEMMA FlushGrows ==
    ASSUME Inv, DataInv, FileInv, NEW q \in Request, Flush(q)
    PROVE  Grows(q)
  <1>1. /\ Printing(q) /\ stage[q] \in {"sort", "print"} /\ input' = input
        /\ stage' = [stage EXCEPT ![q] = "print"] /\ DOMAIN stage = Request
    BY DEF Flush, Printing, fixed, Inv, Types
  <1>2. q \in DOMAIN input \ Closed
    BY <1>1, Printable DEF Closed
  <1>3. Closed' = Closed
    <2>1. \A m \in Request : stage'[m] = "done" <=> stage[m] = "done"
      BY <1>1
    <2> QED
      BY <2>1 DEF Closed
  <1>4. PICK n \in Len(file[q]) + 1 .. Matches(q) :
            /\ n \in 0 .. Matches(q)
            /\ file' = [file EXCEPT ![q] = SubSeq(Lines(array[q]), 1, n)]
    BY FlushedLines
  <1>5. AnswerIn(SubSeq(Lines(array[q]), 1, n)) = SubSeq(Whole(q), 1, n)
    BY <1>1, <1>4, Printable DEF Whole
  <1>6. Len(Answers[q]) = Len(file[q])
    <2>1. file[q] \in Seq(Strings(Film))
      BY <1>1 DEF FileInv, FileOf
    <2> QED
      BY <2>1, AnswerOf DEF Answers
  <1>7. n \in Len(Answers[q]) + 1 .. Len(Whole(q))
    <2>1. Len(Whole(q)) = Matches(q)
      BY <1>1, Printable DEF Whole
    <2> QED
      BY <1>4, <1>6, <2>1
  <1>8. Answers' = [Answers EXCEPT ![q] = SubSeq(Whole(q), 1, n)]
    <2>1. DOMAIN file = Request
      BY DEF FileInv
    <2>2. \A m \in Request : AnswerIn(file'[m]) =
              IF m = q THEN SubSeq(Whole(q), 1, n) ELSE AnswerIn(file[m])
      BY <1>4, <1>5, <2>1
    <2> QED
      BY <2>2 DEF Answers
  <1> QED
    BY <1>1, <1>2, <1>3, <1>7, <1>8 DEF Grows

\* fclose() completes it.
LEMMA PrintCompletes ==
    ASSUME Inv, DataInv, FileInv, NEW q \in Request, PrintAnswer(q)
    PROVE  Completes(q)
  <1>1. /\ Printing(q) /\ stage[q] \in {"sort", "print"} /\ input' = input
        /\ stage' = [stage EXCEPT ![q] = "done"] /\ DOMAIN stage = Request
        /\ file' = [file EXCEPT ![q] = Lines(array[q])] /\ DOMAIN file = Request
    BY DEF PrintAnswer, Printing, fixed, Inv, Types, FileInv
  <1>2. q \in DOMAIN input \ Closed
    BY <1>1, Printable DEF Closed
  <1>3. Closed' = Closed \cup {q}
    <2>1. \A m \in Request : stage'[m] = "done" <=> stage[m] = "done" \/ m = q
      BY <1>1
    <2> QED
      BY <2>1 DEF Closed
  <1>4. AnswerIn(Lines(array[q])) = Whole(q)
    BY <1>1, Printable DEF Whole
  <1>5. \A m \in Request : AnswerIn(file'[m]) = IF m = q THEN Whole(q) ELSE AnswerIn(file[m])
    BY <1>1, <1>4
  <1>6. Answers' = [Answers EXCEPT ![q] = Whole(q)]
    BY <1>5 DEF Answers
  <1> QED
    BY <1>1, <1>2, <1>3, <1>6 DEF Completes

\* Every step of the servers makes one answer grow, completes one, or leaves
\* all as they are.
LEMMA AnswerStep ==
    ASSUME Inv, DataInv, FileInv, [Next]_vars
    PROVE  [\E q \in Request : Grows(q) \/ Completes(q)]_<<input, Answers, Closed>>
  <1>1. ASSUME UNCHANGED <<input, file>>,
               \A q \in Request : stage'[q] = "done" <=> stage[q] = "done"
        PROVE  UNCHANGED <<input, Answers, Closed>>
    BY <1>1 DEF Answers, Closed
  <1>2. ASSUME NEW q \in Request, Deal(q)
        PROVE  UNCHANGED <<input, Answers, Closed>>
    <2>1. /\ stage[q] = "begin" /\ file' = [file EXCEPT ![q] = <<>>] /\ input' = input
          /\ stage' = [stage EXCEPT ![q] = "sort"] /\ DOMAIN stage = Request
          /\ DOMAIN file = Request /\ file[q] = NoFile
      BY <1>2 DEF Deal, FileInv, FileOf, fixed, Inv, Types
    <2>2. AnswerIn(<<>>) = <<>> /\ AnswerIn(NoFile) = <<>>
      BY DEF AnswerIn
    <2>3. \A m \in Request : AnswerIn(file'[m]) = AnswerIn(file[m])
      BY <2>1, <2>2
    <2>4. \A m \in Request : stage'[m] = "done" <=> stage[m] = "done"
      BY <2>1
    <2> QED
      BY <2>1, <2>3, <2>4 DEF Answers, Closed
  <1>3. ASSUME NEW q \in Request, NEW k \in Node, Work(q, k)
        PROVE  UNCHANGED <<input, Answers, Closed>>
    <2>1. UNCHANGED <<input, file, stage>>
      BY <1>3 DEF Work, SpawnLeft, SpawnRight, Spawn, Join, MergeParts, SortRight,
                  SortLeft, SortPart, SortAll, SortSlots, Crash, fixed
    <2> QED
      BY <1>1, <2>1
  <1>4. CASE Load \/ CreateRequest
    <2>1. UNCHANGED <<input, file>> /\ DOMAIN stage = Request
      BY <1>4 DEF Load, CreateRequest, fixed, Inv, Types
    <2>2. \A q \in Request : \/ stage'[q] = stage[q]
                             \/ stage[q] = "none" /\ stage'[q] = "begin"
      <3>1. CASE Load
        BY <3>1 DEF Load, Inv, Types, MainInOrder
      <3>2. CASE CreateRequest
        <4>1. Threads /\ i \in Nat /\ i + 1 > i
          BY <3>2 DEF CreateRequest, Inv, Types, MainInOrder
        <4>2. \A q \in Request : q = i + 1 => stage[q] = "none"
          BY <4>1 DEF Inv, MainInOrder
        <4>3. stage' = [stage EXCEPT ![i + 1] = "begin"]
          BY <3>2 DEF CreateRequest
        <4>4. \A q \in Request : stage'[q] = IF q = i + 1 THEN "begin" ELSE stage[q]
          BY <2>1, <4>3
        <4> QED
          BY <4>2, <4>4
      <3> QED
        BY <1>4, <3>1, <3>2
    <2>3. \A q \in Request : stage'[q] = "done" <=> stage[q] = "done"
      BY <2>2
    <2> QED
      BY <1>1, <2>1, <2>3
  <1>5. CASE UNCHANGED vars
    BY <1>1, <1>5 DEF vars
  <1>6. ASSUME NEW q \in Request, Serve(q)
        PROVE  Grows(q) \/ Completes(q) \/ UNCHANGED <<input, Answers, Closed>>
    BY <1>2, <1>3, <1>6, FlushGrows, PrintCompletes DEF Serve
  <1> QED
    BY <1>4, <1>5, <1>6 DEF Next, Terminated

\* The servers implement the abstract recommender: what stands in the file of a
\* request is the beginning of the ranking of its matches, grows, is never
\* revised, and is the whole ranking once the file is closed, whatever the
\* workers of it and of other requests do and whenever a crash ends them.
THEOREM RecommenderImplemented == Spec => ImplementsRecommender
  <1> DEFINE All == Inv /\ DataInv /\ FileInv
  <1>1. Init => All
    <2>1. Init => FileInv
      BY DEF Init, FileInv, FileOf
    <2> QED
      BY <2>1, InitInv, InitData
  <1>2. All /\ [Next]_vars => All'
    BY InvStep, DataStep, FileStep
  <1>3. Init => Promise!Init
    <2> SUFFICES ASSUME Init PROVE Promise!Init
      OBVIOUS
    <2>1. \A q \in Request : AnswerIn(file[q]) = <<>>
      BY DEF Init, AnswerIn
    <2>2. input \in Inputs /\ {q \in Request : stage[q] = "done"} = {}
      BY InitInput DEF Init
    <2> QED
      BY <2>1, <2>2 DEF Promise!Init
  <1>4. All /\ [Next]_vars =>
            [Promise!Next]_<<input, [q \in Request |-> AnswerIn(file[q])],
                             {q \in Request : stage[q] = "done"}>>
    <2> SUFFICES ASSUME All, [Next]_vars
                 PROVE  [Promise!Next]_<<input, Answers, Closed>>
      BY DEF Answers, Closed
    <2>1. \A match, score : Promise!Ranked(match, score) = Ranked(match, score)
      BY DEF Promise!Ranked, Promise!Before, Promise!Cardinality, Ranked, Before, Cardinality
    <2>2. \A q \in Request : Promise!Promised(q) = Whole(q)
      BY <2>1 DEF Promise!Promised, Whole
    <2>3. ASSUME NEW q \in Request, Grows(q)
          PROVE  Promise!Write(q)
      BY <2>2, <2>3 DEF Promise!Write, Grows, Answers, Closed
    <2>4. ASSUME NEW q \in Request, Completes(q)
          PROVE  Promise!Close(q)
      BY <2>2, <2>4 DEF Promise!Close, Completes, Answers, Closed
    <2> QED
      BY <2>3, <2>4, AnswerStep DEF Promise!Next
  <1>5. Spec => []All
    <2> HIDE DEF All
    <2> QED
      BY <1>1, <1>2, PTL DEF Spec
  <1> HIDE DEF All
  <1> QED
    BY <1>3, <1>4, <1>5, PTL DEF Spec, ImplementsRecommender, Promise!RecommenderSpec
=============================================================================
