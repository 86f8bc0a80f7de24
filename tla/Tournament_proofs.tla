------------------------- MODULE Tournament_proofs -------------------------
(***************************************************************************)
(* What is proved about the championship, for every bracket: the types,    *)
(* that a process ends after its children (ChildrenFirst), that two living *)
(* players meet, never one player itself (FightersAlive), and that the     *)
(* champion is that of the battles fought one by one (ChampionDetermined). *)
(***************************************************************************)
EXTENDS Tournament, Iteration, FiniteSetTheorems

-----------------------------------------------------------------------------
(* The bracket, and sequences of at most one status.                        *)

\* A battle has two children; every player has a battle above it.
LEMMA Bracket ==
    /\ \A b \in Battle :
           /\ Left[b] \in Node /\ Right[b] \in Node /\ Left[b] # Right[b]
           /\ \A n \in Child(b) : /\ n \in Node
                                  /\ Other(b, n) \in Child(b)
                                  /\ Other(b, n) # n
    /\ \A b, c \in Battle : \A n : n \in Child(b) /\ n \in Child(c) => b = c
    /\ \A p \in Player : Parent(p) \in Battle /\ p \notin Battle
  <1>1. \A b \in Battle :
            /\ Left[b] \in Node /\ Right[b] \in Node /\ Left[b] # Right[b]
            /\ \A n \in Child(b) : /\ n \in Node
                                   /\ Other(b, n) \in Child(b)
                                   /\ Other(b, n) # n
    BY TreeAssumption DEF Child, Other
  <1>2. ASSUME NEW b \in Battle, NEW c \in Battle, NEW n,
               n \in Child(b), n \in Child(c)
        PROVE  b = c
    <2>1. Child(b) \cap Child(c) # {}
      BY <1>2
    <2> QED
      BY <2>1, TreeAssumption
  <1>3. ASSUME NEW p \in Player
        PROVE  Parent(p) \in Battle /\ p \notin Battle
    <2>1. p \in Node /\ p \notin Battle /\ p # Final
      BY TreeAssumption DEF Node
    <2>2. \E b \in Battle : p \in Child(b)
      BY <2>1, TreeAssumption
    <2> QED
      BY <2>1, <2>2 DEF Parent
  <1> QED
    BY <1>1, <1>2, <1>3

\* There is a least real player.
LEMMA LeastReal == Least \in Real
  <1>1. \E p \in Real : \A q \in Real : p <= q
    BY TreeAssumption, LeastNumber
  <1> QED
    BY <1>1 DEF Least

\* A status read from a pipe.
LEMMA TakeOne ==
    ASSUME NEW S, NEW T, NEW f \in [S -> Seq(T)], NEW n \in S, f[n] # <<>>
    PROVE  /\ Head(f[n]) \in T
           /\ Took(f, n) \in [S -> Seq(T)]
           /\ \A k \in S \ {n} : Took(f, n)[k] = f[k]
           /\ Len(f[n]) <= 1 => Took(f, n)[n] = <<>>
  <1>1. f[n] \in Seq(T)
    OBVIOUS
  <1>2. Head(f[n]) \in T /\ Tail(f[n]) \in Seq(T)
    BY <1>1
  <1>3. Len(f[n]) <= 1 => Tail(f[n]) = <<>>
    BY <1>1
  <1>4. Took(f, n) = [f EXCEPT ![n] = Tail(f[n])]
    BY DEF Took
  <1> QED
    BY <1>2, <1>3, <1>4

\* A status written into a pipe.
LEMMA PutOne ==
    ASSUME NEW S, NEW T, NEW f \in [S -> Seq(T)], NEW n \in S, NEW r \in T
    PROVE  /\ Put(f, n, r) \in [S -> Seq(T)]
           /\ \A k \in S \ {n} : Put(f, n, r)[k] = f[k]
           /\ f[n] = <<>> => Put(f, n, r)[n] = <<r>>
  <1>1. f[n] \in Seq(T) /\ Append(f[n], r) \in Seq(T)
    OBVIOUS
  <1>2. f[n] = <<>> => Append(f[n], r) = <<r>>
    OBVIOUS
  <1>3. Put(f, n, r) = [f EXCEPT ![n] = Append(f[n], r)]
    BY DEF Put
  <1> QED
    BY <1>1, <1>2, <1>3

\* A sequence of one.
LEMMA Single ==
    ASSUME NEW r
    PROVE  <<r>> # <<>> /\ Head(<<r>>) = r /\ Len(<<r>>) = 1
  OBVIOUS

-----------------------------------------------------------------------------
(* The invariant.                                                           *)

\* Where the processes of each kind can be.
RolesOK ==
    /\ \A b \in Battle : pc[b] \in {"fight", "reap", "up", "down", "last", "done"}
    /\ \A p \in Real : pc[p] \in {"enter", "play", "sleep", "leave", "done"}
    /\ \A a \in Agent : pc[a] \in {"new", "made", "idle", "play", "done"}

Fought(b) == pc[b] # "fight"
Loser(b) == Other(b, winner[b])

\* A battle that is over knows which child goes on, and the processes end from
\* the players upwards: the loser's first.
EndOrder ==
    \A b \in Battle :
        /\ Fought(b) => winner[b] \in Child(b)
        /\ pc[b] \in {"up", "down", "last", "done"} => pc[Loser(b)] = "done"
        /\ pc[b] = "done" => pc[winner[b]] = "done"

\* The two pipes between n and its parent are empty.
Silent(n) == up[n] = <<>> /\ down[n] = <<>>

\* At most one status is on its way between n and its parent.
OneAt(n) ==
    /\ up[n] = <<>> \/ down[n] = <<>>
    /\ Len(up[n]) <= 1 /\ Len(down[n]) <= 1

\* And only while the process waits for an answer.
OneStatus ==
    \A n \in Node : OneAt(n) /\ (~Silent(n) => pc[n] \in {"down", "play"})

\* While a battle waits for its parent's answer, its winner waits for its own.
OneBelow ==
    \A b \in Battle :
        pc[b] = "down" => Silent(winner[b]) /\ pc[winner[b]] \in {"down", "play"}

\* There is a status of player p between n and its parent.
Between(n, p) ==
    \/ up[n] # <<>> /\ Head(up[n]).id = p
    \/ down[n] # <<>> /\ Head(down[n]).id = p

\* A status on its way belongs to the process it comes from: to a real player
\* its own, to a battle its winner's.
OwnStatus ==
    \A p \in Real :
        /\ \A q \in Real : Between(q, p) => p = q
        /\ \A b \in Battle : Between(b, p) => Fought(b) /\ won[b] = p
        /\ \A b \in Battle : Fought(b) /\ Between(winner[b], p) => won[b] = p

\* The winner of a battle has begun, and its player is the battle's.
WinnerBegan ==
    \A b \in Battle : Fought(b) =>
        /\ pc[winner[b]] \notin {"fight", "enter", "new", "made", "idle"}
        /\ winner[b] \in Battle => won[winner[b]] = won[b]
        /\ winner[b] \in Real => winner[b] = won[b]

\* There is a status of player p in the FIFO of agent a.
Handed(a, p) == \E k \in DOMAIN fifo[a] : fifo[a][k].id = p

\* No player is in two places, and one that has not entered, or that has been
\* beaten and has not handed its status over, in none.
OnePlace ==
    \A p \in Real :
        /\ \A m, n \in Node : Between(m, p) /\ Between(n, p) => m = n
        /\ \A a \in Agent, n \in Node : ~(Handed(a, p) /\ Between(n, p))
        /\ \A a, c \in Agent : Handed(a, p) /\ Handed(c, p) => a = c
        /\ \A a \in Agent : \A j, k \in DOMAIN fifo[a] :
               fifo[a][j].id = p /\ fifo[a][k].id = p => j = k
        /\ pc[p] \in {"enter", "sleep"} =>
               /\ \A n \in Node : ~Between(n, p)
               /\ \A a \in Agent : ~Handed(a, p)

\* What goes up or through a FIFO is the status of a living player, and so is
\* the answer to a round that did not end the battle.
Alive ==
    /\ \A n \in Node : up[n] # <<>> => Head(up[n]).hp > 0
    /\ \A n \in Node : down[n] # <<>> /\ Head(down[n]).ended = 0
                           => Head(down[n]).hp > 0
    /\ \A a \in Agent : \A k \in DOMAIN fifo[a] : fifo[a][k].hp > 0

-----------------------------------------------------------------------------
(* Types.                                                                   *)

TypeInv == TypeOK /\ RolesOK /\ EndOrder

\* The label a process goes to.
LEMMA GotoType ==
    ASSUME TypeOK, RolesOK, NEW n \in Node, NEW label, Goto(n, label)
    PROVE  /\ pc'[n] = label
           /\ \A k \in Node \ {n} : pc'[k] = pc[k]
           /\ label \in {"fight", "reap", "up", "down", "last", "enter", "play",
                         "sleep", "leave", "new", "made", "idle", "done"}
                  => pc' \in [Node -> {"fight", "reap", "up", "down", "last",
                                       "enter", "play", "sleep", "leave", "new",
                                       "made", "idle", "done"}]
  BY DEF Goto, TypeOK

\* What a player is worth.
LEMMA Worth ==
    /\ \A s \in Statuses({0, 1}), b \in Battle : Damage(b, s) \in Nat
    /\ full \in [Real -> FullHp] => \A p \in Real : full[p] \in Nat /\ full[p] > 0
    /\ FullHp \subseteq Nat \ {0}
    /\ Statuses({0}) \subseteq Statuses({0, 1})
  <1>1. \A s \in Statuses({0, 1}) : s.id \in Real /\ Atk[s.id] \in Nat
    BY StatusAssumption DEF Statuses
  <1>2. \A s \in Statuses({0, 1}), b \in Battle : Damage(b, s) \in Nat
    BY <1>1 DEF Damage
  <1>3. Statuses({0}) \subseteq Statuses({0, 1})
    BY DEF Statuses
  <1>4. ASSUME full \in [Real -> FullHp], NEW p \in Real
        PROVE  full[p] \in Nat /\ full[p] > 0
    <2>1. full[p] \in FullHp /\ FullHp \subseteq Nat \ {0}
      BY <1>4, StatusAssumption
    <2>2. full[p] \in Nat /\ full[p] # 0
      BY <2>1
    <2> QED
      BY <2>2
  <1> QED
    BY <1>2, <1>3, <1>4, StatusAssumption

\* A status is one, with the fields it is given.
LEMMA StatusType ==
    ASSUME NEW p \in Real, NEW hp \in Int, NEW b \in Battle, NEW F, NEW e \in F
    PROVE  /\ Status(p, hp, b, e) \in Statuses(F)
           /\ Status(p, hp, b, e).id = p /\ Status(p, hp, b, e).hp = hp
           /\ Status(p, hp, b, e).ended = e /\ Status(p, hp, b, e).battle = b
  BY DEF Status, Statuses

\* The HP after a round.
LEMMA RoundHp ==
    ASSUME NEW b \in Battle, NEW l \in Statuses({0}), NEW r \in Statuses({0})
    PROVE  /\ LeftHp(b, l, r) \in Int /\ RightHp(b, l, r) \in Int
           /\ Ended(b, l, r) \in BOOLEAN
           /\ ~Ended(b, l, r) => LeftHp(b, l, r) > 0 /\ RightHp(b, l, r) > 0
  <1>1. /\ l.hp \in Int /\ r.hp \in Int
        /\ Damage(b, l) \in Int /\ Damage(b, r) \in Int
    BY Worth DEF Statuses
  <1>2. Hit(b, l, r) \in Int /\ Hit(b, r, l) \in Int
    BY <1>1 DEF Hit
  <1>3. HitBack(b, l, r) \in Int /\ HitBack(b, r, l) \in Int
    BY <1>1, <1>2 DEF HitBack
  <1>4. LeftHp(b, l, r) \in Int /\ RightHp(b, l, r) \in Int
    BY <1>2, <1>3 DEF LeftHp, RightHp
  <1> QED
    BY <1>4 DEF Ended

\* What a round of a battle does to the pipes.
LEMMA FightPipes ==
    ASSUME TypeInv, NEW b \in Battle, Fight(b)
    PROVE  /\ up[Left[b]] # <<>> /\ up[Right[b]] # <<>>
           /\ up' \in [Node -> Seq(Statuses({0}))]
           /\ down' \in [Node -> Seq(Statuses({0, 1}))]
           /\ \A n \in Node \ Child(b) : up'[n] = up[n] /\ down'[n] = down[n]
           /\ \A n \in Child(b) :
                  /\ Len(up[n]) <= 1 => up'[n] = <<>>
                  /\ \E s \in Statuses({0, 1}) :
                         /\ down[n] = <<>> => down'[n] = <<s>>
                         /\ s.id = Head(up[n]).id
                         /\ s.ended = 0 => s.hp > 0
           /\ \/ UNCHANGED <<result, pc>>
              \/ \E n \in Child(b) :
                     /\ winner' = [winner EXCEPT ![b] = n]
                     /\ won' = [won EXCEPT ![b] = Head(up[n]).id]
                     /\ Head(up[n]).id \in Real
                     /\ Goto(b, "reap")
  <1> DEFINE L == Left[b]
             R == Right[b]
             l == Head(up[L])
             r == Head(up[R])
             over == Ended(b, l, r)
             dl == Status(l.id, LeftHp(b, l, r), b, IF over THEN 1 ELSE l.ended)
             dr == Status(r.id, RightHp(b, l, r), b, IF over THEN 1 ELSE r.ended)
             mid == Took(up, L)
             one == Put(down, L, dl)
  <1>1. L \in Node /\ R \in Node /\ L # R /\ Child(b) = {L, R}
    BY Bracket DEF Child
  <1>2. up[L] # <<>> /\ up[R] # <<>> /\ up' = Took(mid, R) /\ down' = Put(one, R, dr)
    BY DEF Fight
  <1>3. up \in [Node -> Seq(Statuses({0}))] /\ down \in [Node -> Seq(Statuses({0, 1}))]
    BY DEF TypeInv, TypeOK
  <1>4. l \in Statuses({0}) /\ r \in Statuses({0})
    BY <1>1, <1>2, <1>3, TakeOne
  <1>5. /\ l.id \in Real /\ r.id \in Real /\ l.ended = 0 /\ r.ended = 0
        /\ LeftHp(b, l, r) \in Int /\ RightHp(b, l, r) \in Int
        /\ over \in BOOLEAN
        /\ ~over => LeftHp(b, l, r) > 0 /\ RightHp(b, l, r) > 0
    BY <1>4, RoundHp DEF Statuses
  <1>6. /\ dl \in Statuses({0, 1}) /\ dr \in Statuses({0, 1})
        /\ dl.id = l.id /\ dr.id = r.id
        /\ dl.ended = 0 => dl.hp > 0
        /\ dr.ended = 0 => dr.hp > 0
    <2> DEFINE el == IF over THEN 1 ELSE l.ended
               er == IF over THEN 1 ELSE r.ended
    <2>1. el \in {0, 1} /\ er \in {0, 1} /\ (el = 0 => ~over) /\ (er = 0 => ~over)
      BY <1>5
    <2> HIDE DEF over, el, er, l, r
    <2>2. dl \in Statuses({0, 1}) /\ dl.id = l.id /\ dl.ended = el
          /\ dl.hp = LeftHp(b, l, r)
      BY <1>5, <2>1, StatusType DEF el
    <2>3. dr \in Statuses({0, 1}) /\ dr.id = r.id /\ dr.ended = er
          /\ dr.hp = RightHp(b, l, r)
      BY <1>5, <2>1, StatusType DEF er
    <2> QED
      BY <1>5, <2>1, <2>2, <2>3
  <1> HIDE DEF dl, dr, l, r, over, L, R, mid, one
  <1>7. /\ mid \in [Node -> Seq(Statuses({0}))]
        /\ \A k \in Node \ {L} : mid[k] = up[k]
        /\ Len(up[L]) <= 1 => mid[L] = <<>>
    BY <1>1, <1>2, <1>3, TakeOne DEF mid
  <1>8. /\ up' \in [Node -> Seq(Statuses({0}))]
        /\ \A k \in Node \ {R} : up'[k] = mid[k]
        /\ Len(mid[R]) <= 1 => up'[R] = <<>>
    <2>1. mid[R] # <<>>
      BY <1>1, <1>2, <1>7
    <2> QED
      BY <1>1, <1>2, <1>7, <2>1, TakeOne
  <1> DEFINE T == Statuses({0, 1})
  <1>8a. dl \in T /\ dr \in T /\ down \in [Node -> Seq(T)]
    BY <1>3, <1>6
  <1> HIDE DEF T
  <1>9. /\ one \in [Node -> Seq(T)]
        /\ down[L] = <<>> => one[L] = <<dl>>
        /\ \A k \in Node \ {L} : one[k] = down[k]
    BY <1>1, <1>8a, PutOne DEF one
  <1>10. /\ down' \in [Node -> Seq(T)]
         /\ one[R] = <<>> => down'[R] = <<dr>>
         /\ \A k \in Node \ {R} : down'[k] = one[k]
    <2> DEFINE both == Put(one, R, dr)
    <2>1. /\ both \in [Node -> Seq(T)]
          /\ one[R] = <<>> => both[R] = <<dr>>
          /\ \A k \in Node \ {R} : both[k] = one[k]
      <3>1. R \in Node /\ one \in [Node -> Seq(T)] /\ dr \in T
        BY <1>1, <1>9, <1>8a
      <3> QED
        BY <3>1, PutOne
    <2> QED
      BY <1>2, <2>1
  <1>11. ASSUME NEW n \in Child(b)
         PROVE  /\ Len(up[n]) <= 1 => up'[n] = <<>>
                /\ \E s \in Statuses({0, 1}) :
                       /\ down[n] = <<>> => down'[n] = <<s>>
                       /\ s.id = Head(up[n]).id
                       /\ s.ended = 0 => s.hp > 0
    <2>1. CASE n = L
      <3>1. /\ (down[n] = <<>> => down'[n] = <<dl>>) /\ dl.id = Head(up[n]).id
            /\ Len(up[n]) <= 1 => up'[n] = <<>>
        BY <1>1, <1>6, <1>7, <1>8, <1>9, <1>10, <2>1 DEF l
      <3> QED
        BY <1>6, <3>1
    <2>2. CASE n = R
      <3>1. /\ (down[n] = <<>> => down'[n] = <<dr>>) /\ dr.id = Head(up[n]).id
            /\ Len(up[n]) <= 1 => up'[n] = <<>>
        BY <1>1, <1>6, <1>7, <1>8, <1>9, <1>10, <2>2 DEF r
      <3> QED
        BY <1>6, <3>1
    <2> QED
      BY <1>1, <2>1, <2>2
  <1>12. \/ UNCHANGED <<result, pc>>
         \/ \E n \in Child(b) :
                /\ winner' = [winner EXCEPT ![b] = n]
                /\ won' = [won EXCEPT ![b] = Head(up[n]).id]
                /\ Head(up[n]).id \in Real
                /\ Goto(b, "reap")
    <2>1. CASE ~over
      BY <2>1 DEF Fight, over, l, r, L, R
    <2>2. CASE over
      <3> DEFINE n == IF LeftHp(b, l, r) > 0 THEN L ELSE R
      <3>1. n \in Child(b) /\ Head(up[n]).id \in Real
        BY <1>1, <1>5 DEF l, r
      <3>2. /\ winner' = [winner EXCEPT ![b] = n]
            /\ won' = [won EXCEPT ![b] = Head(up[n]).id]
            /\ Goto(b, "reap")
        BY <2>2 DEF Fight, over, l, r, L, R
      <3> HIDE DEF n
      <3> QED
        BY <3>1, <3>2
    <2> QED
      BY <2>1, <2>2
  <1>13. \A n \in Node \ Child(b) : up'[n] = up[n] /\ down'[n] = down[n]
    BY <1>1, <1>7, <1>8, <1>9, <1>10
  <1> QED
    BY <1>2, <1>8, <1>10, <1>11, <1>12, <1>13 DEF L, R, T

\* Passing mode, from the winner w to the parent.
LEMMA PassUpPipes ==
    ASSUME TypeInv, NEW b \in Battle, PassUp(b), NEW w, w = winner[b]
    PROVE  /\ w \in Node /\ up[w] # <<>> /\ pc[b] = "up"
           /\ up' \in [Node -> Seq(Statuses({0}))]
           /\ \A n \in Node \ {w, b} : up'[n] = up[n]
           /\ w # b /\ Len(up[w]) <= 1 => up'[w] = <<>>
           /\ w # b /\ up[b] = <<>> => up'[b] = <<Head(up[w])>>
           /\ Goto(b, "down")
           /\ UNCHANGED <<down, fifos, lostIn, result, full, champion>>
  <1> DEFINE T == Statuses({0})
             one == Took(up, w)
             r == Head(up[w])
  <1>1. /\ w \in Node /\ b \in Node /\ up[w] # <<>> /\ pc[b] = "up"
        /\ up' = Put(one, b, r) /\ Goto(b, "down")
        /\ UNCHANGED <<down, fifos, lostIn, result, full, champion>>
    BY DEF PassUp, TypeInv, TypeOK, Node
  <1>2. up \in [Node -> Seq(T)]
    BY DEF TypeInv, TypeOK
  <1> HIDE DEF T
  <1>3. /\ r \in T /\ one \in [Node -> Seq(T)]
        /\ \A k \in Node \ {w} : one[k] = up[k]
        /\ Len(up[w]) <= 1 => one[w] = <<>>
    BY <1>1, <1>2, TakeOne
  <1> HIDE DEF one, r
  <1>4. /\ up' \in [Node -> Seq(T)]
        /\ one[b] = <<>> => up'[b] = <<r>>
        /\ \A k \in Node \ {b} : up'[k] = one[k]
    <2>1. b \in Node /\ one \in [Node -> Seq(T)] /\ r \in T
      BY <1>1, <1>3
    <2> DEFINE both == Put(one, b, r)
    <2>2. /\ both \in [Node -> Seq(T)]
          /\ one[b] = <<>> => both[b] = <<r>>
          /\ \A k \in Node \ {b} : both[k] = one[k]
      BY <2>1, PutOne
    <2> QED
      BY <1>1, <2>2
  <1> QED
    BY <1>1, <1>3, <1>4 DEF T, r

\* From the parent to the winner w.
LEMMA PassDownPipes ==
    ASSUME TypeInv, NEW b \in Battle, PassDown(b), NEW w, w = winner[b]
    PROVE  /\ w \in Node /\ down[b] # <<>> /\ pc[b] = "down"
           /\ down' \in [Node -> Seq(Statuses({0, 1}))]
           /\ \A n \in Node \ {w, b} : down'[n] = down[n]
           /\ w # b /\ Len(down[b]) <= 1 => down'[b] = <<>>
           /\ w # b /\ down[w] = <<>> => down'[w] = <<Head(down[b])>>
           /\ \E label \in {"last", "up"} : Goto(b, label)
           /\ UNCHANGED <<up, fifos, lostIn, result, full, champion>>
  <1> DEFINE T == Statuses({0, 1})
             one == Took(down, b)
             r == Head(down[b])
  <1>1. /\ w \in Node /\ b \in Node /\ down[b] # <<>> /\ pc[b] = "down"
        /\ down' = Put(one, w, r) /\ (Goto(b, "last") \/ Goto(b, "up"))
        /\ UNCHANGED <<up, fifos, lostIn, result, full, champion>>
    BY DEF PassDown, TypeInv, TypeOK, Node
  <1>2. down \in [Node -> Seq(T)]
    BY DEF TypeInv, TypeOK
  <1> HIDE DEF T
  <1>3. /\ r \in T /\ one \in [Node -> Seq(T)]
        /\ \A k \in Node \ {b} : one[k] = down[k]
        /\ Len(down[b]) <= 1 => one[b] = <<>>
    BY <1>1, <1>2, TakeOne
  <1> HIDE DEF one, r
  <1>4. /\ down' \in [Node -> Seq(T)]
        /\ one[w] = <<>> => down'[w] = <<r>>
        /\ \A k \in Node \ {w} : down'[k] = one[k]
    <2>1. w \in Node /\ one \in [Node -> Seq(T)] /\ r \in T
      BY <1>1, <1>3
    <2> DEFINE both == Put(one, w, r)
    <2>2. /\ both \in [Node -> Seq(T)]
          /\ one[w] = <<>> => both[w] = <<r>>
          /\ \A k \in Node \ {w} : both[k] = one[k]
      BY <2>1, PutOne
    <2> QED
      BY <1>1, <2>2
  <1> QED
    BY <1>1, <1>3, <1>4 DEF T, r

\* The answer of a player: the status goes back, after a battle that it won
\* healed and without the flag.
LEMMA AnswerPipes ==
    ASSUME TypeInv, NEW p \in Player, Return(p) \/ Win(p)
    PROVE  /\ p \in Node /\ down[p] # <<>> /\ pc[p] = "play"
           /\ up' \in [Node -> Seq(Statuses({0}))]
           /\ down' \in [Node -> Seq(Statuses({0, 1}))]
           /\ \A n \in Node \ {p} : up'[n] = up[n] /\ down'[n] = down[n]
           /\ Len(down[p]) <= 1 => down'[p] = <<>>
           /\ \E s \in Statuses({0}) :
                  /\ up[p] = <<>> => up'[p] = <<s>>
                  /\ s.id = Head(down[p]).id
                  /\ Alive => s.hp > 0
           /\ UNCHANGED <<pc, fifos, lostIn, result, full, champion>>
  <1> DEFINE m == Head(down[p])
             healed == Status(m.id, Healed(m), m.battle, FlagAfterWin)
  <1>1. /\ p \in Node /\ down[p] # <<>> /\ pc[p] = "play" /\ down' = Took(down, p)
        /\ UNCHANGED <<pc, fifos, lostIn, result, full, champion>>
        /\ \/ up' = Put(up, p, m) /\ m.ended = 0
           \/ up' = Put(up, p, healed) /\ m.hp > 0
    BY DEF Return, Win, Node
  <1>2. up \in [Node -> Seq(Statuses({0}))] /\ down \in [Node -> Seq(Statuses({0, 1}))]
    BY DEF TypeInv, TypeOK
  <1>3. /\ m \in Statuses({0, 1})
        /\ down' \in [Node -> Seq(Statuses({0, 1}))]
        /\ \A k \in Node \ {p} : down'[k] = down[k]
        /\ Len(down[p]) <= 1 => down'[p] = <<>>
    BY <1>1, <1>2, TakeOne
  <1>4. m.id \in Real /\ m.hp \in Int /\ m.battle \in Battle
    BY <1>3 DEF Statuses
  <1>5. ASSUME m.ended = 0
        PROVE  m \in Statuses({0}) /\ (Alive => m.hp > 0)
    <2>1. m \in Statuses({0})
      BY <1>3, <1>5 DEF Statuses
    <2> QED
      BY <1>1, <1>5, <2>1 DEF Alive
  <1>6. ASSUME m.hp > 0
        PROVE  healed \in Statuses({0}) /\ healed.id = m.id /\ healed.hp > 0
    <2> DEFINE hp == Healed(m)
    <2>1. full[m.id] \in Nat /\ full[m.id] > 0
      BY <1>4, Worth DEF TypeInv, TypeOK
    <2>2. hp \in Int /\ hp > 0
      BY <1>4, <1>6, <2>1 DEF Healed
    <2>3. FlagAfterWin = 0
      BY DEF FlagAfterWin
    <2> HIDE DEF hp
    <2>4. /\ Status(m.id, hp, m.battle, 0) \in Statuses({0})
          /\ Status(m.id, hp, m.battle, 0).id = m.id
          /\ Status(m.id, hp, m.battle, 0).hp = hp
      <3>1. m.id \in Real /\ m.battle \in Battle
        BY <1>4
      <3> HIDE DEF m
      <3>2. hp \in Int /\ 0 \in {0}
        BY <2>2
      <3> QED
        BY <3>1, <3>2, StatusType
    <2> QED
      BY <2>2, <2>3, <2>4 DEF hp
  <1> DEFINE T == Statuses({0})
  <1>7. PICK s \in T : /\ up' = Put(up, p, s) /\ s.id = m.id
                       /\ Alive => s.hp > 0
    <2> HIDE DEF m, healed
    <2> QED
      BY <1>1, <1>5, <1>6
  <1> DEFINE new == Put(up, p, s)
  <1>8. /\ new \in [Node -> Seq(T)]
        /\ up[p] = <<>> => new[p] = <<s>>
        /\ \A k \in Node \ {p} : new[k] = up[k]
    <2>1. p \in Node /\ up \in [Node -> Seq(T)] /\ s \in T
      BY <1>1, <1>2
    <2> HIDE DEF T
    <2> QED
      BY <2>1, PutOne
  <1> HIDE DEF new, m
  <1>9. up' = new
    BY <1>7 DEF new
  <1> QED
    BY <1>1, <1>3, <1>7, <1>8, <1>9 DEF m

\* A player whose part is over, or that lost before the final.
LEMMA LeavePipes ==
    ASSUME TypeInv, NEW p \in Player, Finish(p) \/ Lose(p)
    PROVE  /\ p \in Node /\ down[p] # <<>> /\ pc[p] = "play"
           /\ down' \in [Node -> Seq(Statuses({0, 1}))]
           /\ \A n \in Node \ {p} : down'[n] = down[n]
           /\ Len(down[p]) <= 1 => down'[p] = <<>>
           /\ \/ Goto(p, "done") /\ lostIn' = lostIn
              \/ Goto(p, "sleep") /\ p \in Real /\ lostIn' \in [Real -> Battle]
           /\ UNCHANGED <<up, fifos, result, full, champion>>
  <1>1. /\ p \in Node /\ down[p] # <<>> /\ pc[p] = "play" /\ down' = Took(down, p)
        /\ UNCHANGED <<up, fifos, result, full, champion>>
    BY DEF Finish, Lose, Node
  <1>2. down \in [Node -> Seq(Statuses({0, 1}))]
    BY DEF TypeInv, TypeOK
  <1>3. /\ Head(down[p]) \in Statuses({0, 1})
        /\ down' \in [Node -> Seq(Statuses({0, 1}))]
        /\ \A k \in Node \ {p} : down'[k] = down[k]
        /\ Len(down[p]) <= 1 => down'[p] = <<>>
    BY <1>1, <1>2, TakeOne
  <1>4. Head(down[p]).battle \in Battle
    BY <1>3 DEF Statuses
  <1>5. \/ Goto(p, "done") /\ lostIn' = lostIn
        \/ Goto(p, "sleep") /\ p \in Real /\ lostIn' \in [Real -> Battle]
    BY <1>4 DEF Finish, Lose, TypeInv, TypeOK
  <1> QED
    BY <1>1, <1>3, <1>5

\* A real player enters.
LEMMA EnterPipes ==
    ASSUME TypeInv, NEW p \in Player, Enter(p)
    PROVE  /\ p \in Node /\ p \in Real /\ pc[p] = "enter"
           /\ up' \in [Node -> Seq(Statuses({0}))]
           /\ \A n \in Node \ {p} : up'[n] = up[n]
           /\ \E s \in Statuses({0}) :
                  /\ up[p] = <<>> => up'[p] = <<s>>
                  /\ s.id = p /\ s.hp > 0
           /\ Goto(p, "play")
           /\ UNCHANGED <<down, fifos, lostIn, result, full, champion>>
  <1> DEFINE s == Status(p, full[p], Parent(p), 0)
             T == Statuses({0})
  <1>1. /\ p \in Node /\ p \in Real /\ pc[p] = "enter" /\ up' = Put(up, p, s)
        /\ Goto(p, "play")
        /\ UNCHANGED <<down, fifos, lostIn, result, full, champion>>
    BY DEF Enter, Node
  <1>2. s \in T /\ s.id = p /\ s.hp > 0
    <2>1. full[p] \in Nat /\ full[p] > 0 /\ Parent(p) \in Battle
      BY <1>1, Worth, Bracket DEF TypeInv, TypeOK
    <2> QED
      BY <1>1, <2>1, StatusType
  <1> HIDE DEF s
  <1> DEFINE new == Put(up, p, s)
  <1>3. /\ new \in [Node -> Seq(T)]
        /\ up[p] = <<>> => new[p] = <<s>>
        /\ \A k \in Node \ {p} : new[k] = up[k]
    <2>1. p \in Node /\ up \in [Node -> Seq(T)] /\ s \in T
      BY <1>1, <1>2 DEF TypeInv, TypeOK
    <2> HIDE DEF T
    <2> QED
      BY <2>1, PutOne
  <1> HIDE DEF new
  <1>4. up' = new
    BY <1>1 DEF new
  <1> QED
    BY <1>1, <1>2, <1>3, <1>4

\* e stands behind the entries of f[n].
IsPutInto(g, f, n, e) ==
    /\ Len(g[n]) = Len(f[n]) + 1
    /\ g[n][Len(f[n]) + 1] = e
    /\ \A k \in 1 .. Len(f[n]) : g[n][k] = f[n][k]

\* A status written into a FIFO goes behind those that are in it.
LEMMA PutLast ==
    ASSUME NEW S, NEW T, NEW f \in [S -> Seq(T)], NEW n \in S, NEW r \in T
    PROVE  IsPutInto(Put(f, n, r), f, n, r)
  <1>1. f[n] \in Seq(T)
    OBVIOUS
  <1>2. Put(f, n, r)[n] = Append(f[n], r)
    BY DEF Put
  <1>3. /\ Len(Append(f[n], r)) = Len(f[n]) + 1
        /\ Append(f[n], r)[Len(f[n]) + 1] = r
        /\ \A k \in 1 .. Len(f[n]) : Append(f[n], r)[k] = f[n][k]
    BY <1>1
  <1> QED
    BY <1>2, <1>3 DEF IsPutInto

\* A loser hands its status, as it was in the file, to the agent of the battle.
LEMMA HandOverFifo ==
    ASSUME TypeInv, NEW p \in Player, HandOver(p)
    PROVE  /\ p \in Real /\ p \in Node /\ pc[p] = "sleep"
           /\ fifo' \in [Agent -> Seq(Statuses({0}))]
           /\ \/ fifo' = fifo
              \/ \E a \in Agent : \E s \in Statuses({0}) :
                     /\ \A c \in Agent \ {a} : fifo'[c] = fifo[c]
                     /\ IsPutInto(fifo', fifo, a, s)
                     /\ s.id = p /\ s.hp = full[p] /\ s.hp > 0
                     /\ a = LoserAgent[lostIn[p]]
           /\ Goto(p, "leave")
           /\ UNCHANGED <<pipes, made, lostIn, result, full, champion>>
  <1> DEFINE a == LoserAgent[lostIn[p]]
             s == Status(p, HandOverHp(p), lostIn[p], 0)
             T == Statuses({0})
  <1>1. /\ pc[p] = "sleep" /\ p \in Node
        /\ fifo' = fifo \/ fifo' = Put(fifo, a, s)
        /\ Goto(p, "leave")
        /\ UNCHANGED <<pipes, made, lostIn, result, full, champion>>
    BY DEF HandOver, Node
  <1>2. p \in Real
    BY <1>1, TreeAssumption DEF TypeInv, RolesOK, Player
  <1>3. s \in T /\ s.id = p /\ s.hp = full[p] /\ s.hp > 0
    <2>1. full[p] \in Nat /\ full[p] > 0 /\ lostIn[p] \in Battle
      BY <1>2, Worth DEF TypeInv, TypeOK
    <2>2. Status(p, full[p], lostIn[p], 0) \in T
          /\ Status(p, full[p], lostIn[p], 0).id = p
          /\ Status(p, full[p], lostIn[p], 0).hp = full[p]
      BY <1>2, <2>1, StatusType
    <2> QED
      BY <2>1, <2>2 DEF HandOverHp
  <1>4. fifo \in [Agent -> Seq(T)]
    BY DEF TypeInv, TypeOK
  <1> HIDE DEF a, s
  <1>5. CASE fifo' = fifo
    BY <1>1, <1>2, <1>4, <1>5
  <1>6. CASE fifo' # fifo
    <2> DEFINE new == Put(fifo, a, s)
    <2>1. fifo' = new
      BY <1>1, <1>6
    <2>2. a \in Agent
      <3> SUFFICES ASSUME a \notin Agent PROVE FALSE
        OBVIOUS
      <3>1. new = fifo
        BY <1>4 DEF Put
      <3> QED
        BY <1>6, <2>1, <3>1
    <2>3. /\ new \in [Agent -> Seq(T)]
          /\ fifo[a] = <<>> => new[a] = <<s>>
          /\ \A k \in Agent \ {a} : new[k] = fifo[k]
      <3>1. a \in Agent /\ fifo \in [Agent -> Seq(T)] /\ s \in T
        BY <1>3, <1>4, <2>2
      <3> HIDE DEF T
      <3> QED
        BY <3>1, PutOne
    <2>4. IsPutInto(new, fifo, a, s)
      <3>1. a \in Agent /\ fifo \in [Agent -> Seq(T)] /\ s \in T
        BY <1>3, <1>4, <2>2
      <3> HIDE DEF T
      <3> QED
        BY <3>1, PutLast
    <2> HIDE DEF new
    <2> QED
      BY <1>1, <1>2, <1>3, <2>1, <2>2, <2>3, <2>4 DEF a
  <1> QED
    BY <1>5, <1>6

\* When the loser exits, a FIFO that nobody has opened loses what is in it.
LEMMA DepartFifo ==
    ASSUME TypeInv, NEW p \in Player, Depart(p)
    PROVE  /\ p \in Node /\ pc[p] = "leave"
           /\ fifo' \in [Agent -> Seq(Statuses({0}))]
           /\ \A c \in Agent : fifo'[c] = fifo[c] \/ fifo'[c] = <<>>
           /\ Goto(p, "done")
           /\ UNCHANGED <<pipes, made, lostIn, result, full, champion>>
  <1> DEFINE a == LoserAgent[lostIn[p]]
  <1>1. /\ pc[p] = "leave" /\ p \in Node
        /\ fifo' = fifo \/ fifo' = [fifo EXCEPT ![a] = <<>>]
        /\ Goto(p, "done")
        /\ UNCHANGED <<pipes, made, lostIn, result, full, champion>>
    BY DEF Depart, Node
  <1>2. fifo \in [Agent -> Seq(Statuses({0}))] /\ <<>> \in Seq(Statuses({0}))
    BY DEF TypeInv, TypeOK
  <1> HIDE DEF a
  <1> QED
    BY <1>1, <1>2

\* An agent takes the first status in its FIFO to the battle.
LEMMA StandInPipes ==
    ASSUME TypeInv, NEW a \in Player, StandIn(a)
    PROVE  /\ a \in Node /\ a \in Agent /\ pc[a] = "idle" /\ fifo[a] # <<>>
           /\ up' \in [Node -> Seq(Statuses({0}))]
           /\ fifo' \in [Agent -> Seq(Statuses({0}))]
           /\ \A n \in Node \ {a} : up'[n] = up[n]
           /\ up[a] = <<>> => up'[a] = <<Head(fifo[a])>>
           /\ \A c \in Agent \ {a} : fifo'[c] = fifo[c]
           /\ fifo'[a] = Tail(fifo[a])
           /\ Goto(a, "play")
           /\ UNCHANGED <<down, made, lostIn, result, full, champion>>
  <1> DEFINE s == Head(fifo[a])
             T == Statuses({0})
  <1>1. /\ pc[a] = "idle" /\ a \in Node /\ fifo[a] # <<>>
        /\ fifo' = Took(fifo, a) /\ up' = Put(up, a, s)
        /\ Goto(a, "play")
        /\ UNCHANGED <<down, made, lostIn, result, full, champion>>
    BY DEF StandIn, Node
  <1>2. a \in Agent
    BY <1>1 DEF TypeInv, RolesOK, Player
  <1>3. fifo \in [Agent -> Seq(T)] /\ up \in [Node -> Seq(T)]
    BY DEF TypeInv, TypeOK
  <1> HIDE DEF T
  <1>4. /\ s \in T /\ fifo' \in [Agent -> Seq(T)]
        /\ \A c \in Agent \ {a} : fifo'[c] = fifo[c]
        /\ fifo'[a] = Tail(fifo[a])
    <2> DEFINE rest == Took(fifo, a)
    <2>1. a \in Agent /\ fifo \in [Agent -> Seq(T)] /\ fifo[a] # <<>>
      BY <1>1, <1>2, <1>3
    <2>2. /\ s \in T /\ rest \in [Agent -> Seq(T)]
          /\ \A c \in Agent \ {a} : rest[c] = fifo[c]
      BY <2>1, TakeOne
    <2>3. rest[a] = Tail(fifo[a])
      BY <2>1 DEF Took
    <2> QED
      BY <1>1, <2>2, <2>3
  <1> HIDE DEF s
  <1> DEFINE new == Put(up, a, s)
  <1>5. /\ new \in [Node -> Seq(T)]
        /\ up[a] = <<>> => new[a] = <<s>>
        /\ \A k \in Node \ {a} : new[k] = up[k]
    <2>1. a \in Node /\ up \in [Node -> Seq(T)] /\ s \in T
      BY <1>1, <1>3, <1>4
    <2> QED
      BY <2>1, PutOne
  <1> HIDE DEF new
  <1>6. up' = new
    BY <1>1 DEF new
  <1> QED
    BY <1>1, <1>2, <1>4, <1>5, <1>6 DEF T, s

\* A process goes to a place of its kind.
LEMMA GotoRoles ==
    ASSUME TypeInv, NEW n \in Node, NEW label, Goto(n, label),
           n \in Battle => label \in {"reap", "up", "down", "last", "done"},
           n \in Real => label \in {"play", "sleep", "leave", "done"},
           n \in Agent => label \in {"made", "idle", "play", "done"}
    PROVE  /\ RolesOK'
           /\ pc' \in [Node -> {"fight", "reap", "up", "down", "last", "enter", "play",
                                "sleep", "leave", "new", "made", "idle", "done"}]
  <1>1. Battle \subseteq Node /\ Real \subseteq Node /\ Agent \subseteq Node
        /\ Node = Battle \cup Real \cup Agent
    BY DEF Node, Player
  <1>2. pc'[n] = label /\ \A k \in Node \ {n} : pc'[k] = pc[k]
    BY GotoType DEF TypeInv
  <1>3. RolesOK'
    <2>1. ASSUME NEW b \in Battle
          PROVE  pc'[b] \in {"fight", "reap", "up", "down", "last", "done"}
      BY <1>1, <1>2 DEF TypeInv, RolesOK
    <2>2. ASSUME NEW p \in Real
          PROVE  pc'[p] \in {"enter", "play", "sleep", "leave", "done"}
      BY <1>1, <1>2 DEF TypeInv, RolesOK
    <2>3. ASSUME NEW a \in Agent
          PROVE  pc'[a] \in {"new", "made", "idle", "play", "done"}
      BY <1>1, <1>2 DEF TypeInv, RolesOK
    <2> QED
      BY <2>1, <2>2, <2>3 DEF RolesOK
  <1>4. label \in {"fight", "reap", "up", "down", "last", "enter", "play",
                   "sleep", "leave", "new", "made", "idle", "done"}
    BY <1>1
  <1> QED
    BY <1>3, <1>4, GotoType DEF TypeInv

\* A step of process k that ends no process too early.
LEMMA StepOrder ==
    ASSUME TypeInv, NEW k \in Node, NEW label, Goto(k, label), pc[k] # "done",
           winner' = winner,
           k \in Battle =>
               /\ Fought(k)
               /\ label \in {"up", "down", "last", "done"} => pc[Loser(k)] = "done"
               /\ label = "done" => pc[winner[k]] = "done"
    PROVE  EndOrder'
  <1>1. pc'[k] = label /\ \A n \in Node \ {k} : pc'[n] = pc[n]
    BY GotoType DEF TypeInv
  <1>2. \A n \in Node : pc[n] = "done" => pc'[n] = "done"
    BY <1>1
  <1> SUFFICES ASSUME NEW b \in Battle
               PROVE  /\ Fought(b)' => winner'[b] \in Child(b)
                      /\ pc'[b] \in {"up", "down", "last", "done"}
                             => pc'[Loser(b)'] = "done"
                      /\ pc'[b] = "done" => pc'[winner'[b]] = "done"
    BY DEF EndOrder, Loser
  <1>3. Loser(b)' = Loser(b) /\ winner'[b] = winner[b] /\ b \in Node
    BY DEF Loser, Other, Node
  <1>4. Fought(b) => winner[b] \in Child(b)
    BY DEF TypeInv, EndOrder
  <1>5. Fought(b) => winner[b] \in Node /\ Loser(b) \in Node
    BY <1>4, Bracket DEF Loser
  <1>6. CASE b = k
    <2>1. Fought(b)
      BY <1>6
    <2> QED
      BY <1>1, <1>2, <1>3, <1>4, <1>5, <1>6, <2>1
  <1>7. CASE b # k
    <2>1. pc'[b] = pc[b] /\ (Fought(b)' <=> Fought(b))
      BY <1>1, <1>3, <1>7 DEF Fought
    <2>2. /\ pc[b] \in {"up", "down", "last", "done"} => pc[Loser(b)] = "done"
          /\ pc[b] = "done" => pc[winner[b]] = "done"
      BY DEF TypeInv, EndOrder
    <2>3. pc[b] \in {"up", "down", "last", "done"} => Fought(b)
      BY DEF Fought
    <2> QED
      BY <1>2, <1>3, <1>4, <1>5, <2>1, <2>2, <2>3
  <1> QED
    BY <1>6, <1>7

\* Where no process moves, none ends.
LEMMA QuietOrder ==
    ASSUME TypeInv, UNCHANGED <<pc, winner>>
    PROVE  EndOrder' /\ RolesOK'
  BY DEF TypeInv, EndOrder, RolesOK, Fought, Loser, Other

\* The steps of the battles keep the types and the order of the ends.
LEMMA BattleTypes ==
    ASSUME TypeInv, NEW b \in Battle, BattleStep(b)
    PROVE  TypeInv'
  <1>1. b \in Node /\ b \notin Real /\ b \notin Agent
    BY TreeAssumption DEF Node, Player
  <1>2. CASE Fight(b)
    <2>1. /\ up' \in [Node -> Seq(Statuses({0}))]
          /\ down' \in [Node -> Seq(Statuses({0, 1}))]
          /\ \/ UNCHANGED <<result, pc>>
             \/ \E n \in Child(b) :
                    /\ winner' = [winner EXCEPT ![b] = n]
                    /\ won' = [won EXCEPT ![b] = Head(up[n]).id]
                    /\ Head(up[n]).id \in Real
                    /\ Goto(b, "reap")
      BY <1>2, FightPipes
    <2>2. pc[b] = "fight" /\ UNCHANGED <<fifos, lostIn, full, champion>>
      BY <1>2 DEF Fight
    <2>3. CASE UNCHANGED <<result, pc>>
      <3>1. EndOrder' /\ RolesOK'
        BY <2>3, QuietOrder DEF result
      <3> QED
        BY <2>1, <2>2, <2>3, <3>1 DEF TypeInv, TypeOK, result, fifos
    <2>4. ASSUME NEW n \in Child(b),
                 winner' = [winner EXCEPT ![b] = n],
                 won' = [won EXCEPT ![b] = Head(up[n]).id],
                 Head(up[n]).id \in Real,
                 Goto(b, "reap")
          PROVE  TypeInv'
      <3>1. n \in Node
        BY Bracket
      <3>2. winner' \in [Battle -> Node] /\ won' \in [Battle -> Real]
        BY <2>4, <3>1 DEF TypeInv, TypeOK
      <3>3. RolesOK' /\ TypeOK'
        <4>1. RolesOK' /\ pc' \in [Node -> {"fight", "reap", "up", "down", "last",
                                            "enter", "play", "sleep", "leave", "new",
                                            "made", "idle", "done"}]
          BY <1>1, <2>4, GotoRoles
        <4> QED
          BY <2>1, <2>2, <3>2, <4>1 DEF TypeInv, TypeOK, fifos
      <3>4. EndOrder'
        <4>1. pc'[b] = "reap" /\ \A k \in Node \ {b} : pc'[k] = pc[k]
          BY <1>1, <2>4, GotoType DEF TypeInv
        <4>2. \A k \in Node : pc[k] = "done" => pc'[k] = "done"
          BY <2>2, <4>1
        <4>3. winner'[b] = n /\ \A c \in Battle \ {b} : winner'[c] = winner[c]
          BY <2>4 DEF TypeInv, TypeOK
        <4> SUFFICES ASSUME NEW c \in Battle
                     PROVE  /\ Fought(c)' => winner'[c] \in Child(c)
                            /\ pc'[c] \in {"up", "down", "last", "done"}
                                   => pc'[Loser(c)'] = "done"
                            /\ pc'[c] = "done" => pc'[winner'[c]] = "done"
          BY DEF EndOrder, Loser
        <4>4. CASE c = b
          BY <4>1, <4>3, <4>4
        <4>5. CASE c # b
          <5>1. c \in Node /\ pc'[c] = pc[c] /\ winner'[c] = winner[c]
                /\ Loser(c)' = Loser(c) /\ (Fought(c)' <=> Fought(c))
            BY <4>1, <4>3, <4>5 DEF Node, Loser, Other, Fought
          <5>2. /\ Fought(c) => winner[c] \in Child(c)
                /\ pc[c] \in {"up", "down", "last", "done"} => pc[Loser(c)] = "done"
                /\ pc[c] = "done" => pc[winner[c]] = "done"
            BY DEF TypeInv, EndOrder
          <5>3. Fought(c) => winner[c] \in Node /\ Loser(c) \in Node
            BY <5>2, Bracket DEF Loser
          <5>4. pc[c] \in {"up", "down", "last", "done"} => Fought(c)
            BY DEF Fought
          <5> QED
            BY <4>2, <5>1, <5>2, <5>3, <5>4
        <4> QED
          BY <4>4, <4>5
      <3> QED
        BY <3>3, <3>4 DEF TypeInv
    <2> QED
      BY <2>1, <2>3, <2>4
  <1>3. CASE Reap(b)
    <2> DEFINE next == IF b = Final THEN "last" ELSE "up"
    <2>1. /\ pc[b] = "reap" /\ Fought(b) /\ pc[Loser(b)] = "done"
          /\ Goto(b, next) /\ next \in {"last", "up"} /\ champion' \subseteq Real
          /\ UNCHANGED <<pipes, fifos, lostIn, result, full>>
      BY <1>3 DEF Reap, Fought, Loser, TypeInv, TypeOK
    <2> HIDE DEF next
    <2>2. EndOrder'
      BY <1>1, <2>1, StepOrder DEF result
    <2>3. RolesOK' /\ pc' \in [Node -> {"fight", "reap", "up", "down", "last",
                                        "enter", "play", "sleep", "leave", "new",
                                        "made", "idle", "done"}]
      BY <1>1, <2>1, GotoRoles
    <2> QED
      BY <2>1, <2>2, <2>3 DEF TypeInv, TypeOK, pipes, fifos, result
  <1>4. CASE PassUp(b)
    <2>1. /\ pc[b] = "up" /\ up' \in [Node -> Seq(Statuses({0}))] /\ Goto(b, "down")
          /\ UNCHANGED <<down, fifos, lostIn, result, full, champion>>
      BY <1>4, PassUpPipes
    <2>2. Fought(b) /\ pc[Loser(b)] = "done"
      BY <2>1 DEF TypeInv, EndOrder, Fought
    <2>3. EndOrder'
      BY <1>1, <2>1, <2>2, StepOrder DEF result
    <2>4. RolesOK' /\ pc' \in [Node -> {"fight", "reap", "up", "down", "last",
                                        "enter", "play", "sleep", "leave", "new",
                                        "made", "idle", "done"}]
      BY <1>1, <2>1, GotoRoles
    <2> QED
      BY <2>1, <2>3, <2>4 DEF TypeInv, TypeOK, fifos, result
  <1>5. CASE PassDown(b)
    <2>1. /\ pc[b] = "down" /\ down' \in [Node -> Seq(Statuses({0, 1}))]
          /\ \E label \in {"last", "up"} : Goto(b, label)
          /\ UNCHANGED <<up, fifos, lostIn, result, full, champion>>
      BY <1>5, PassDownPipes
    <2>2. PICK label \in {"last", "up"} : Goto(b, label)
      BY <2>1
    <2>3. Fought(b) /\ pc[Loser(b)] = "done"
      BY <2>1 DEF TypeInv, EndOrder, Fought
    <2>4. EndOrder'
      BY <1>1, <2>1, <2>2, <2>3, StepOrder DEF result
    <2>5. RolesOK' /\ pc' \in [Node -> {"fight", "reap", "up", "down", "last",
                                        "enter", "play", "sleep", "leave", "new",
                                        "made", "idle", "done"}]
      BY <1>1, <2>2, GotoRoles
    <2> QED
      BY <2>1, <2>4, <2>5 DEF TypeInv, TypeOK, fifos, result
  <1>6. CASE End(b)
    <2>1. /\ pc[b] = "last" /\ pc[winner[b]] = "done" /\ Goto(b, "done")
          /\ UNCHANGED <<pipes, fifos, lostIn, result, full, champion>>
      BY <1>6 DEF End, MayEnd
    <2>2. Fought(b) /\ pc[Loser(b)] = "done"
      BY <2>1 DEF TypeInv, EndOrder, Fought
    <2>3. EndOrder'
      BY <1>1, <2>1, <2>2, StepOrder DEF result
    <2>4. RolesOK' /\ pc' \in [Node -> {"fight", "reap", "up", "down", "last",
                                        "enter", "play", "sleep", "leave", "new",
                                        "made", "idle", "done"}]
      BY <1>1, <2>1, GotoRoles
    <2> QED
      BY <2>1, <2>3, <2>4 DEF TypeInv, TypeOK, pipes, fifos, result
  <1> QED
    BY <1>2, <1>3, <1>4, <1>5, <1>6 DEF BattleStep

\* The steps of the players and the agents do.
LEMMA PlayerTypes ==
    ASSUME TypeInv, NEW p \in Player, PlayerStep(p)
    PROVE  TypeInv'
  <1> DEFINE Labels == {"fight", "reap", "up", "down", "last", "enter", "play",
                        "sleep", "leave", "new", "made", "idle", "done"}
  <1>1. p \in Node /\ p \notin Battle
    BY Bracket DEF Node
  <1>2. CASE Enter(p)
    <2>1. /\ p \in Real /\ pc[p] = "enter" /\ Goto(p, "play")
          /\ up' \in [Node -> Seq(Statuses({0}))]
          /\ UNCHANGED <<down, fifos, lostIn, result, full, champion>>
      BY <1>2, EnterPipes
    <2>2. EndOrder'
      BY <1>1, <2>1, StepOrder DEF result
    <2>3. RolesOK' /\ pc' \in [Node -> Labels]
      BY <1>1, <2>1, GotoRoles
    <2> QED
      BY <2>1, <2>2, <2>3 DEF TypeInv, TypeOK, fifos, result
  <1>3. CASE Return(p) \/ Win(p)
    <2>1. /\ up' \in [Node -> Seq(Statuses({0}))]
          /\ down' \in [Node -> Seq(Statuses({0, 1}))]
          /\ UNCHANGED <<pc, fifos, lostIn, result, full, champion>>
      BY <1>3, AnswerPipes
    <2>2. EndOrder' /\ RolesOK'
      BY <2>1, QuietOrder DEF result
    <2> QED
      BY <2>1, <2>2 DEF TypeInv, TypeOK, fifos, result
  <1>4. CASE Finish(p) \/ Lose(p)
    <2>1. /\ pc[p] = "play"
          /\ down' \in [Node -> Seq(Statuses({0, 1}))]
          /\ \/ Goto(p, "done") /\ lostIn' = lostIn
             \/ Goto(p, "sleep") /\ p \in Real /\ lostIn' \in [Real -> Battle]
          /\ UNCHANGED <<up, fifos, result, full, champion>>
      BY <1>4, LeavePipes
    <2>2. EndOrder'
      BY <1>1, <2>1, StepOrder DEF result
    <2>3. RolesOK' /\ pc' \in [Node -> Labels]
      <3>1. CASE Goto(p, "done")
        BY <1>1, <3>1, GotoRoles
      <3>2. CASE Goto(p, "sleep") /\ p \in Real
        <4>1. p \notin Agent
          BY <3>2, TreeAssumption
        <4> QED
          BY <1>1, <3>2, <4>1, GotoRoles
      <3> QED
        BY <2>1, <3>1, <3>2
    <2>4. lostIn' \in [Real -> Battle]
      BY <2>1 DEF TypeInv, TypeOK
    <2> QED
      BY <2>1, <2>2, <2>3, <2>4 DEF TypeInv, TypeOK, fifos, result
  <1>5. CASE HandOver(p)
    <2>1. /\ p \in Real /\ pc[p] = "sleep" /\ Goto(p, "leave")
          /\ fifo' \in [Agent -> Seq(Statuses({0}))]
          /\ UNCHANGED <<pipes, made, lostIn, result, full, champion>>
      BY <1>5, HandOverFifo
    <2>2. p \notin Agent
      BY <2>1, TreeAssumption
    <2>3. EndOrder'
      BY <1>1, <2>1, StepOrder DEF result
    <2>4. RolesOK' /\ pc' \in [Node -> Labels]
      BY <1>1, <2>1, <2>2, GotoRoles
    <2> QED
      BY <2>1, <2>3, <2>4 DEF TypeInv, TypeOK, pipes, result
  <1>6. CASE Depart(p)
    <2>1. /\ pc[p] = "leave" /\ Goto(p, "done")
          /\ fifo' \in [Agent -> Seq(Statuses({0}))]
          /\ UNCHANGED <<pipes, made, lostIn, result, full, champion>>
      BY <1>6, DepartFifo
    <2>2. EndOrder'
      BY <1>1, <2>1, StepOrder DEF result
    <2>3. RolesOK' /\ pc' \in [Node -> Labels]
      BY <1>1, <2>1, GotoRoles
    <2> QED
      BY <2>1, <2>2, <2>3 DEF TypeInv, TypeOK, pipes, result
  <1>7. CASE MakeFifo(p)
    <2>1. /\ p \in Agent /\ pc[p] = "new" /\ Goto(p, "made")
          /\ made' \in [Agent -> BOOLEAN]
          /\ UNCHANGED <<pipes, fifo, lostIn, result, full, champion>>
      BY <1>7 DEF MakeFifo, TypeInv, TypeOK
    <2>2. p \notin Real
      BY <2>1, TreeAssumption
    <2>3. EndOrder'
      BY <1>1, <2>1, StepOrder DEF result
    <2>4. RolesOK' /\ pc' \in [Node -> Labels]
      BY <1>1, <2>1, <2>2, GotoRoles
    <2> QED
      BY <2>1, <2>3, <2>4 DEF TypeInv, TypeOK, pipes, result
  <1>8. CASE OpenFifo(p)
    <2>1. /\ pc[p] = "made" /\ Goto(p, "idle")
          /\ UNCHANGED <<pipes, fifos, lostIn, result, full, champion>>
      BY <1>8 DEF OpenFifo
    <2>2. p \notin Real
      BY <2>1 DEF TypeInv, RolesOK
    <2>3. EndOrder'
      BY <1>1, <2>1, StepOrder DEF result
    <2>4. RolesOK' /\ pc' \in [Node -> Labels]
      BY <1>1, <2>1, <2>2, GotoRoles
    <2> QED
      BY <2>1, <2>3, <2>4 DEF TypeInv, TypeOK, pipes, fifos, result
  <1>9. CASE StandIn(p)
    <2>1. /\ p \in Agent /\ pc[p] = "idle" /\ Goto(p, "play")
          /\ up' \in [Node -> Seq(Statuses({0}))]
          /\ fifo' \in [Agent -> Seq(Statuses({0}))]
          /\ UNCHANGED <<down, made, lostIn, result, full, champion>>
      BY <1>9, StandInPipes
    <2>2. EndOrder'
      BY <1>1, <2>1, StepOrder DEF result
    <2>3. RolesOK' /\ pc' \in [Node -> Labels]
      BY <1>1, <2>1, GotoRoles
    <2> QED
      BY <2>1, <2>2, <2>3 DEF TypeInv, TypeOK, result
  <1> QED
    BY <1>2, <1>3, <1>4, <1>5, <1>6, <1>7, <1>8, <1>9 DEF PlayerStep

\* The championship begins with the right types.
LEMMA InitTypes == Init => TypeInv
  <1> SUFFICES ASSUME Init PROVE TypeInv
    OBVIOUS
  <1>1. /\ Battle \cap Real = {} /\ Battle \cap Agent = {} /\ Real \cap Agent = {}
        /\ Node = Battle \cup Real \cup Agent
    BY TreeAssumption DEF Player, Node
  <1>2. \A n \in Node : pc[n] = IF n \in Battle THEN "fight"
                                ELSE IF n \in Real THEN "enter" ELSE "new"
    BY DEF Init
  <1>3. RolesOK
    BY <1>1, <1>2 DEF RolesOK
  <1>4. EndOrder
    <2>1. \A b \in Battle : pc[b] = "fight"
      BY <1>1, <1>2
    <2> QED
      BY <2>1 DEF EndOrder, Fought
  <1>5. pc \in [Node -> {"fight", "reap", "up", "down", "last", "enter", "play",
                         "sleep", "leave", "new", "made", "idle", "done"}]
    BY DEF Init
  <1>6. made \in [Agent -> BOOLEAN]
    BY DEF Init
  <1>7. lostIn \in [Real -> Battle]
    BY Bracket DEF Init, Player
  <1>8. winner \in [Battle -> Node] /\ won \in [Battle -> Real]
    BY <1>1, LeastReal DEF Init
  <1>9. /\ up \in [Node -> Seq(Statuses({0}))]
        /\ down \in [Node -> Seq(Statuses({0, 1}))]
        /\ fifo \in [Agent -> Seq(Statuses({0}))]
    BY DEF Init
  <1> QED
    BY <1>3, <1>4, <1>5, <1>6, <1>7, <1>8, <1>9 DEF TypeInv, TypeOK, Init

\* Every step keeps them.
LEMMA NextTypes == TypeInv /\ [Next]_vars => TypeInv'
  <1> SUFFICES ASSUME TypeInv, [Next]_vars PROVE TypeInv'
    OBVIOUS
  <1>1. CASE UNCHANGED vars
    BY <1>1, QuietOrder DEF TypeInv, TypeOK, vars, pipes, fifos, result
  <1> QED
    BY <1>1, BattleTypes, PlayerTypes DEF Next

\* In every championship, for every bracket, the variables have their types: a
\* status goes up, and through a FIFO, with its flag cleared.
THEOREM TournamentTypes == Spec => []TypeOK
  <1>1. TypeInv => TypeOK
    BY DEF TypeInv
  <1> QED
    BY <1>1, InitTypes, NextTypes, PTL DEF Spec

\* A battle's process ends after those of both its children.
THEOREM ParentsOutliveChildren == Spec => []ChildrenFirst
  <1>1. TypeInv => ChildrenFirst
    <2> SUFFICES ASSUME TypeInv, NEW b \in Battle, pc[b] = "done", NEW n \in Child(b)
                 PROVE  pc[n] = "done"
      BY DEF ChildrenFirst
    <2>1. /\ winner[b] \in Child(b) /\ pc[winner[b]] = "done"
          /\ pc[Loser(b)] = "done"
      BY DEF TypeInv, EndOrder, Fought
    <2>2. n = winner[b] \/ n = Loser(b)
      BY <2>1 DEF Child, Loser, Other
    <2> QED
      BY <2>1, <2>2
  <1> QED
    BY <1>1, InitTypes, NextTypes, PTL DEF Spec

-----------------------------------------------------------------------------
(* Where the statuses are.                                                  *)

FlowInv == OneStatus /\ OneBelow /\ OwnStatus /\ WinnerBegan

\* Nothing comes to or leaves the pipes between n and its parent, although an
\* answer may have taken the place of a question.
Stays(n) ==
    /\ OneAt(n)'
    /\ Silent(n)' <=> Silent(n)
    /\ \A p \in Real : Between(n, p)' <=> Between(n, p)

\* Pipes that a step leaves alone.
LEMMA UntouchedStays ==
    ASSUME OneStatus, NEW n \in Node, up'[n] = up[n], down'[n] = down[n]
    PROVE  Stays(n)
  BY DEF OneStatus, Stays, OneAt, Silent, Between

\* After a step there is a single status in the pipes of n.
LEMMA SingleStatus ==
    ASSUME NEW n \in Node, NEW s,
           \/ up'[n] = <<s>> /\ down'[n] = <<>>
           \/ up'[n] = <<>> /\ down'[n] = <<s>>
    PROVE  OneAt(n)' /\ ~Silent(n)' /\ \A p : Between(n, p)' <=> s.id = p
  <1>1. <<s>> # <<>> /\ Head(<<s>>) = s /\ Len(<<s>>) = 1 /\ Len(<<>>) = 0
    OBVIOUS
  <1> DEFINE one == <<s>>
  <1> HIDE DEF one
  <1>2. one # <<>> /\ Head(one) = s /\ Len(one) = 1
    BY <1>1 DEF one
  <1>3. \/ up'[n] = one /\ down'[n] = <<>>
        \/ up'[n] = <<>> /\ down'[n] = one
    BY DEF one
  <1>4. OneAt(n)'
    <2>1. Len(<<>>) <= 1 /\ Len(one) <= 1
      BY <1>1, <1>2
    <2>2. CASE up'[n] = one /\ down'[n] = <<>>
      BY <2>1, <2>2, Zenon DEF OneAt
    <2>3. CASE up'[n] = <<>> /\ down'[n] = one
      BY <2>1, <2>3, Zenon DEF OneAt
    <2> QED
      BY <1>3, <2>2, <2>3
  <1>5. ~Silent(n)'
    BY <1>2, <1>3 DEF Silent
  <1>6. \A p : Between(n, p)' <=> s.id = p
    BY <1>2, <1>3 DEF Between
  <1> QED
    BY <1>4, <1>5, <1>6

\* No status there.
LEMMA NoStatus ==
    ASSUME NEW n \in Node, up'[n] = <<>>, down'[n] = <<>>
    PROVE  OneAt(n)' /\ Silent(n)' /\ \A p : ~Between(n, p)'
  <1>1. Len(<<>>) <= 1
    OBVIOUS
  <1> QED
    BY <1>1 DEF OneAt, Silent, Between

\* A step that only moves a process k that is not waiting for an answer.
LEMMA StayFlow ==
    ASSUME TypeInv, FlowInv, \A n \in Node : Stays(n), UNCHANGED result,
           \/ UNCHANGED pc
           \/ \E k \in Node : \E label :
                  /\ Goto(k, label)
                  /\ pc[k] \notin {"down", "play", "fight", "enter"}
                  /\ label \notin {"down", "fight", "enter", "new"}
                  /\ label \in {"made", "idle"} => pc[k] \in {"new", "made"}
    PROVE  FlowInv'
  <1>1. /\ \A n \in Node : pc[n] \in {"down", "play"} => pc'[n] = pc[n]
        /\ \A n \in Node : pc'[n] = "down" <=> pc[n] = "down"
        /\ \A n \in Node : pc'[n] = "fight" <=> pc[n] = "fight"
        /\ \A n \in Node : pc[n] \notin {"fight", "enter", "new", "made", "idle"}
               => pc'[n] \notin {"fight", "enter", "new", "made", "idle"}
    <2>1. CASE UNCHANGED pc
      BY <2>1
    <2>2. ASSUME NEW k \in Node, NEW label,
                 Goto(k, label),
                 pc[k] \notin {"down", "play", "fight", "enter"},
                 label \notin {"down", "fight", "enter", "new"},
                 label \in {"made", "idle"} => pc[k] \in {"new", "made"}
          PROVE  /\ \A n \in Node : pc[n] \in {"down", "play"} => pc'[n] = pc[n]
                 /\ \A n \in Node : pc'[n] = "down" <=> pc[n] = "down"
                 /\ \A n \in Node : pc'[n] = "fight" <=> pc[n] = "fight"
                 /\ \A n \in Node : pc[n] \notin {"fight", "enter", "new", "made", "idle"}
                        => pc'[n] \notin {"fight", "enter", "new", "made", "idle"}
      <3>1. pc'[k] = label /\ \A n \in Node \ {k} : pc'[n] = pc[n]
        BY <2>2, GotoType DEF TypeInv
      <3> QED
        BY <2>2, <3>1
    <2> QED
      BY <2>1, <2>2
  <1>2. winner' = winner /\ won' = won
    BY DEF result
  <1>3. /\ Battle \subseteq Node /\ Real \subseteq Node
        /\ \A b \in Battle : Fought(b) => winner[b] \in Node
    BY Bracket DEF Node, Player, TypeInv, EndOrder
  <1>4. \A b \in Battle : Fought(b)' <=> Fought(b)
    BY <1>1, <1>3 DEF Fought
  <1>5. OneStatus'
    BY <1>1 DEF FlowInv, OneStatus, Stays
  <1>6. OneBelow'
    <2> SUFFICES ASSUME NEW b \in Battle, pc'[b] = "down", NEW w, w = winner[b]
                 PROVE  Silent(w)' /\ pc'[w] \in {"down", "play"}
      BY <1>2 DEF OneBelow, Silent
    <2>1. Silent(w) /\ pc[w] \in {"down", "play"} /\ w \in Node
      BY <1>1, <1>3 DEF FlowInv, OneBelow, Fought
    <2> QED
      BY <1>1, <2>1 DEF Stays
  <1>7. OwnStatus'
    <2> SUFFICES ASSUME NEW p \in Real
                 PROVE  /\ \A q \in Real : Between(q, p)' => p = q
                        /\ \A b \in Battle : Between(b, p)' => Fought(b)' /\ won[b] = p
                        /\ \A b \in Battle : Fought(b)' /\ Between(winner[b], p)'
                                                => won[b] = p
      BY <1>2 DEF OwnStatus, Between
    <2>1. \A n \in Node : Between(n, p)' <=> Between(n, p)
      BY DEF Stays
    <2>2. ASSUME NEW b \in Battle, Fought(b)', Between(winner[b], p)'
          PROVE  won[b] = p
      <3> DEFINE w == winner[b]
      <3>1. w \in Node /\ Fought(b)
        BY <1>3, <1>4, <2>2
      <3>2. up'[w] = up'[winner'[b]] /\ down'[w] = down'[winner'[b]]
        BY <1>2
      <3>3. Between(w, p)
        BY <1>2, <2>1, <2>2, <3>1 DEF Between
      <3> QED
        BY <3>1, <3>3 DEF FlowInv, OwnStatus
    <2> QED
      BY <1>3, <1>4, <2>1, <2>2 DEF FlowInv, OwnStatus
  <1>8. WinnerBegan'
    BY <1>1, <1>2, <1>3, <1>4 DEF FlowInv, WinnerBegan
  <1> QED
    BY <1>5, <1>6, <1>7, <1>8 DEF FlowInv

\* The id of a status is that of a real player.
LEMMA RealIds ==
    ASSUME TypeInv, NEW n \in Node
    PROVE  /\ up[n] # <<>> => Head(up[n]).id \in Real
           /\ down[n] # <<>> => Head(down[n]).id \in Real
           /\ ~Silent(n) => \E p \in Real : Between(n, p)
  <1>1. up[n] \in Seq(Statuses({0})) /\ down[n] \in Seq(Statuses({0, 1}))
    BY DEF TypeInv, TypeOK
  <1>2. up[n] # <<>> => Head(up[n]) \in Statuses({0})
    BY <1>1
  <1>3. down[n] # <<>> => Head(down[n]) \in Statuses({0, 1})
    BY <1>1
  <1>4. /\ up[n] # <<>> => Head(up[n]).id \in Real
        /\ down[n] # <<>> => Head(down[n]).id \in Real
    BY <1>2, <1>3 DEF Statuses
  <1> QED
    BY <1>4 DEF Silent, Between

\* A round leaves every status with the process it came from.
LEMMA FightPlaces ==
    ASSUME TypeInv, OneStatus, NEW b \in Battle, Fight(b)
    PROVE  /\ \A n \in Node : Stays(n)
           /\ Silent(b)
           /\ \A n \in Child(b) : /\ pc[n] \in {"down", "play"}
                                  /\ Between(n, Head(up[n]).id)
                                  /\ \A p : Between(n, p) => p = Head(up[n]).id
  <1>1. /\ up[Left[b]] # <<>> /\ up[Right[b]] # <<>>
        /\ \A n \in Node \ Child(b) : up'[n] = up[n] /\ down'[n] = down[n]
        /\ \A n \in Child(b) :
               /\ Len(up[n]) <= 1 => up'[n] = <<>>
               /\ \E s \in Statuses({0, 1}) :
                      /\ down[n] = <<>> => down'[n] = <<s>>
                      /\ s.id = Head(up[n]).id
    BY FightPipes
  <1>2. pc[b] = "fight" /\ b \in Node
    BY DEF Fight, Node
  <1>3. Silent(b)
    BY <1>2 DEF OneStatus
  <1>4. ASSUME NEW n \in Child(b)
        PROVE  /\ Stays(n)
               /\ pc[n] \in {"down", "play"}
               /\ Between(n, Head(up[n]).id)
               /\ \A p : Between(n, p) => p = Head(up[n]).id
    <2>1. n \in Node /\ up[n] # <<>>
      BY <1>1, Bracket DEF Child
    <2>2. down[n] = <<>> /\ Len(up[n]) <= 1 /\ pc[n] \in {"down", "play"} /\ ~Silent(n)
      BY <2>1 DEF OneStatus, OneAt, Silent
    <2>3. PICK s \in Statuses({0, 1}) : down'[n] = <<s>> /\ s.id = Head(up[n]).id
      BY <1>1, <2>2
    <2>4. up'[n] = <<>>
      BY <1>1, <2>2
    <2>5. OneAt(n)' /\ ~Silent(n)' /\ \A p : Between(n, p)' <=> s.id = p
      BY <2>1, <2>3, <2>4, SingleStatus
    <2>6. \A p : Between(n, p) <=> p = Head(up[n]).id
      BY <2>1, <2>2 DEF Between
    <2>7. Stays(n)
      BY <2>2, <2>3, <2>5, <2>6 DEF Stays
    <2> QED
      BY <2>2, <2>6, <2>7
  <1>5. ASSUME NEW n \in Node \ Child(b)
        PROVE  Stays(n)
    BY <1>1, UntouchedStays
  <1> QED
    BY <1>3, <1>4, <1>5

\* So does the answer of a player.
LEMMA AnswerPlaces ==
    ASSUME TypeInv, OneStatus, NEW p \in Player, Return(p) \/ Win(p)
    PROVE  \A n \in Node : Stays(n)
  <1>1. /\ p \in Node /\ down[p] # <<>>
        /\ \A n \in Node \ {p} : up'[n] = up[n] /\ down'[n] = down[n]
        /\ Len(down[p]) <= 1 => down'[p] = <<>>
        /\ \E s \in Statuses({0}) : /\ up[p] = <<>> => up'[p] = <<s>>
                                    /\ s.id = Head(down[p]).id
    BY AnswerPipes
  <1>2. up[p] = <<>> /\ Len(down[p]) <= 1 /\ ~Silent(p)
    BY <1>1 DEF OneStatus, OneAt, Silent
  <1>3. PICK s \in Statuses({0}) : up'[p] = <<s>> /\ s.id = Head(down[p]).id
    BY <1>1, <1>2
  <1>4. OneAt(p)' /\ ~Silent(p)' /\ \A q : Between(p, q)' <=> s.id = q
    BY <1>1, <1>2, <1>3, SingleStatus
  <1>5. \A q : Between(p, q) <=> q = Head(down[p]).id
    BY <1>1, <1>2 DEF Between
  <1>6. Stays(p)
    BY <1>2, <1>3, <1>4, <1>5 DEF Stays
  <1> QED
    BY <1>1, <1>6, UntouchedStays

\* The status in the pipes of n moves to those of k, which were empty.
Moves(n, k) ==
    /\ n # k
    /\ OneAt(n)' /\ Silent(n)' /\ OneAt(k)' /\ ~Silent(k)'
    /\ \A p \in Real : ~Between(n, p)' /\ (Between(k, p)' <=> Between(n, p))
    /\ \A m \in Node \ {n, k} : Stays(m)

\* Passing mode moves a status up, past a battle in which none was on its way.
LEMMA PassUpPlaces ==
    ASSUME TypeInv, OneStatus, NEW b \in Battle, PassUp(b), NEW w, w = winner[b]
    PROVE  Moves(w, b) /\ w \in Node /\ pc[w] \in {"down", "play"}
  <1> DEFINE s == Head(up[w])
  <1>1. /\ w \in Node /\ up[w] # <<>> /\ pc[b] = "up" /\ down' = down
        /\ \A n \in Node \ {w, b} : up'[n] = up[n]
        /\ w # b /\ Len(up[w]) <= 1 => up'[w] = <<>>
        /\ w # b /\ up[b] = <<>> => up'[b] = <<s>>
    BY PassUpPipes
  <1>2. b \in Node
    BY DEF Node
  <1>3. /\ down[w] = <<>> /\ Len(up[w]) <= 1 /\ pc[w] \in {"down", "play"}
        /\ up[b] = <<>> /\ down[b] = <<>>
    BY <1>1, <1>2 DEF OneStatus, OneAt, Silent
  <1>4. w # b /\ up'[w] = <<>> /\ down'[w] = <<>> /\ up'[b] = <<s>> /\ down'[b] = <<>>
    BY <1>1, <1>3
  <1>5. \A p : Between(w, p) <=> s.id = p
    BY <1>1, <1>3 DEF Between
  <1> HIDE DEF s
  <1>6. OneAt(w)' /\ Silent(w)' /\ \A p : ~Between(w, p)'
    BY <1>1, <1>4, NoStatus
  <1>7. OneAt(b)' /\ ~Silent(b)' /\ \A p : Between(b, p)' <=> s.id = p
    BY <1>2, <1>4, SingleStatus
  <1>8. ASSUME NEW m \in Node \ {w, b}
        PROVE  Stays(m)
    BY <1>1, UntouchedStays
  <1> QED
    BY <1>1, <1>3, <1>4, <1>5, <1>6, <1>7, <1>8 DEF Moves

\* And down, to a winner that waits.
LEMMA PassDownPlaces ==
    ASSUME TypeInv, OneStatus, OneBelow, NEW b \in Battle, PassDown(b),
           NEW w, w = winner[b]
    PROVE  Moves(b, w) /\ w \in Node /\ pc[w] \in {"down", "play"}
  <1> DEFINE s == Head(down[b])
  <1>1. /\ w \in Node /\ down[b] # <<>> /\ pc[b] = "down" /\ up' = up
        /\ \A n \in Node \ {w, b} : down'[n] = down[n]
        /\ w # b /\ Len(down[b]) <= 1 => down'[b] = <<>>
        /\ w # b /\ down[w] = <<>> => down'[w] = <<s>>
    BY PassDownPipes
  <1>2. b \in Node
    BY DEF Node
  <1>3. /\ up[b] = <<>> /\ Len(down[b]) <= 1
        /\ up[w] = <<>> /\ down[w] = <<>> /\ pc[w] \in {"down", "play"}
    BY <1>1, <1>2 DEF OneStatus, OneAt, OneBelow, Silent
  <1>4. w # b /\ up'[w] = <<>> /\ down'[w] = <<s>> /\ up'[b] = <<>> /\ down'[b] = <<>>
    BY <1>1, <1>3
  <1>5. \A p : Between(b, p) <=> s.id = p
    BY <1>1, <1>3 DEF Between
  <1> HIDE DEF s
  <1>6. OneAt(b)' /\ Silent(b)' /\ \A p : ~Between(b, p)'
    BY <1>2, <1>4, NoStatus
  <1>7. OneAt(w)' /\ ~Silent(w)' /\ \A p : Between(w, p)' <=> s.id = p
    BY <1>1, <1>4, SingleStatus
  <1>8. ASSUME NEW m \in Node \ {w, b}
        PROVE  Stays(m)
    BY <1>1, UntouchedStays
  <1> QED
    BY <1>1, <1>3, <1>4, <1>5, <1>6, <1>7, <1>8 DEF Moves

\* A player that leaves takes its status along.
LEMMA LeavePlaces ==
    ASSUME TypeInv, OneStatus, NEW p \in Player, Finish(p) \/ Lose(p)
    PROVE  /\ OneAt(p)' /\ Silent(p)' /\ ~Silent(p)
           /\ \A q \in Real : ~Between(p, q)'
           /\ \A n \in Node \ {p} : Stays(n)
  <1>1. /\ p \in Node /\ down[p] # <<>> /\ up' = up
        /\ \A n \in Node \ {p} : down'[n] = down[n]
        /\ Len(down[p]) <= 1 => down'[p] = <<>>
    BY LeavePipes
  <1>2. up[p] = <<>> /\ Len(down[p]) <= 1 /\ ~Silent(p)
    BY <1>1 DEF OneStatus, OneAt, Silent
  <1>3. OneAt(p)' /\ Silent(p)' /\ \A q : ~Between(p, q)'
    BY <1>1, <1>2, NoStatus
  <1> QED
    BY <1>1, <1>2, <1>3, UntouchedStays

\* A player that begins sends the status id belongs to.
Begins(k, id) ==
    /\ k \in Node /\ pc[k] \in {"enter", "idle"} /\ id \in Real
    /\ k \in Real => k = id
    /\ Silent(k) /\ OneAt(k)' /\ ~Silent(k)'
    /\ \A p \in Real : ~Between(k, p) /\ (Between(k, p)' <=> p = id)
    /\ \A n \in Node \ {k} : Stays(n)

\* A real player with its own, an agent with the first one in its FIFO.
LEMMA BeginPlaces ==
    ASSUME TypeInv, OneStatus, NEW k \in Player
    PROVE  /\ Enter(k) => Begins(k, k)
           /\ StandIn(k) => Begins(k, Head(fifo[k]).id)
  <1>1. ASSUME NEW s, k \in Node, pc[k] \in {"enter", "idle"}, s.id \in Real,
               k \in Real => k = s.id, down' = down,
               up[k] = <<>> => up'[k] = <<s>>,
               \A n \in Node \ {k} : up'[n] = up[n]
        PROVE  Begins(k, s.id)
    <2>1. Silent(k) /\ up[k] = <<>> /\ down[k] = <<>>
      BY <1>1 DEF OneStatus, Silent
    <2>2. OneAt(k)' /\ ~Silent(k)' /\ \A p : Between(k, p)' <=> s.id = p
      BY <1>1, <2>1, SingleStatus
    <2>3. \A n \in Node \ {k} : Stays(n)
      BY <1>1, UntouchedStays
    <2>4. \A p : ~Between(k, p)
      BY <2>1 DEF Between
    <2> QED
      BY <1>1, <2>1, <2>2, <2>3, <2>4 DEF Begins
  <1>2. ASSUME Enter(k)
        PROVE  Begins(k, k)
    <2>1. /\ k \in Node /\ k \in Real /\ pc[k] = "enter" /\ down' = down
          /\ \A n \in Node \ {k} : up'[n] = up[n]
          /\ \E s \in Statuses({0}) : /\ up[k] = <<>> => up'[k] = <<s>>
                                      /\ s.id = k
      BY <1>2, EnterPipes
    <2>2. PICK s \in Statuses({0}) : /\ up[k] = <<>> => up'[k] = <<s>>
                                     /\ s.id = k
      BY <2>1
    <2>3. Begins(k, s.id)
      BY <1>1, <2>1, <2>2
    <2> QED
      BY <2>2, <2>3
  <1>3. ASSUME StandIn(k)
        PROVE  Begins(k, Head(fifo[k]).id)
    <2> DEFINE s == Head(fifo[k])
    <2>1. /\ k \in Node /\ k \in Agent /\ pc[k] = "idle" /\ down' = down
          /\ fifo[k] # <<>>
          /\ \A n \in Node \ {k} : up'[n] = up[n]
          /\ up[k] = <<>> => up'[k] = <<s>>
      BY <1>3, StandInPipes
    <2>2. fifo[k] \in Seq(Statuses({0}))
      BY <2>1 DEF TypeInv, TypeOK
    <2>3. s \in Statuses({0})
      BY <2>1, <2>2
    <2>4. s.id \in Real /\ k \notin Real
      BY <2>1, <2>3, TreeAssumption DEF Statuses
    <2> HIDE DEF s
    <2>5. Begins(k, s.id)
      BY <1>1, <2>1, <2>4
    <2> QED
      BY <2>5 DEF s
  <1> QED
    BY <1>2, <1>3

\* A round of a battle.
LEMMA FightFlow ==
    ASSUME TypeInv, FlowInv, NEW b \in Battle, Fight(b)
    PROVE  FlowInv'
  <1>1. /\ \A n \in Node : Stays(n)
        /\ Silent(b)
        /\ \A n \in Child(b) : /\ pc[n] \in {"down", "play"}
                               /\ Between(n, Head(up[n]).id)
                               /\ \A p : Between(n, p) => p = Head(up[n]).id
    BY FightPlaces DEF FlowInv
  <1>2. CASE UNCHANGED <<result, pc>>
    BY <1>1, <1>2, StayFlow
  <1>3. ASSUME NEW n \in Child(b), NEW id \in Real, id = Head(up[n]).id,
               winner' = [winner EXCEPT ![b] = n],
               won' = [won EXCEPT ![b] = id],
               Goto(b, "reap")
        PROVE  FlowInv'
    <2>1. /\ b \in Node /\ n \in Node /\ pc[b] = "fight" /\ n # b
          /\ Battle \subseteq Node /\ Real \subseteq Node
          /\ pc[n] \in {"down", "play"}
      BY <1>1, Bracket DEF Node, Player, Fight
    <2>2. pc'[b] = "reap" /\ \A k \in Node \ {b} : pc'[k] = pc[k]
      BY <1>3, <2>1, GotoType DEF TypeInv
    <2>3. /\ winner'[b] = n /\ won'[b] = id
          /\ \A c \in Battle \ {b} : winner'[c] = winner[c] /\ won'[c] = won[c]
      BY <1>3 DEF TypeInv, TypeOK
    <2>4. /\ \A c \in Battle \ {b} : Fought(c)' <=> Fought(c)
          /\ ~Fought(b)
          /\ \A c \in Battle : Fought(c) => winner[c] \in Node /\ winner[c] # b
      <3>1. \A c \in Battle : Fought(c) => winner[c] \in Node /\ pc[winner[c]] # "fight"
        BY Bracket DEF TypeInv, EndOrder, FlowInv, WinnerBegan
      <3> QED
        BY <2>1, <2>2, <3>1 DEF Fought
    <2>5. \A p \in Real : \A k \in Node : Between(k, p)' <=> Between(k, p)
      BY <1>1 DEF Stays
    <2>6. OneStatus'
      <3> SUFFICES ASSUME NEW k \in Node
                   PROVE  OneAt(k)' /\ (~Silent(k)' => pc'[k] \in {"down", "play"})
        BY DEF OneStatus
      <3>1. OneAt(k)' /\ (Silent(k)' <=> Silent(k))
        BY <1>1 DEF Stays
      <3> QED
        BY <1>1, <2>2, <3>1 DEF FlowInv, OneStatus
    <2>7. OneBelow'
      <3> SUFFICES ASSUME NEW c \in Battle, pc'[c] = "down", NEW w, w = winner'[c]
                   PROVE  Silent(w)' /\ pc'[w] \in {"down", "play"}
        BY DEF OneBelow, Silent
      <3>1. c # b /\ pc[c] = "down" /\ w = winner[c] /\ Fought(c)
        BY <2>1, <2>2, <2>3 DEF Fought
      <3>2. w \in Node /\ w # b /\ Silent(w) /\ pc[w] \in {"down", "play"}
        BY <2>4, <3>1 DEF FlowInv, OneBelow
      <3> QED
        BY <1>1, <2>2, <3>2 DEF Stays
    <2>8. OwnStatus'
      <3> SUFFICES ASSUME NEW p \in Real
                   PROVE  /\ \A q \in Real : Between(q, p)' => p = q
                          /\ \A c \in Battle : Between(c, p)'
                                                  => Fought(c)' /\ won'[c] = p
                          /\ \A c \in Battle : \A w : w = winner'[c] =>
                                 (Fought(c)' /\ Between(w, p)' => won'[c] = p)
        BY DEF OwnStatus, Between
      <3>1. ASSUME NEW q \in Real, Between(q, p)'
            PROVE  p = q
        BY <2>1, <2>5, <3>1 DEF FlowInv, OwnStatus
      <3>2. ASSUME NEW c \in Battle, Between(c, p)'
            PROVE  Fought(c)' /\ won'[c] = p
        <4>1. Between(c, p)
          BY <2>1, <2>5, <3>2
        <4>2. c # b
          BY <1>1, <4>1 DEF Silent, Between
        <4> QED
          BY <2>3, <2>4, <4>1, <4>2 DEF FlowInv, OwnStatus
      <3>3. ASSUME NEW c \in Battle, NEW w, w = winner'[c], Fought(c)', Between(w, p)'
            PROVE  won'[c] = p
        <4>1. CASE c = b
          BY <1>1, <1>3, <2>1, <2>3, <2>5, <3>3, <4>1
        <4>2. CASE c # b
          <5>1. Fought(c) /\ w = winner[c] /\ w \in Node
            BY <2>3, <2>4, <3>3, <4>2
          <5>2. Between(w, p)
            BY <2>5, <3>3, <5>1
          <5> QED
            BY <2>3, <4>2, <5>1, <5>2 DEF FlowInv, OwnStatus
        <4> QED
          BY <4>1, <4>2
      <3> QED
        BY <3>1, <3>2, <3>3
    <2>9. WinnerBegan'
      <3> SUFFICES ASSUME NEW c \in Battle, Fought(c)'
                   PROVE  /\ pc'[winner'[c]] \notin {"fight", "enter", "new", "made", "idle"}
                          /\ winner'[c] \in Battle => won'[winner'[c]] = won'[c]
                          /\ winner'[c] \in Real => winner'[c] = won'[c]
        BY DEF WinnerBegan
      <3>1. CASE c = b
        <4>1. pc'[n] \notin {"fight", "enter", "new", "made", "idle"}
          BY <2>1, <2>2
        <4>2. Between(n, id)
          BY <1>1, <1>3
        <4>3. n \in Battle => won'[n] = id
          BY <2>1, <2>3, <4>2 DEF FlowInv, OwnStatus
        <4>4. n \in Real => n = id
          BY <4>2 DEF FlowInv, OwnStatus
        <4> QED
          BY <2>3, <3>1, <4>1, <4>3, <4>4
      <3>2. CASE c # b
        <4>1. Fought(c) /\ winner'[c] = winner[c] /\ won'[c] = won[c]
              /\ winner[c] \in Node /\ winner[c] # b
          BY <2>3, <2>4, <3>2
        <4>2. pc'[winner[c]] = pc[winner[c]]
              /\ (winner[c] \in Battle => won'[winner[c]] = won[winner[c]])
          BY <2>2, <2>3, <4>1
        <4> QED
          BY <4>1, <4>2 DEF FlowInv, WinnerBegan
      <3> QED
        BY <3>1, <3>2
    <2> QED
      BY <2>6, <2>7, <2>8, <2>9 DEF FlowInv
  <1>4. \/ UNCHANGED <<result, pc>>
        \/ \E n \in Child(b) :
               /\ winner' = [winner EXCEPT ![b] = n]
               /\ won' = [won EXCEPT ![b] = Head(up[n]).id]
               /\ Head(up[n]).id \in Real
               /\ Goto(b, "reap")
    BY FightPipes
  <1> QED
    BY <1>2, <1>3, <1>4

\* Where the process k moves, and no battle begins or ends its rounds.
LEMMA MovedProcess ==
    ASSUME TypeInv, FlowInv, UNCHANGED result, NEW k \in Node, NEW label,
           Goto(k, label), pc[k] # "fight", label # "fight",
           label \notin {"enter", "new", "made", "idle"}
    PROVE  /\ pc'[k] = label /\ \A n \in Node \ {k} : pc'[n] = pc[n]
           /\ winner' = winner /\ won' = won
           /\ \A b \in Battle : Fought(b)' <=> Fought(b)
           /\ \A b \in Battle : Fought(b) => winner[b] \in Child(b) /\ winner[b] \in Node
           /\ Battle \subseteq Node /\ Real \subseteq Node
           /\ WinnerBegan'
  <1>1. /\ pc'[k] = label /\ \A n \in Node \ {k} : pc'[n] = pc[n]
        /\ winner' = winner /\ won' = won
    BY GotoType DEF TypeInv, result
  <1>2. /\ Battle \subseteq Node /\ Real \subseteq Node
        /\ \A b \in Battle : Fought(b) => winner[b] \in Child(b) /\ winner[b] \in Node
    BY Bracket DEF Node, Player, TypeInv, EndOrder
  <1>3. \A b \in Battle : Fought(b)' <=> Fought(b)
    BY <1>1, <1>2 DEF Fought
  <1>4. ASSUME NEW b \in Battle, Fought(b)'
        PROVE  /\ pc'[winner[b]] \notin {"fight", "enter", "new", "made", "idle"}
               /\ winner[b] \in Battle => won[winner[b]] = won[b]
               /\ winner[b] \in Real => winner[b] = won[b]
    <2>1. Fought(b) /\ winner[b] \in Node
      BY <1>2, <1>3, <1>4
    <2>2. /\ pc[winner[b]] \notin {"fight", "enter", "new", "made", "idle"}
          /\ winner[b] \in Battle => won[winner[b]] = won[b]
          /\ winner[b] \in Real => winner[b] = won[b]
      BY <2>1 DEF FlowInv, WinnerBegan
    <2> QED
      BY <1>1, <2>1, <2>2
  <1>5. WinnerBegan'
    BY <1>1, <1>4 DEF WinnerBegan
  <1> QED
    BY <1>1, <1>2, <1>3, <1>5

\* Passing mode, upwards.
LEMMA PassUpFlow ==
    ASSUME TypeInv, FlowInv, NEW b \in Battle, PassUp(b)
    PROVE  FlowInv'
  <1>1. PICK w : w = winner[b]
    OBVIOUS
  <1>2. Moves(w, b) /\ w \in Node /\ pc[w] \in {"down", "play"} /\ w # b
    BY <1>1, PassUpPlaces DEF FlowInv, Moves
  <1>3. b \in Node /\ pc[b] = "up" /\ Goto(b, "down") /\ UNCHANGED result
    BY PassUpPipes DEF Node
  <1>4. /\ pc'[b] = "down" /\ \A n \in Node \ {b} : pc'[n] = pc[n]
        /\ winner' = winner /\ won' = won
        /\ \A c \in Battle : Fought(c)' <=> Fought(c)
        /\ \A c \in Battle : Fought(c) => winner[c] \in Child(c) /\ winner[c] \in Node
        /\ Battle \subseteq Node /\ Real \subseteq Node
        /\ WinnerBegan'
    BY <1>3, MovedProcess
  <1>5. Fought(b) /\ w \in Child(b)
    BY <1>1, <1>3, <1>4 DEF Fought
  <1>6. ASSUME NEW c \in Battle, winner[c] = w, Fought(c)
        PROVE  c = b
    BY <1>4, <1>5, <1>6, Bracket
  <1>7. OneStatus'
    <2> SUFFICES ASSUME NEW n \in Node
                 PROVE  OneAt(n)' /\ (~Silent(n)' => pc'[n] \in {"down", "play"})
      BY DEF OneStatus
    <2>1. CASE n \in {w, b}
      BY <1>2, <1>4, <2>1 DEF Moves
    <2>2. CASE n \notin {w, b}
      BY <1>2, <1>4, <2>2 DEF Moves, Stays, FlowInv, OneStatus
    <2> QED
      BY <2>1, <2>2
  <1>8. OneBelow'
    <2> SUFFICES ASSUME NEW c \in Battle, pc'[c] = "down", NEW v, v = winner[c]
                 PROVE  Silent(v)' /\ pc'[v] \in {"down", "play"}
      BY <1>4 DEF OneBelow, Silent
    <2>1. CASE c = b
      BY <1>1, <1>2, <1>4, <2>1 DEF Moves
    <2>2. CASE c # b
      <3>1. pc[c] = "down" /\ Fought(c) /\ v \in Node /\ v # w
        BY <1>4, <1>6, <2>2 DEF Fought
      <3>2. Silent(v) /\ pc[v] \in {"down", "play"} /\ v # b
        BY <1>3, <3>1 DEF FlowInv, OneBelow
      <3> QED
        BY <1>2, <1>4, <3>1, <3>2 DEF Moves, Stays
    <2> QED
      BY <2>1, <2>2
  <1>9. OwnStatus'
    <2> SUFFICES ASSUME NEW p \in Real
                 PROVE  /\ \A q \in Real : Between(q, p)' => p = q
                        /\ \A c \in Battle : Between(c, p)' => Fought(c)' /\ won[c] = p
                        /\ \A c \in Battle : \A v : v = winner[c] =>
                               (Fought(c)' /\ Between(v, p)' => won[c] = p)
      BY <1>4 DEF OwnStatus, Between
    <2>1. /\ ~Between(w, p)' /\ (Between(b, p)' <=> Between(w, p))
          /\ \A n \in Node \ {w, b} : Between(n, p)' <=> Between(n, p)
      BY <1>2 DEF Moves, Stays
    <2>2. Between(w, p) => won[b] = p
      BY <1>1, <1>5 DEF FlowInv, OwnStatus
    <2>3. b \notin Real
      BY TreeAssumption DEF Player
    <2>4. ASSUME NEW q \in Real, Between(q, p)'
          PROVE  p = q
      BY <1>4, <2>1, <2>3, <2>4 DEF FlowInv, OwnStatus
    <2>5. ASSUME NEW c \in Battle, Between(c, p)'
          PROVE  Fought(c)' /\ won[c] = p
      <3>1. CASE c = b
        BY <1>4, <1>5, <2>1, <2>2, <2>5, <3>1
      <3>2. CASE c # b
        BY <1>4, <2>1, <2>5, <3>2 DEF FlowInv, OwnStatus
      <3> QED
        BY <3>1, <3>2
    <2>6. ASSUME NEW c \in Battle, NEW v, v = winner[c], Fought(c)', Between(v, p)'
          PROVE  won[c] = p
      <3>1. Fought(c) /\ v \in Node /\ v # w
        BY <1>4, <2>1, <2>6
      <3>2. CASE v = b
        <4>1. won[b] = won[c] /\ won[b] = p
          BY <2>1, <2>2, <2>6, <3>1, <3>2 DEF FlowInv, WinnerBegan
        <4> QED
          BY <4>1
      <3>3. CASE v # b
        BY <2>1, <2>6, <3>1, <3>3 DEF FlowInv, OwnStatus
      <3> QED
        BY <3>2, <3>3
    <2> QED
      BY <2>4, <2>5, <2>6
  <1> QED
    BY <1>4, <1>7, <1>8, <1>9 DEF FlowInv

\* Passing mode, downwards.
LEMMA PassDownFlow ==
    ASSUME TypeInv, FlowInv, NEW b \in Battle, PassDown(b)
    PROVE  FlowInv'
  <1>1. PICK w : w = winner[b]
    OBVIOUS
  <1>2. Moves(b, w) /\ w \in Node /\ pc[w] \in {"down", "play"} /\ w # b
    BY <1>1, PassDownPlaces DEF FlowInv, Moves
  <1>3. /\ b \in Node /\ pc[b] = "down" /\ down[b] # <<>> /\ UNCHANGED result
        /\ \E label \in {"last", "up"} : Goto(b, label)
    BY PassDownPipes DEF Node
  <1>4. /\ pc'[b] \in {"last", "up"} /\ \A n \in Node \ {b} : pc'[n] = pc[n]
        /\ winner' = winner /\ won' = won
        /\ \A c \in Battle : Fought(c)' <=> Fought(c)
        /\ \A c \in Battle : Fought(c) => winner[c] \in Child(c) /\ winner[c] \in Node
        /\ Battle \subseteq Node /\ Real \subseteq Node
        /\ WinnerBegan'
    <2>1. PICK label \in {"last", "up"} : Goto(b, label)
      BY <1>3
    <2> QED
      BY <1>3, <2>1, MovedProcess
  <1>5. Fought(b) /\ w \in Child(b) /\ ~Silent(b)
    BY <1>1, <1>3, <1>4 DEF Fought, Silent
  <1>6. ASSUME NEW c \in Battle, winner[c] = w, Fought(c)
        PROVE  c = b
    BY <1>4, <1>5, <1>6, Bracket
  <1>7. OneStatus'
    <2> SUFFICES ASSUME NEW n \in Node
                 PROVE  OneAt(n)' /\ (~Silent(n)' => pc'[n] \in {"down", "play"})
      BY DEF OneStatus
    <2>1. CASE n \in {w, b}
      BY <1>2, <1>4, <2>1 DEF Moves
    <2>2. CASE n \notin {w, b}
      BY <1>2, <1>4, <2>2 DEF Moves, Stays, FlowInv, OneStatus
    <2> QED
      BY <2>1, <2>2
  <1>8. OneBelow'
    <2> SUFFICES ASSUME NEW c \in Battle, pc'[c] = "down", NEW v, v = winner[c]
                 PROVE  Silent(v)' /\ pc'[v] \in {"down", "play"}
      BY <1>4 DEF OneBelow, Silent
    <2>1. c # b /\ pc[c] = "down" /\ Fought(c) /\ v \in Node /\ v # w
      BY <1>4, <1>6 DEF Fought
    <2>2. Silent(v) /\ pc[v] \in {"down", "play"} /\ v # b
      BY <1>5, <2>1 DEF FlowInv, OneBelow
    <2> QED
      BY <1>2, <1>4, <2>1, <2>2 DEF Moves, Stays
  <1>9. OwnStatus'
    <2> SUFFICES ASSUME NEW p \in Real
                 PROVE  /\ \A q \in Real : Between(q, p)' => p = q
                        /\ \A c \in Battle : Between(c, p)' => Fought(c)' /\ won[c] = p
                        /\ \A c \in Battle : \A v : v = winner[c] =>
                               (Fought(c)' /\ Between(v, p)' => won[c] = p)
      BY <1>4 DEF OwnStatus, Between
    <2>1. /\ ~Between(b, p)' /\ (Between(w, p)' <=> Between(b, p))
          /\ \A n \in Node \ {w, b} : Between(n, p)' <=> Between(n, p)
      BY <1>2 DEF Moves, Stays
    <2>2. Between(b, p) => won[b] = p
      BY DEF FlowInv, OwnStatus
    <2>3. /\ w \in Real => w = won[b]
          /\ w \in Battle => won[w] = won[b] /\ Fought(w)
      BY <1>1, <1>2, <1>5 DEF FlowInv, WinnerBegan, Fought
    <2>4. ASSUME NEW q \in Real, Between(q, p)'
          PROVE  p = q
      <3>1. CASE q = w
        BY <2>1, <2>2, <2>3, <2>4, <3>1
      <3>2. CASE q # w
        BY <1>4, <2>1, <2>4, <3>2 DEF FlowInv, OwnStatus
      <3> QED
        BY <3>1, <3>2
    <2>5. ASSUME NEW c \in Battle, Between(c, p)'
          PROVE  Fought(c)' /\ won[c] = p
      <3>1. CASE c = w
        BY <1>4, <2>1, <2>2, <2>3, <2>5, <3>1
      <3>2. CASE c # w
        BY <1>4, <2>1, <2>5, <3>2 DEF FlowInv, OwnStatus
      <3> QED
        BY <3>1, <3>2
    <2>6. ASSUME NEW c \in Battle, NEW v, v = winner[c], Fought(c)', Between(v, p)'
          PROVE  won[c] = p
      <3>1. Fought(c) /\ v \in Node /\ v # b
        BY <1>4, <2>1, <2>6
      <3>2. CASE v = w
        BY <1>6, <2>1, <2>2, <2>6, <3>1, <3>2
      <3>3. CASE v # w
        BY <2>1, <2>6, <3>1, <3>3 DEF FlowInv, OwnStatus
      <3> QED
        BY <3>2, <3>3
    <2> QED
      BY <2>4, <2>5, <2>6
  <1> QED
    BY <1>4, <1>7, <1>8, <1>9 DEF FlowInv

\* A player whose part is over.
LEMMA LeaveFlow ==
    ASSUME TypeInv, FlowInv, NEW p \in Player, Finish(p) \/ Lose(p)
    PROVE  FlowInv'
  <1>1. /\ OneAt(p)' /\ Silent(p)' /\ ~Silent(p)
        /\ \A q \in Real : ~Between(p, q)'
        /\ \A n \in Node \ {p} : Stays(n)
    BY LeavePlaces DEF FlowInv
  <1>2. /\ p \in Node /\ pc[p] = "play" /\ UNCHANGED result
        /\ Goto(p, "done") \/ Goto(p, "sleep")
    BY LeavePipes
  <1>3. /\ pc'[p] \in {"done", "sleep"} /\ \A n \in Node \ {p} : pc'[n] = pc[n]
        /\ winner' = winner /\ won' = won
        /\ \A c \in Battle : Fought(c)' <=> Fought(c)
        /\ \A c \in Battle : Fought(c) => winner[c] \in Child(c) /\ winner[c] \in Node
        /\ Battle \subseteq Node /\ Real \subseteq Node
        /\ WinnerBegan'
    BY <1>2, MovedProcess
  <1>4. OneStatus'
    <2> SUFFICES ASSUME NEW n \in Node
                 PROVE  OneAt(n)' /\ (~Silent(n)' => pc'[n] \in {"down", "play"})
      BY DEF OneStatus
    <2>1. CASE n = p
      BY <1>1, <2>1
    <2>2. CASE n # p
      BY <1>1, <1>3, <2>2 DEF Stays, FlowInv, OneStatus
    <2> QED
      BY <2>1, <2>2
  <1>5. OneBelow'
    <2> SUFFICES ASSUME NEW c \in Battle, pc'[c] = "down", NEW v, v = winner[c]
                 PROVE  Silent(v)' /\ pc'[v] \in {"down", "play"}
      BY <1>3 DEF OneBelow, Silent
    <2>1. pc[c] = "down" /\ Fought(c) /\ v \in Node
      BY <1>3 DEF Fought
    <2>2. Silent(v) /\ pc[v] \in {"down", "play"} /\ v # p
      BY <1>1, <2>1 DEF FlowInv, OneBelow
    <2> QED
      BY <1>1, <1>3, <2>1, <2>2 DEF Stays
  <1>6. OwnStatus'
    <2> SUFFICES ASSUME NEW q \in Real
                 PROVE  /\ \A r \in Real : Between(r, q)' => q = r
                        /\ \A c \in Battle : Between(c, q)' => Fought(c)' /\ won[c] = q
                        /\ \A c \in Battle : \A v : v = winner[c] =>
                               (Fought(c)' /\ Between(v, q)' => won[c] = q)
      BY <1>3 DEF OwnStatus, Between
    <2>1. \A n \in Node : Between(n, q)' => Between(n, q)
      BY <1>1 DEF Stays
    <2>2. ASSUME NEW c \in Battle, NEW v, v = winner[c], Fought(c)', Between(v, q)'
          PROVE  won[c] = q
      <3>1. Fought(c) /\ v \in Node
        BY <1>3, <2>2
      <3> QED
        BY <2>1, <2>2, <3>1 DEF FlowInv, OwnStatus
    <2> QED
      BY <1>3, <2>1, <2>2 DEF FlowInv, OwnStatus
  <1> QED
    BY <1>3, <1>4, <1>5, <1>6 DEF FlowInv

\* A player that begins.
LEMMA BeginFlow ==
    ASSUME TypeInv, FlowInv, NEW k \in Player, NEW id, Begins(k, id),
           Goto(k, "play"), UNCHANGED result
    PROVE  FlowInv'
  <1>1. /\ k \in Node /\ pc[k] \in {"enter", "idle"} /\ id \in Real
        /\ k \in Real => k = id
        /\ Silent(k) /\ OneAt(k)' /\ ~Silent(k)'
        /\ \A p \in Real : ~Between(k, p) /\ (Between(k, p)' <=> p = id)
        /\ \A n \in Node \ {k} : Stays(n)
        /\ k \notin Battle
    BY Bracket DEF Begins
  <1>2. /\ pc'[k] = "play" /\ \A n \in Node \ {k} : pc'[n] = pc[n]
        /\ winner' = winner /\ won' = won
        /\ \A c \in Battle : Fought(c)' <=> Fought(c)
        /\ \A c \in Battle : Fought(c) => winner[c] \in Child(c) /\ winner[c] \in Node
        /\ Battle \subseteq Node /\ Real \subseteq Node
        /\ WinnerBegan'
    BY <1>1, MovedProcess
  <1>3. ASSUME NEW c \in Battle, Fought(c)
        PROVE  winner[c] # k
    BY <1>1, <1>3 DEF FlowInv, WinnerBegan
  <1>4. OneStatus'
    <2> SUFFICES ASSUME NEW n \in Node
                 PROVE  OneAt(n)' /\ (~Silent(n)' => pc'[n] \in {"down", "play"})
      BY DEF OneStatus
    <2>1. CASE n = k
      BY <1>1, <1>2, <2>1
    <2>2. CASE n # k
      BY <1>1, <1>2, <2>2 DEF Stays, FlowInv, OneStatus
    <2> QED
      BY <2>1, <2>2
  <1>5. OneBelow'
    <2> SUFFICES ASSUME NEW c \in Battle, pc'[c] = "down", NEW v, v = winner[c]
                 PROVE  Silent(v)' /\ pc'[v] \in {"down", "play"}
      BY <1>2 DEF OneBelow, Silent
    <2>1. pc[c] = "down" /\ Fought(c) /\ v \in Node /\ v # k
      BY <1>1, <1>2, <1>3 DEF Fought
    <2>2. Silent(v) /\ pc[v] \in {"down", "play"}
      BY <2>1 DEF FlowInv, OneBelow
    <2> QED
      BY <1>1, <1>2, <2>1, <2>2 DEF Stays
  <1>6. OwnStatus'
    <2> SUFFICES ASSUME NEW q \in Real
                 PROVE  /\ \A r \in Real : Between(r, q)' => q = r
                        /\ \A c \in Battle : Between(c, q)' => Fought(c)' /\ won[c] = q
                        /\ \A c \in Battle : \A v : v = winner[c] =>
                               (Fought(c)' /\ Between(v, q)' => won[c] = q)
      BY <1>2 DEF OwnStatus, Between
    <2>1. \A n \in Node \ {k} : Between(n, q)' <=> Between(n, q)
      BY <1>1 DEF Stays
    <2>2. ASSUME NEW r \in Real, Between(r, q)'
          PROVE  q = r
      <3>1. CASE r = k
        BY <1>1, <2>2, <3>1
      <3>2. CASE r # k
        BY <1>2, <2>1, <2>2, <3>2 DEF FlowInv, OwnStatus
      <3> QED
        BY <3>1, <3>2
    <2>3. ASSUME NEW c \in Battle, Between(c, q)'
          PROVE  Fought(c)' /\ won[c] = q
      BY <1>1, <1>2, <2>1, <2>3 DEF FlowInv, OwnStatus
    <2>4. ASSUME NEW c \in Battle, NEW v, v = winner[c], Fought(c)', Between(v, q)'
          PROVE  won[c] = q
      <3>1. Fought(c) /\ v \in Node /\ v # k
        BY <1>2, <1>3, <2>4
      <3> QED
        BY <2>1, <2>4, <3>1 DEF FlowInv, OwnStatus
    <2> QED
      BY <2>2, <2>3, <2>4
  <1> QED
    BY <1>2, <1>4, <1>5, <1>6 DEF FlowInv

\* In the beginning no status is on its way.
LEMMA InitFlow == Init => FlowInv
  <1> SUFFICES ASSUME Init PROVE FlowInv
    OBVIOUS
  <1>1. /\ \A b \in Battle : b \in Node /\ ~Fought(b) /\ pc[b] = "fight"
        /\ \A n \in Node : up[n] = <<>> /\ down[n] = <<>>
        /\ Real \subseteq Node
        /\ Len(<<>>) <= 1
    BY DEF Init, Fought, Node, Player
  <1>2. OneStatus
    BY <1>1 DEF OneStatus, OneAt, Silent
  <1>3. OneBelow /\ WinnerBegan
    BY <1>1 DEF OneBelow, WinnerBegan
  <1>4. OwnStatus
    BY <1>1 DEF OwnStatus, Between
  <1> QED
    BY <1>2, <1>3, <1>4 DEF FlowInv

\* A step that leaves the pipes alone.
LEMMA PipesStay ==
    ASSUME OneStatus, UNCHANGED pipes
    PROVE  \A n \in Node : Stays(n)
  BY UntouchedStays DEF pipes

\* Every step keeps each status where it belongs.
LEMMA NextFlow == TypeInv /\ FlowInv /\ [Next]_vars => FlowInv'
  <1> SUFFICES ASSUME TypeInv, FlowInv, [Next]_vars PROVE FlowInv'
    OBVIOUS
  <1>1. CASE UNCHANGED vars
    BY <1>1, PipesStay, StayFlow DEF vars, FlowInv
  <1>2. ASSUME NEW b \in Battle, BattleStep(b)
        PROVE  FlowInv'
    <2>1. b \in Node
      BY DEF Node
    <2>2. CASE Reap(b)
      <3>1. /\ pc[b] = "reap" /\ UNCHANGED <<pipes, result>>
            /\ Goto(b, "last") \/ Goto(b, "up")
        BY <2>2 DEF Reap
      <3>2. \A n \in Node : Stays(n)
        BY <3>1, PipesStay DEF FlowInv
      <3> QED
        BY <2>1, <3>1, <3>2, StayFlow
    <2>3. CASE End(b)
      <3>1. pc[b] = "last" /\ UNCHANGED <<pipes, result>> /\ Goto(b, "done")
        BY <2>3 DEF End
      <3>2. \A n \in Node : Stays(n)
        BY <3>1, PipesStay DEF FlowInv
      <3> QED
        BY <2>1, <3>1, <3>2, StayFlow
    <2> QED
      BY <1>2, <2>2, <2>3, FightFlow, PassUpFlow, PassDownFlow DEF BattleStep
  <1>3. ASSUME NEW p \in Player, PlayerStep(p)
        PROVE  FlowInv'
    <2>1. p \in Node
      BY DEF Node
    <2>2. CASE Enter(p)
      <3>1. Begins(p, p) /\ Goto(p, "play") /\ UNCHANGED result
        BY <2>2, BeginPlaces DEF FlowInv, Enter
      <3> QED
        BY <3>1, BeginFlow
    <2>3. CASE StandIn(p)
      <3>1. Begins(p, Head(fifo[p]).id) /\ Goto(p, "play") /\ UNCHANGED result
        BY <2>3, BeginPlaces DEF FlowInv, StandIn
      <3> QED
        BY <3>1, BeginFlow
    <2>4. CASE Return(p) \/ Win(p)
      <3>1. (\A n \in Node : Stays(n)) /\ UNCHANGED <<pc, result>>
        BY <2>4, AnswerPlaces, AnswerPipes DEF FlowInv
      <3> QED
        BY <3>1, StayFlow
    <2>5. CASE HandOver(p) \/ Depart(p) \/ MakeFifo(p) \/ OpenFifo(p)
      <3>1. /\ UNCHANGED <<pipes, result>>
            /\ \/ pc[p] = "sleep" /\ Goto(p, "leave")
               \/ pc[p] = "leave" /\ Goto(p, "done")
               \/ pc[p] = "new" /\ Goto(p, "made")
               \/ pc[p] = "made" /\ Goto(p, "idle")
        BY <2>5 DEF HandOver, Depart, MakeFifo, OpenFifo
      <3>2. \A n \in Node : Stays(n)
        BY <3>1, PipesStay DEF FlowInv
      <3> QED
        BY <2>1, <3>1, <3>2, StayFlow
    <2> QED
      BY <1>3, <2>2, <2>3, <2>4, <2>5, LeaveFlow DEF PlayerStep
  <1> QED
    BY <1>1, <1>2, <1>3 DEF Next

-----------------------------------------------------------------------------
(* No player is in two places.                                              *)

\* The positions of a FIFO.
LEMMA FifoDomain ==
    ASSUME TypeInv, NEW a \in Agent
    PROVE  /\ fifo[a] \in Seq(Statuses({0}))
           /\ DOMAIN fifo[a] = 1 .. Len(fifo[a]) /\ Len(fifo[a]) \in Nat
           /\ \A k \in DOMAIN fifo[a] : fifo[a][k] \in Statuses({0})
  <1>1. fifo[a] \in Seq(Statuses({0}))
    BY DEF TypeInv, TypeOK
  <1> QED
    BY <1>1

\* A step that brings no status to a new place.
LEMMA FewerPlaces ==
    ASSUME TypeInv, OnePlace,
           \A n \in Node : \A p \in Real : Between(n, p)' => Between(n, p),
           \A c \in Agent : fifo'[c] = fifo[c] \/ fifo'[c] = <<>>,
           \A p \in Real : pc'[p] \in {"enter", "sleep"} =>
               \/ pc[p] \in {"enter", "sleep"}
               \/ /\ \A n \in Node : ~Between(n, p)'
                  /\ \A a \in Agent : ~Handed(a, p)
    PROVE  OnePlace'
  <1>1. \A c \in Agent : /\ DOMAIN fifo'[c] \subseteq DOMAIN fifo[c]
                         /\ \A k \in DOMAIN fifo'[c] : fifo'[c][k] = fifo[c][k]
    <2> SUFFICES ASSUME NEW c \in Agent
                 PROVE  /\ DOMAIN fifo'[c] \subseteq DOMAIN fifo[c]
                        /\ \A k \in DOMAIN fifo'[c] : fifo'[c][k] = fifo[c][k]
      OBVIOUS
    <2>1. CASE fifo'[c] = fifo[c]
      BY <2>1
    <2>2. CASE fifo'[c] = <<>>
      <3>1. DOMAIN fifo'[c] = {}
        BY <2>2
      <3> QED
        BY <3>1
    <2> QED
      BY <2>1, <2>2
  <1>2. \A c \in Agent : \A p : Handed(c, p)' => Handed(c, p)
    BY <1>1 DEF Handed
  <1> SUFFICES ASSUME NEW p \in Real
               PROVE  /\ \A m, n \in Node : Between(m, p)' /\ Between(n, p)' => m = n
                      /\ \A a \in Agent, n \in Node : ~(Handed(a, p)' /\ Between(n, p)')
                      /\ \A a, c \in Agent : Handed(a, p)' /\ Handed(c, p)' => a = c
                      /\ \A a \in Agent : \A j, k \in DOMAIN fifo'[a] :
                             fifo'[a][j].id = p /\ fifo'[a][k].id = p => j = k
                      /\ pc'[p] \in {"enter", "sleep"} =>
                             /\ \A n \in Node : ~Between(n, p)'
                             /\ \A a \in Agent : ~Handed(a, p)'
    BY DEF OnePlace
  <1>3. /\ \A m, n \in Node : Between(m, p)' /\ Between(n, p)' => m = n
        /\ \A a \in Agent, n \in Node : ~(Handed(a, p)' /\ Between(n, p)')
        /\ \A a, c \in Agent : Handed(a, p)' /\ Handed(c, p)' => a = c
    BY <1>2 DEF OnePlace
  <1>4. \A a \in Agent : \A j, k \in DOMAIN fifo'[a] :
            fifo'[a][j].id = p /\ fifo'[a][k].id = p => j = k
    BY <1>1 DEF OnePlace
  <1>5. ASSUME pc'[p] \in {"enter", "sleep"}
        PROVE  /\ \A n \in Node : ~Between(n, p)'
               /\ \A a \in Agent : ~Handed(a, p)'
    BY <1>2, <1>5 DEF OnePlace
  <1> QED
    BY <1>3, <1>4, <1>5

\* A status that moves from one pipe to another is then only in the other.
LEMMA MovePlaces ==
    ASSUME TypeInv, OnePlace, NEW m \in Node, NEW k \in Node, Moves(m, k),
           fifo' = fifo, \A p \in Real : pc'[p] = pc[p]
    PROVE  OnePlace'
  <1>1. \A c \in Agent : \A p : Handed(c, p)' <=> Handed(c, p)
    BY DEF Handed
  <1> SUFFICES ASSUME NEW p \in Real
               PROVE  /\ \A l, n \in Node : Between(l, p)' /\ Between(n, p)' => l = n
                      /\ \A a \in Agent, n \in Node : ~(Handed(a, p)' /\ Between(n, p)')
                      /\ \A a, c \in Agent : Handed(a, p)' /\ Handed(c, p)' => a = c
                      /\ \A a \in Agent : \A i, j \in DOMAIN fifo'[a] :
                             fifo'[a][i].id = p /\ fifo'[a][j].id = p => i = j
                      /\ pc'[p] \in {"enter", "sleep"} =>
                             /\ \A n \in Node : ~Between(n, p)'
                             /\ \A a \in Agent : ~Handed(a, p)'
    BY DEF OnePlace
  <1>2. /\ ~Between(m, p)' /\ (Between(k, p)' <=> Between(m, p)) /\ m # k
        /\ \A n \in Node \ {m, k} : Between(n, p)' <=> Between(n, p)
    BY DEF Moves, Stays
  <1>3. \A l, n \in Node : Between(l, p) /\ Between(n, p) => l = n
    BY DEF OnePlace
  <1>4. ASSUME NEW n \in Node, Between(n, p)'
        PROVE  \/ n = k /\ Between(m, p)
               \/ n # k /\ n # m /\ Between(n, p)
    <2>1. CASE n = k
      BY <1>2, <1>4, <2>1
    <2>2. CASE n # k
      <3>1. n # m
        BY <1>2, <1>4
      <3> QED
        BY <1>2, <1>4, <2>2, <3>1
    <2> QED
      BY <2>1, <2>2
  <1>5. \A l, n \in Node : Between(l, p)' /\ Between(n, p)' => l = n
    BY <1>3, <1>4
  <1> QED
    BY <1>1, <1>4, <1>5 DEF OnePlace

\* A player that begins has been in no pipe before.
LEMMA BeginPlace ==
    ASSUME TypeInv, OnePlace, NEW k \in Player, NEW id, Begins(k, id),
           \A n \in Node : ~Between(n, id),
           \A a \in Agent : ~Handed(a, id)',
           \A a \in Agent : \A p : Handed(a, p)' => Handed(a, p),
           \A a \in Agent : \A p \in Real : \A i, j \in DOMAIN fifo'[a] :
               fifo'[a][i].id = p /\ fifo'[a][j].id = p => i = j,
           pc'[id] \notin {"enter", "sleep"},
           \A p \in Real \ {id} : pc'[p] = pc[p]
    PROVE  OnePlace'
  <1> SUFFICES ASSUME NEW p \in Real
               PROVE  /\ \A l, n \in Node : Between(l, p)' /\ Between(n, p)' => l = n
                      /\ \A a \in Agent, n \in Node : ~(Handed(a, p)' /\ Between(n, p)')
                      /\ \A a, c \in Agent : Handed(a, p)' /\ Handed(c, p)' => a = c
                      /\ pc'[p] \in {"enter", "sleep"} =>
                             /\ \A n \in Node : ~Between(n, p)'
                             /\ \A a \in Agent : ~Handed(a, p)'
    BY DEF OnePlace
  <1>1. /\ \A n \in Node \ {k} : Between(n, p)' <=> Between(n, p)
        /\ Between(k, p)' <=> p = id
        /\ ~Between(k, p)
    BY DEF Begins, Stays
  <1>2. CASE p = id
    BY <1>1, <1>2
  <1>3. CASE p # id
    <2>1. \A n \in Node : Between(n, p)' => Between(n, p)
      BY <1>1, <1>3
    <2> QED
      BY <1>3, <2>1 DEF OnePlace
  <1> QED
    BY <1>2, <1>3

\* A real player that enters.
LEMMA EnterPlace ==
    ASSUME TypeInv, FlowInv, OnePlace, NEW p \in Player, Enter(p)
    PROVE  OnePlace'
  <1>1. /\ p \in Real /\ p \in Node /\ pc[p] = "enter" /\ Goto(p, "play") /\ fifo' = fifo
    BY EnterPipes DEF fifos
  <1>2. Begins(p, p)
    BY BeginPlaces DEF FlowInv
  <1>3. /\ \A n \in Node : ~Between(n, p)
        /\ \A a \in Agent : ~Handed(a, p)
    BY <1>1 DEF OnePlace
  <1>4. /\ pc'[p] = "play" /\ \A q \in Real \ {p} : pc'[q] = pc[q]
    <2>1. Real \subseteq Node
      BY DEF Node, Player
    <2> QED
      BY <1>1, <2>1, GotoType DEF TypeInv
  <1>5. \A a \in Agent : \A q : Handed(a, q)' <=> Handed(a, q)
    BY <1>1 DEF Handed
  <1>6. \A a \in Agent : \A q \in Real : \A i, j \in DOMAIN fifo'[a] :
            fifo'[a][i].id = q /\ fifo'[a][j].id = q => i = j
    BY <1>1 DEF OnePlace
  <1> QED
    BY <1>2, <1>3, <1>4, <1>5, <1>6, BeginPlace

\* An agent that stands in for the player whose status it takes out.
LEMMA StandInPlace ==
    ASSUME TypeInv, FlowInv, OnePlace, NEW a \in Player, StandIn(a)
    PROVE  OnePlace'
  <1> DEFINE id == Head(fifo[a]).id
             q == fifo[a]
             r == fifo'[a]
  <1>1. /\ a \in Node /\ a \in Agent /\ pc[a] = "idle" /\ q # <<>>
        /\ \A c \in Agent \ {a} : fifo'[c] = fifo[c]
        /\ r = Tail(q) /\ Goto(a, "play")
    BY StandInPipes
  <1>2. Begins(a, id) /\ id \in Real
    BY BeginPlaces DEF FlowInv, Begins
  <1>3. q \in Seq(Statuses({0}))
    BY <1>1, FifoDomain
  <1>4. /\ 1 \in DOMAIN q /\ q[1].id = id
        /\ DOMAIN q = 1 .. Len(q) /\ Len(q) \in Nat
        /\ DOMAIN r = 1 .. Len(q) - 1
        /\ \A k \in DOMAIN r : k + 1 \in DOMAIN q /\ r[k] = q[k + 1]
    BY <1>1, <1>3
  <1>5. Handed(a, id)
    BY <1>4 DEF Handed
  <1>6. /\ \A n \in Node : ~Between(n, id)
        /\ \A c \in Agent \ {a} : ~Handed(c, id)
        /\ pc[id] \notin {"enter", "sleep"}
    BY <1>1, <1>2, <1>5 DEF OnePlace
  <1>7. \A p \in Real : \A i, j \in DOMAIN q : q[i].id = p /\ q[j].id = p => i = j
    BY <1>1 DEF OnePlace
  <1> HIDE DEF id, q, r
  <1>8. ASSUME NEW k \in DOMAIN r
        PROVE  r[k].id # id
    <2>1. k + 1 \in DOMAIN q /\ r[k] = q[k + 1] /\ k + 1 # 1
      BY <1>4
    <2> QED
      BY <1>2, <1>4, <1>7, <2>1
  <1>10. \A p : (\E k \in DOMAIN r : r[k].id = p) => (\E k \in DOMAIN q : q[k].id = p)
    BY <1>4
  <1>11. \A p : Handed(a, p)' <=> \E k \in DOMAIN r : r[k].id = p
    BY DEF Handed, r
  <1>12. \A p : Handed(a, p) <=> \E k \in DOMAIN q : q[k].id = p
    BY DEF Handed, q
  <1>13. \A c \in Agent \ {a} : \A p : Handed(c, p)' <=> Handed(c, p)
    BY <1>1 DEF Handed
  <1>14. \A c \in Agent : \A p : Handed(c, p)' => Handed(c, p)
    BY <1>10, <1>11, <1>12, <1>13
  <1>15. \A c \in Agent : \A p : p = id => ~Handed(c, p)'
    BY <1>6, <1>8, <1>11, <1>13
  <1>16. ASSUME NEW c \in Agent, NEW p \in Real,
                NEW i \in DOMAIN fifo'[c], NEW j \in DOMAIN fifo'[c],
                fifo'[c][i].id = p, fifo'[c][j].id = p
         PROVE  i = j
    <2>1. CASE c # a
      BY <1>1, <1>16, <2>1 DEF OnePlace
    <2>2. CASE c = a
      <3>1. i \in DOMAIN r /\ j \in DOMAIN r /\ r[i].id = p /\ r[j].id = p
        BY <1>16, <2>2 DEF r
      <3>2. i + 1 = j + 1 /\ i \in Int /\ j \in Int
        BY <1>4, <1>7, <3>1
      <3> QED
        BY <3>2
    <2> QED
      BY <2>1, <2>2
  <1>17. \A p \in Real : pc'[p] = pc[p]
    <2>1. Real \subseteq Node /\ a \notin Real
      BY <1>1, TreeAssumption DEF Node, Player
    <2> QED
      BY <1>1, <2>1, GotoType DEF TypeInv
  <1>18. ASSUME NEW p, p = id
         PROVE  OnePlace'
    <2>1. Begins(a, p) /\ p \in Real
      BY <1>2, <1>18 DEF id
    <2>2. /\ \A n \in Node : ~Between(n, p)
          /\ \A c \in Agent : ~Handed(c, p)'
          /\ pc'[p] \notin {"enter", "sleep"}
      BY <1>6, <1>15, <1>17, <1>18, <2>1
    <2> QED
      BY <1>14, <1>16, <1>17, <2>1, <2>2, BeginPlace
  <1> QED
    BY <1>18

\* A loser's status is gone until it hands it over.
LEMMA LeavePlace ==
    ASSUME TypeInv, FlowInv, OnePlace, NEW p \in Player, Finish(p) \/ Lose(p)
    PROVE  OnePlace'
  <1>1. /\ ~Silent(p) /\ p \in Node
        /\ \A q \in Real : ~Between(p, q)'
        /\ \A n \in Node \ {p} : Stays(n)
    BY LeavePlaces, LeavePipes DEF FlowInv
  <1>2. /\ fifo' = fifo
        /\ Goto(p, "done") \/ Goto(p, "sleep")
    BY LeavePipes DEF fifos
  <1>3. pc'[p] \in {"done", "sleep"} /\ \A n \in Node \ {p} : pc'[n] = pc[n]
    BY <1>1, <1>2, GotoType DEF TypeInv
  <1>4. \A n \in Node : \A q \in Real : Between(n, q)' => Between(n, q)
    BY <1>1 DEF Stays
  <1>5. ASSUME NEW q \in Real, pc'[q] \in {"enter", "sleep"}
        PROVE  \/ pc[q] \in {"enter", "sleep"}
               \/ /\ \A n \in Node : ~Between(n, q)'
                  /\ \A a \in Agent : ~Handed(a, q)
    <2>1. CASE q # p
      <3>1. q \in Node
        BY DEF Node, Player
      <3> QED
        BY <1>3, <1>5, <2>1, <3>1
    <2>2. CASE q = p
      <3>1. PICK s \in Real : Between(p, s)
        BY <1>1, RealIds
      <3>2. Between(q, q)
        BY <2>2, <3>1 DEF FlowInv, OwnStatus
      <3>3. /\ \A n \in Node : Between(n, q) => n = q
            /\ \A a \in Agent : ~Handed(a, q)
        BY <1>1, <2>2, <3>2 DEF OnePlace
      <3>4. \A n \in Node : ~Between(n, q)'
        BY <1>1, <1>4, <2>2, <3>3
      <3> QED
        BY <3>3, <3>4
    <2> QED
      BY <2>1, <2>2
  <1> QED
    BY <1>2, <1>4, <1>5, FewerPlaces

\* Then it is in the agent's FIFO and nowhere else.
LEMMA HandOverPlace ==
    ASSUME TypeInv, FlowInv, OnePlace, NEW p \in Player, HandOver(p)
    PROVE  OnePlace'
  <1>1. /\ p \in Real /\ p \in Node /\ pc[p] = "sleep" /\ UNCHANGED pipes
        /\ Goto(p, "leave")
        /\ \/ fifo' = fifo
           \/ \E a \in Agent : \E s \in Statuses({0}) :
                  /\ \A c \in Agent \ {a} : fifo'[c] = fifo[c]
                  /\ IsPutInto(fifo', fifo, a, s)
                  /\ s.id = p
    BY HandOverFifo
  <1>2. /\ \A n \in Node : ~Between(n, p)
        /\ \A a \in Agent : ~Handed(a, p)
    BY <1>1 DEF OnePlace
  <1>3. \A n \in Node : \A q : Between(n, q)' <=> Between(n, q)
    BY <1>1 DEF Between, pipes
  <1>4. pc'[p] = "leave" /\ \A q \in Real \ {p} : pc'[q] = pc[q]
    <2>1. Real \subseteq Node
      BY DEF Node, Player
    <2> QED
      BY <1>1, <2>1, GotoType DEF TypeInv
  <1>5. CASE fifo' = fifo
    BY <1>3, <1>4, <1>5, FewerPlaces
  <1>6. ASSUME NEW a \in Agent, NEW s \in Statuses({0}),
               \A c \in Agent \ {a} : fifo'[c] = fifo[c],
               IsPutInto(fifo', fifo, a, s),
               s.id = p
        PROVE  OnePlace'
    <2> DEFINE f == fifo[a]
               g == fifo'[a]
               N == Len(f)
    <2>1. /\ f \in Seq(Statuses({0})) /\ g \in Seq(Statuses({0}))
          /\ Len(g) = N + 1 /\ g[N + 1] = s
          /\ \A k \in 1 .. N : g[k] = f[k]
      <3>1. fifo' \in [Agent -> Seq(Statuses({0}))]
        BY HandOverFifo
      <3> QED
        BY <1>6, <3>1, FifoDomain DEF IsPutInto
    <2>2. /\ DOMAIN f = 1 .. N /\ N \in Nat /\ DOMAIN g = 1 .. N + 1
      BY <2>1
    <2>3. \A c \in Agent \ {a} : \A q : Handed(c, q)' <=> Handed(c, q)
      BY <1>6 DEF Handed
    <2>4. /\ \A q : Handed(a, q) <=> \E k \in DOMAIN f : f[k].id = q
          /\ \A q : Handed(a, q)' <=> \E k \in DOMAIN g : g[k].id = q
      BY DEF Handed
    <2>5. \A k \in DOMAIN f : f[k].id # p
      BY <1>2, <2>4
    <2>6. \A q \in Real : \A j, k \in DOMAIN f : f[j].id = q /\ f[k].id = q => j = k
      BY DEF OnePlace
    <2> HIDE DEF f, g, N
    <2>7. \A k \in DOMAIN g : \/ k = N + 1 /\ g[k].id = p
                              \/ k \in DOMAIN f /\ g[k] = f[k] /\ g[k].id # p
      <3> SUFFICES ASSUME NEW k \in DOMAIN g, k # N + 1
                   PROVE  k \in DOMAIN f /\ g[k] = f[k] /\ g[k].id # p
        BY <1>6, <2>1
      <3>1. k \in 1 .. N
        BY <2>2
      <3> QED
        BY <2>1, <2>2, <2>5, <3>1
    <2>8. \A q : Handed(a, q)' => q = p \/ Handed(a, q)
      BY <2>4, <2>7
    <2>9. ASSUME NEW q \in Real
          PROVE  /\ \A m, n \in Node : Between(m, q)' /\ Between(n, q)' => m = n
                 /\ \A c \in Agent, n \in Node : ~(Handed(c, q)' /\ Between(n, q)')
                 /\ \A c, d \in Agent : Handed(c, q)' /\ Handed(d, q)' => c = d
                 /\ pc'[q] \in {"enter", "sleep"} =>
                        /\ \A n \in Node : ~Between(n, q)'
                        /\ \A c \in Agent : ~Handed(c, q)'
      <3>1. CASE q = p
        BY <1>2, <1>3, <1>4, <2>3, <3>1
      <3>2. CASE q # p
        <4>1. \A c \in Agent : Handed(c, q)' => Handed(c, q)
          BY <2>3, <2>8, <3>2
        <4> QED
          BY <1>3, <1>4, <3>2, <4>1 DEF OnePlace
      <3> QED
        BY <3>1, <3>2
    <2>10. ASSUME NEW q \in Real, NEW c \in Agent,
                  NEW j \in DOMAIN fifo'[c], NEW k \in DOMAIN fifo'[c],
                  fifo'[c][j].id = q, fifo'[c][k].id = q
           PROVE  j = k
      <3>1. CASE c # a
        BY <1>6, <2>10, <3>1 DEF OnePlace
      <3>2. CASE c = a
        <4>1. j \in DOMAIN g /\ k \in DOMAIN g /\ g[j].id = q /\ g[k].id = q
          BY <2>10, <3>2 DEF g
        <4> QED
          BY <2>6, <2>7, <4>1
      <3> QED
        BY <3>1, <3>2
    <2> QED
      BY <2>9, <2>10 DEF OnePlace
  <1> QED
    BY <1>1, <1>5, <1>6

\* Every step keeps every player in one place.
LEMMA NextPlaces == TypeInv /\ FlowInv /\ OnePlace /\ [Next]_vars => OnePlace'
  <1> SUFFICES ASSUME TypeInv, FlowInv, OnePlace, [Next]_vars PROVE OnePlace'
    OBVIOUS
  <1>1. ASSUME \A n \in Node : Stays(n),
               \A c \in Agent : fifo'[c] = fifo[c] \/ fifo'[c] = <<>>,
               \A p \in Real : pc'[p] \in {"enter", "sleep"}
                                   => pc[p] \in {"enter", "sleep"}
        PROVE  OnePlace'
    BY <1>1, FewerPlaces DEF Stays
  <1>2. Real \subseteq Node /\ Real \cap Battle = {}
    BY TreeAssumption DEF Node, Player
  <1>3. CASE UNCHANGED vars
    BY <1>1, <1>3, PipesStay DEF vars, FlowInv, fifos
  <1>4. ASSUME NEW b \in Battle, BattleStep(b)
        PROVE  OnePlace'
    <2>1. /\ b \in Node /\ fifo' = fifo
          /\ UNCHANGED pc \/ \E label : Goto(b, label)
      BY <1>4, FightPipes
         DEF Node, BattleStep, Fight, Reap, PassUp, PassDown, End, fifos
    <2>2. \A p \in Real : pc'[p] = pc[p]
      <3>1. CASE UNCHANGED pc
        BY <3>1
      <3>2. ASSUME NEW label, Goto(b, label)
            PROVE  \A p \in Real : pc'[p] = pc[p]
        BY <1>2, <2>1, <3>2, GotoType DEF TypeInv
      <3> QED
        BY <2>1, <3>1, <3>2
    <2>3. CASE Fight(b)
      BY <1>1, <2>1, <2>2, <2>3, FightPlaces DEF FlowInv
    <2>4. CASE Reap(b) \/ End(b)
      BY <1>1, <2>1, <2>2, <2>4, PipesStay DEF FlowInv, Reap, End
    <2>5. CASE PassUp(b)
      <3>1. PICK w : w = winner[b]
        OBVIOUS
      <3>2. Moves(w, b) /\ w \in Node
        BY <2>5, <3>1, PassUpPlaces DEF FlowInv
      <3> QED
        BY <2>1, <2>2, <3>2, MovePlaces
    <2>6. CASE PassDown(b)
      <3>1. PICK w : w = winner[b]
        OBVIOUS
      <3>2. Moves(b, w) /\ w \in Node
        BY <2>6, <3>1, PassDownPlaces DEF FlowInv
      <3> QED
        BY <2>1, <2>2, <3>2, MovePlaces
    <2> QED
      BY <1>4, <2>3, <2>4, <2>5, <2>6 DEF BattleStep
  <1>5. ASSUME NEW p \in Player, PlayerStep(p)
        PROVE  OnePlace'
    <2>1. p \in Node
      BY DEF Node
    <2>2. CASE Return(p) \/ Win(p)
      BY <1>1, <2>2, AnswerPlaces, AnswerPipes DEF FlowInv, fifos
    <2>3. CASE Depart(p)
      <3>1. /\ UNCHANGED pipes /\ Goto(p, "done")
            /\ \A c \in Agent : fifo'[c] = fifo[c] \/ fifo'[c] = <<>>
        BY <2>3, DepartFifo
      <3>2. pc'[p] = "done" /\ \A n \in Node \ {p} : pc'[n] = pc[n]
        BY <2>1, <3>1, GotoType DEF TypeInv
      <3> QED
        BY <1>1, <1>2, <3>1, <3>2, PipesStay DEF FlowInv
    <2>4. CASE MakeFifo(p) \/ OpenFifo(p)
      <3>1. /\ UNCHANGED pipes /\ fifo' = fifo
            /\ Goto(p, "made") \/ Goto(p, "idle")
        BY <2>4 DEF MakeFifo, OpenFifo, fifos
      <3>2. pc'[p] \in {"made", "idle"} /\ \A n \in Node \ {p} : pc'[n] = pc[n]
        BY <2>1, <3>1, GotoType DEF TypeInv
      <3> QED
        BY <1>1, <1>2, <3>1, <3>2, PipesStay DEF FlowInv
    <2> QED
      BY <1>5, <2>2, <2>3, <2>4, EnterPlace, StandInPlace, LeavePlace, HandOverPlace
         DEF PlayerStep
  <1> QED
    BY <1>3, <1>4, <1>5 DEF Next


-----------------------------------------------------------------------------
(* Two living players meet.                                                 *)

\* What Alive says of the pipes between n and its parent.
AliveAt(n) ==
    /\ up[n] # <<>> => Head(up[n]).hp > 0
    /\ down[n] # <<>> /\ Head(down[n]).ended = 0 => Head(down[n]).hp > 0

\* Pipes that are as they were, or emptied.
LEMMA EmptierAlive ==
    ASSUME Alive, NEW n \in Node,
           up'[n] = up[n] \/ up'[n] = <<>>, down'[n] = down[n] \/ down'[n] = <<>>
    PROVE  AliveAt(n)'
  BY DEF Alive, AliveAt

\* Pipes of which one holds the single status s.
LEMMA SingleAlive ==
    ASSUME NEW n \in Node, NEW s,
           \/ up'[n] = <<s>> /\ down'[n] = <<>> /\ s.hp > 0
           \/ up'[n] = <<>> /\ down'[n] = <<s>> /\ (s.ended = 0 => s.hp > 0)
    PROVE  AliveAt(n)'
  BY Single DEF AliveAt

\* A step that puts nothing into a FIFO.
LEMMA FifoAlive ==
    ASSUME TypeInv, Alive, \A n \in Node : AliveAt(n)',
           \A a \in Agent : \/ fifo'[a] = fifo[a] \/ fifo'[a] = <<>>
                            \/ fifo[a] # <<>> /\ fifo'[a] = Tail(fifo[a])
    PROVE  Alive'
  <1>1. ASSUME NEW a \in Agent, NEW k \in DOMAIN fifo'[a]
        PROVE  fifo'[a][k].hp > 0
    <2>1. \A j \in DOMAIN fifo[a] : fifo[a][j].hp > 0
      BY DEF Alive
    <2>2. CASE fifo'[a] = fifo[a]
      BY <1>1, <2>1, <2>2
    <2>3. CASE fifo'[a] = <<>>
      <3>1. DOMAIN fifo'[a] = {}
        BY <2>3
      <3> QED
        BY <1>1, <3>1
    <2>4. CASE fifo[a] # <<>> /\ fifo'[a] = Tail(fifo[a])
      <3> DEFINE q == fifo[a]
                 r == fifo'[a]
      <3>1. q \in Seq(Statuses({0})) /\ q # <<>> /\ r = Tail(q) /\ k \in DOMAIN r
        BY <1>1, <2>4, FifoDomain
      <3>2. k + 1 \in DOMAIN q /\ r[k] = q[k + 1]
        BY <3>1
      <3> QED
        BY <2>1, <3>2
    <2> QED
      BY <2>2, <2>3, <2>4
  <1> QED
    BY <1>1 DEF Alive, AliveAt

\* A step of a battle.
LEMMA BattleAlive ==
    ASSUME TypeInv, FlowInv, Alive, NEW b \in Battle, BattleStep(b)
    PROVE  Alive'
  <1>1. fifo' = fifo
    BY DEF BattleStep, Fight, Reap, PassUp, PassDown, End, fifos
  <1>2. \A n \in Node : OneAt(n) /\ (~Silent(n) => pc[n] \in {"down", "play"})
    BY DEF FlowInv, OneStatus
  <1>3. b \in Node
    BY DEF Node
  <1> SUFFICES ASSUME NEW n \in Node
               PROVE  AliveAt(n)'
    BY <1>1, FifoAlive
  <1>4. CASE Fight(b)
    <2>1. /\ up[Left[b]] # <<>> /\ up[Right[b]] # <<>>
          /\ n \notin Child(b) => up'[n] = up[n] /\ down'[n] = down[n]
          /\ n \in Child(b) =>
                 /\ Len(up[n]) <= 1 => up'[n] = <<>>
                 /\ \E s \in Statuses({0, 1}) :
                        /\ down[n] = <<>> => down'[n] = <<s>>
                        /\ s.ended = 0 => s.hp > 0
      BY <1>4, FightPipes
    <2>2. CASE n \notin Child(b)
      BY <2>1, <2>2, EmptierAlive
    <2>3. CASE n \in Child(b)
      <3>1. up[n] # <<>>
        BY <2>1, <2>3 DEF Child
      <3>2. down[n] = <<>> /\ Len(up[n]) <= 1
        BY <1>2, <3>1 DEF OneAt
      <3> QED
        BY <2>1, <2>3, <3>2, SingleAlive
    <2> QED
      BY <2>2, <2>3
  <1>5. CASE Reap(b) \/ End(b)
    BY <1>5, EmptierAlive DEF Reap, End, pipes
  <1>6. CASE PassUp(b)
    <2>1. PICK w : w = winner[b]
      OBVIOUS
    <2>2. w \in Node /\ up[w] # <<>> /\ pc[b] = "up" /\ down' = down
      BY <1>6, <2>1, PassUpPipes
    <2>5. \A k \in Node \ {w, b} : up'[k] = up[k]
      BY <1>6, <2>1, PassUpPipes
    <2>6. /\ w # b /\ Len(up[w]) <= 1 => up'[w] = <<>>
          /\ w # b /\ up[b] = <<>> => up'[b] = <<Head(up[w])>>
      BY <1>6, <2>1, PassUpPipes
    <2>3. w # b /\ Len(up[w]) <= 1 /\ up[b] = <<>> /\ down[b] = <<>>
      BY <1>2, <1>3, <2>2 DEF OneAt, Silent
    <2>4. Head(up[w]).hp > 0
      BY <2>2 DEF Alive
    <2>7. CASE n = b
      BY <1>3, <2>2, <2>3, <2>4, <2>6, <2>7, SingleAlive
    <2>8. CASE n = w
      BY <2>2, <2>3, <2>6, <2>8, EmptierAlive
    <2>9. CASE n \notin {w, b}
      BY <2>2, <2>5, <2>9, EmptierAlive
    <2> QED
      BY <2>7, <2>8, <2>9
  <1>7. CASE PassDown(b)
    <2>1. PICK w : w = winner[b]
      OBVIOUS
    <2>2. w \in Node /\ down[b] # <<>> /\ pc[b] = "down" /\ up' = up
      BY <1>7, <2>1, PassDownPipes
    <2>6. \A k \in Node \ {w, b} : down'[k] = down[k]
      BY <1>7, <2>1, PassDownPipes
    <2>7. /\ w # b /\ Len(down[b]) <= 1 => down'[b] = <<>>
          /\ w # b /\ down[w] = <<>> => down'[w] = <<Head(down[b])>>
      BY <1>7, <2>1, PassDownPipes
    <2>3. Silent(w)
      BY <2>1, <2>2 DEF FlowInv, OneBelow
    <2>4. w # b /\ Len(down[b]) <= 1 /\ up[w] = <<>> /\ down[w] = <<>>
      BY <1>2, <1>3, <2>2, <2>3 DEF OneAt, Silent
    <2>5. Head(down[b]).ended = 0 => Head(down[b]).hp > 0
      BY <1>3, <2>2 DEF Alive
    <2>8. CASE n = w
      BY <2>2, <2>4, <2>5, <2>7, <2>8, SingleAlive
    <2>9. CASE n = b
      BY <1>3, <2>2, <2>4, <2>7, <2>9, EmptierAlive
    <2>10. CASE n \notin {w, b}
      BY <2>2, <2>6, <2>10, EmptierAlive
    <2> QED
      BY <2>8, <2>9, <2>10
  <1> QED
    BY <1>4, <1>5, <1>6, <1>7 DEF BattleStep

\* A step of a player.
LEMMA PlayerAlive ==
    ASSUME TypeInv, FlowInv, Alive, NEW p \in Player, PlayerStep(p)
    PROVE  Alive'
  <1>1. \A n \in Node : OneAt(n) /\ (~Silent(n) => pc[n] \in {"down", "play"})
    BY DEF FlowInv, OneStatus
  <1>2. p \in Node
    BY DEF Node
  <1>3. CASE Return(p) \/ Win(p)
    <2>1. /\ down[p] # <<>> /\ fifo' = fifo
          /\ \A n \in Node \ {p} : up'[n] = up[n] /\ down'[n] = down[n]
          /\ Len(down[p]) <= 1 => down'[p] = <<>>
          /\ \E s \in Statuses({0}) : /\ up[p] = <<>> => up'[p] = <<s>>
                                      /\ s.hp > 0
      BY <1>3, AnswerPipes DEF fifos
    <2>2. up[p] = <<>> /\ Len(down[p]) <= 1
      BY <1>1, <1>2, <2>1 DEF OneAt
    <2>3. \A n \in Node : AliveAt(n)'
      BY <2>1, <2>2, EmptierAlive, SingleAlive
    <2> QED
      BY <2>1, <2>3, FifoAlive
  <1>4. CASE Finish(p) \/ Lose(p)
    <2>1. /\ fifo' = fifo /\ up' = up /\ down[p] # <<>>
          /\ \A n \in Node \ {p} : down'[n] = down[n]
          /\ Len(down[p]) <= 1 => down'[p] = <<>>
      BY <1>4, LeavePipes DEF fifos
    <2>2. Len(down[p]) <= 1
      BY <1>1, <1>2 DEF OneAt
    <2>3. \A n \in Node : AliveAt(n)'
      BY <2>1, <2>2, EmptierAlive
    <2> QED
      BY <2>1, <2>3, FifoAlive
  <1>5. CASE Enter(p)
    <2>1. /\ pc[p] = "enter" /\ fifo' = fifo /\ down' = down
          /\ \A n \in Node \ {p} : up'[n] = up[n]
          /\ \E s \in Statuses({0}) : /\ up[p] = <<>> => up'[p] = <<s>>
                                      /\ s.hp > 0
      BY <1>5, EnterPipes DEF fifos
    <2>2. up[p] = <<>> /\ down[p] = <<>>
      BY <1>1, <1>2, <2>1 DEF Silent
    <2>3. \A n \in Node : AliveAt(n)'
      BY <2>1, <2>2, EmptierAlive, SingleAlive
    <2> QED
      BY <2>1, <2>3, FifoAlive
  <1>6. CASE StandIn(p)
    <2>1. /\ p \in Agent /\ pc[p] = "idle" /\ fifo[p] # <<>> /\ down' = down
          /\ \A n \in Node \ {p} : up'[n] = up[n]
          /\ up[p] = <<>> => up'[p] = <<Head(fifo[p])>>
          /\ \A c \in Agent \ {p} : fifo'[c] = fifo[c]
          /\ fifo'[p] = Tail(fifo[p])
      BY <1>6, StandInPipes
    <2>2. up[p] = <<>> /\ down[p] = <<>>
      BY <1>1, <1>2, <2>1 DEF Silent
    <2>3. Head(fifo[p]).hp > 0
      <3>1. 1 \in DOMAIN fifo[p] /\ Head(fifo[p]) = fifo[p][1]
        <4> DEFINE q == fifo[p]
        <4>1. q \in Seq(Statuses({0})) /\ q # <<>>
          BY <2>1, FifoDomain
        <4> QED
          BY <4>1
      <3> QED
        BY <2>1, <3>1 DEF Alive
    <2>4. \A n \in Node : AliveAt(n)'
      BY <2>1, <2>2, <2>3, EmptierAlive, SingleAlive
    <2> QED
      BY <2>1, <2>4, FifoAlive
  <1>7. CASE HandOver(p)
    <2>1. /\ UNCHANGED pipes
          /\ \/ fifo' = fifo
             \/ \E a \in Agent : \E s \in Statuses({0}) :
                    /\ \A c \in Agent \ {a} : fifo'[c] = fifo[c]
                    /\ IsPutInto(fifo', fifo, a, s)
                    /\ s.hp > 0
          /\ fifo' \in [Agent -> Seq(Statuses({0}))]
      BY <1>7, HandOverFifo
    <2>2. \A n \in Node : AliveAt(n)'
      BY <2>1, EmptierAlive DEF pipes
    <2>3. ASSUME NEW a \in Agent, NEW s \in Statuses({0}), s.hp > 0,
                 \A c \in Agent \ {a} : fifo'[c] = fifo[c],
                 IsPutInto(fifo', fifo, a, s)
          PROVE  \A c \in Agent : \A k \in DOMAIN fifo'[c] : fifo'[c][k].hp > 0
      <3> DEFINE f == fifo[a]
                 g == fifo'[a]
                 N == Len(f)
      <3>1. /\ f \in Seq(Statuses({0})) /\ g \in Seq(Statuses({0}))
            /\ Len(g) = N + 1 /\ g[N + 1] = s
            /\ \A k \in 1 .. N : g[k] = f[k]
        BY <2>1, <2>3, FifoDomain DEF IsPutInto
      <3>2. /\ DOMAIN f = 1 .. N /\ N \in Nat /\ DOMAIN g = 1 .. N + 1
        BY <3>1
      <3>3. \A k \in DOMAIN f : f[k].hp > 0
        BY DEF Alive
      <3> HIDE DEF f, g, N
      <3>4. \A k \in DOMAIN g : g[k].hp > 0
        <4> SUFFICES ASSUME NEW k \in DOMAIN g
                     PROVE  g[k].hp > 0
          OBVIOUS
        <4>1. k = N + 1 \/ k \in 1 .. N
          BY <3>2
        <4> QED
          BY <2>3, <3>1, <3>2, <3>3, <4>1
      <3>5. \A c \in Agent \ {a} : \A k \in DOMAIN fifo'[c] : fifo'[c][k].hp > 0
        BY <2>3 DEF Alive
      <3> QED
        BY <3>4, <3>5 DEF g
    <2>4. CASE fifo' = fifo
      BY <2>2, <2>4, FifoAlive
    <2> QED
      BY <2>1, <2>2, <2>3, <2>4 DEF Alive, AliveAt
  <1>8. CASE Depart(p)
    <2>1. /\ UNCHANGED pipes
          /\ \A c \in Agent : fifo'[c] = fifo[c] \/ fifo'[c] = <<>>
      BY <1>8, DepartFifo
    <2>2. \A n \in Node : AliveAt(n)'
      BY <2>1, EmptierAlive DEF pipes
    <2> QED
      BY <2>1, <2>2, FifoAlive
  <1>9. CASE MakeFifo(p) \/ OpenFifo(p)
    <2>1. UNCHANGED pipes /\ fifo' = fifo
      BY <1>9 DEF MakeFifo, OpenFifo, fifos
    <2>2. \A n \in Node : AliveAt(n)'
      BY <2>1, EmptierAlive DEF pipes
    <2> QED
      BY <2>1, <2>2, FifoAlive
  <1> QED
    BY <1>3, <1>4, <1>5, <1>6, <1>7, <1>8, <1>9 DEF PlayerStep

\* The whole invariant.
TournamentInv == TypeInv /\ FlowInv /\ OnePlace /\ Alive

\* At the start the pipes and the FIFOs are empty.
LEMMA InitInv == Init => TournamentInv
  <1> SUFFICES ASSUME Init PROVE TournamentInv
    OBVIOUS
  <1>1. TypeInv /\ FlowInv
    BY InitTypes, InitFlow
  <1>2. /\ \A n \in Node : up[n] = <<>> /\ down[n] = <<>>
        /\ \A a \in Agent : fifo[a] = <<>>
    BY DEF Init
  <1>3. \A a \in Agent : DOMAIN fifo[a] = {}
    BY <1>2
  <1>4. \A n \in Node : \A p : ~Between(n, p)
    BY <1>2 DEF Between
  <1>5. \A a \in Agent : \A p : ~Handed(a, p)
    BY <1>3 DEF Handed
  <1>6. OnePlace
    BY <1>3, <1>4, <1>5 DEF OnePlace
  <1>7. Alive
    BY <1>2, <1>3 DEF Alive
  <1> QED
    BY <1>1, <1>6, <1>7 DEF TournamentInv

\* And every step keeps the invariant.
LEMMA NextInv == TournamentInv /\ [Next]_vars => TournamentInv'
  <1> SUFFICES ASSUME TypeInv, FlowInv, OnePlace, Alive, [Next]_vars
               PROVE  TournamentInv'
    BY DEF TournamentInv
  <1>1. TypeInv' /\ FlowInv' /\ OnePlace'
    BY NextTypes, NextFlow, NextPlaces
  <1>2. CASE UNCHANGED vars
    <2>1. UNCHANGED pipes /\ fifo' = fifo
      BY <1>2 DEF vars, fifos
    <2>2. \A n \in Node : AliveAt(n)'
      BY <2>1, EmptierAlive DEF pipes
    <2>3. Alive'
      BY <2>1, <2>2, FifoAlive
    <2> QED
      BY <1>1, <2>3 DEF TournamentInv
  <1>3. ASSUME NEW b \in Battle, BattleStep(b)
        PROVE  TournamentInv'
    <2>1. Alive'
      BY <1>3, BattleAlive
    <2> QED
      BY <1>1, <2>1 DEF TournamentInv
  <1>4. ASSUME NEW p \in Player, PlayerStep(p)
        PROVE  TournamentInv'
    <2>1. Alive'
      BY <1>4, PlayerAlive
    <2> QED
      BY <1>1, <2>1 DEF TournamentInv
  <1> QED
    BY <1>2, <1>3, <1>4 DEF Next

\* A battle reads the statuses of two players in one place each.
LEMMA DifferentPlayers ==
    ASSUME TypeInv, OnePlace, NEW b \in Battle,
           up[Left[b]] # <<>>, up[Right[b]] # <<>>
    PROVE  Head(up[Left[b]]).id # Head(up[Right[b]]).id
  <1>1. Left[b] \in Node /\ Right[b] \in Node /\ Left[b] # Right[b]
    BY Bracket
  <1> DEFINE p == Head(up[Left[b]]).id
             q == Head(up[Right[b]]).id
  <1>2. p \in Real /\ Between(Left[b], p) /\ Between(Right[b], q)
    BY <1>1, RealIds DEF Between
  <1> HIDE DEF p, q
  <1>3. p # q
    BY <1>1, <1>2 DEF OnePlace
  <1> QED
    BY <1>3 DEF p, q

\* Two players meet in a round only alive, and never a player itself, for every
\* bracket, every HP in the file and every order of the processes: a beaten
\* player has no status left anywhere but the one it hands to its agent, with
\* the HP of the file (player.c 73-105, 116-156; battle.c 219-322).
THEOREM FightersMeetAlive == Spec => []FightersAlive
  <1>1. TournamentInv => FightersAlive
    <2> SUFFICES ASSUME TypeInv, OnePlace, Alive, NEW b \in Battle, pc[b] = "fight",
                        up[Left[b]] # <<>>, up[Right[b]] # <<>>
                 PROVE  /\ Head(up[Left[b]]).hp > 0 /\ Head(up[Right[b]]).hp > 0
                        /\ Head(up[Left[b]]).id # Head(up[Right[b]]).id
      BY DEF TournamentInv, FightersAlive
    <2>1. Left[b] \in Node /\ Right[b] \in Node
      BY Bracket
    <2>2. Head(up[Left[b]]).hp > 0 /\ Head(up[Right[b]]).hp > 0
      BY <2>1 DEF Alive
    <2> QED
      BY <2>2, DifferentPlayers
  <1> QED
    BY <1>1, InitInv, NextInv, PTL DEF Spec

-----------------------------------------------------------------------------
(* The reference: what a battle between two statuses comes to.              *)

Blow(b, i) == IF Attr[i] = Field[b] THEN 2 * Atk[i] ELSE Atk[i]

Wins(F, i, hp, j) ==
    [best |-> [id |-> i, hp |-> (hp + F[i]) \div 2], other |-> j]

\* A round of players i and j with h[1] and h[2] HP; g knows the next one.
RoundOf(F, b, i, j, g, h) ==
    IF h[1] < h[2] \/ (h[1] = h[2] /\ i < j)
    THEN IF h[2] <= Blow(b, i) THEN Wins(F, i, h[1], j)
         ELSE IF h[1] <= Blow(b, j) THEN Wins(F, j, h[2] - Blow(b, i), i)
         ELSE g[<<h[1] - Blow(b, j), h[2] - Blow(b, i)>>]
    ELSE IF h[1] <= Blow(b, j) THEN Wins(F, j, h[2], i)
         ELSE IF h[2] <= Blow(b, i) THEN Wins(F, i, h[1] - Blow(b, j), j)
         ELSE g[<<h[1] - Blow(b, j), h[2] - Blow(b, i)>>]

IsRounds(F, b, i, j, g) == g = [h \in Nat \X Nat |-> RoundOf(F, b, i, j, g, h)]
Rounds(F, b, i, j) == CHOOSE g : IsRounds(F, b, i, j, g)

\* The agent n stands in for the loser of this battle.
Source(n) == CHOOSE c \in DOMAIN LoserAgent : LoserAgent[c] = n

\* Who comes to a battle from n when res are the results of the earlier ones.
EntrantOf(F, res, n) ==
    IF n \in Battle THEN res[n].best
    ELSE LET p == IF n \in Real THEN n ELSE res[Source(n)].other
         IN  [id |-> p, hp |-> F[p]]

BattleOf(F, res, b) ==
    Rounds(F, b, EntrantOf(F, res, Left[b]).id, EntrantOf(F, res, Right[b]).id)
        [<<EntrantOf(F, res, Left[b]).hp, EntrantOf(F, res, Right[b]).hp>>]

IsResults(F, res) == res = [b \in Battle |-> BattleOf(F, res, b)]
ResultsOf(F) == CHOOSE res : IsResults(F, res)

\* These are the definitions that the property uses.
LEMMA SameResults == Results = ResultsOf(full)
  BY DEF Results, Bout, ResultsOf, IsResults, BattleOf, EntrantOf, Source,
         Rounds, IsRounds, RoundOf, Wins, Blow

\* A battle ends with a winner, what it has left, and a loser.
Outcome == [best : [id : Real, hp : Nat], other : Real]

\* Every strike takes something.
LEMMA BlowSome ==
    ASSUME NEW b \in Battle, NEW i \in Real
    PROVE  Blow(b, i) \in Nat \ {0}
  <1>1. Atk[i] \in Nat \ {0}
    BY StatusAssumption
  <1>2. PICK k \in Nat \ {0} : k = Atk[i]
    BY <1>1
  <1>3. 2 * k \in Nat \ {0}
    BY <1>2
  <1> QED
    BY <1>2, <1>3 DEF Blow

\* What a winner comes out with.
LEMMA WinsOutcome ==
    ASSUME NEW F \in [Real -> Nat], NEW i \in Real, NEW j \in Real, NEW hp \in Nat
    PROVE  Wins(F, i, hp, j) \in Outcome
  <1>1. PICK k \in Nat : k = F[i]
    OBVIOUS
  <1>2. (hp + k) \div 2 \in Nat
    BY <1>1
  <1> QED
    BY <1>1, <1>2 DEF Wins, Outcome

\* A round that is decided, and one that comes to what the round after it does.
Decided(F, b, i, j, x, y) ==
    \E o \in Outcome : \A g : RoundOf(F, b, i, j, g, <<x, y>>) = o
GoesOn(F, b, i, j, x, y) ==
    \E u, v \in Nat : /\ u < x /\ v < y
                      /\ \A g : RoundOf(F, b, i, j, g, <<x, y>>) = g[<<u, v>>]

\* A round is decided, or it depends on the next one, in which both have less.
LEMMA RoundDepends ==
    ASSUME NEW F \in [Real -> Nat], NEW b \in Battle, NEW i \in Real, NEW j \in Real,
           NEW x \in Nat, NEW y \in Nat
    PROVE  Decided(F, b, i, j, x, y) \/ GoesOn(F, b, i, j, x, y)
  <1>1. PICK di, dj : di = Blow(b, i) /\ dj = Blow(b, j)
    OBVIOUS
  <1>2. di \in Nat /\ di # 0 /\ dj \in Nat /\ dj # 0
    BY <1>1, BlowSome
  <1> DEFINE first == x < y \/ (x = y /\ i < j)
  <1>3. \A g : RoundOf(F, b, i, j, g, <<x, y>>) =
            IF first
            THEN IF y <= di THEN Wins(F, i, x, j)
                 ELSE IF x <= dj THEN Wins(F, j, y - di, i)
                 ELSE g[<<x - dj, y - di>>]
            ELSE IF x <= dj THEN Wins(F, j, y, i)
                 ELSE IF y <= di THEN Wins(F, i, x - dj, j)
                 ELSE g[<<x - dj, y - di>>]
    BY <1>1 DEF RoundOf
  <1> HIDE DEF first
  <1>4. CASE x <= dj \/ y <= di
    <2>1. CASE first /\ y <= di
      <3>1. \A g : RoundOf(F, b, i, j, g, <<x, y>>) = Wins(F, i, x, j)
        BY <1>3, <2>1
      <3> QED
        BY <3>1, WinsOutcome DEF Decided
    <2>2. CASE first /\ ~(y <= di)
      <3>1. y - di \in Nat
        BY <1>2, <2>2
      <3>2. \A g : RoundOf(F, b, i, j, g, <<x, y>>) = Wins(F, j, y - di, i)
        BY <1>3, <1>4, <2>2
      <3>3. Wins(F, j, y - di, i) \in Outcome
        BY <3>1, WinsOutcome
      <3> QED
        BY <3>2, <3>3 DEF Decided
    <2>3. CASE ~first /\ x <= dj
      <3>1. \A g : RoundOf(F, b, i, j, g, <<x, y>>) = Wins(F, j, y, i)
        BY <1>3, <2>3
      <3> QED
        BY <3>1, WinsOutcome DEF Decided
    <2>4. CASE ~first /\ ~(x <= dj)
      <3>1. x - dj \in Nat
        BY <1>2, <2>4
      <3>2. \A g : RoundOf(F, b, i, j, g, <<x, y>>) = Wins(F, i, x - dj, j)
        BY <1>3, <1>4, <2>4
      <3>3. Wins(F, i, x - dj, j) \in Outcome
        BY <3>1, WinsOutcome
      <3> QED
        BY <3>2, <3>3 DEF Decided
    <2> QED
      BY <2>1, <2>2, <2>3, <2>4
  <1>5. CASE ~(x <= dj) /\ ~(y <= di)
    <2> DEFINE u == x - dj
               v == y - di
    <2>1. u \in Nat /\ v \in Nat /\ u < x /\ v < y
      BY <1>2, <1>5
    <2>2. \A g : RoundOf(F, b, i, j, g, <<x, y>>) = g[<<u, v>>]
      BY <1>3, <1>5
    <2> HIDE DEF u, v
    <2> QED
      BY <2>1, <2>2 DEF GoesOn
  <1> QED
    BY <1>4, <1>5

\* Whatever solves the equation of the rounds has outcomes for values.
LEMMA RoundsType ==
    ASSUME NEW F \in [Real -> Nat], NEW b \in Battle, NEW i \in Real, NEW j \in Real,
           NEW g, IsRounds(F, b, i, j, g)
    PROVE  g \in [Nat \X Nat -> Outcome]
  <1> DEFINE Typed == {n \in Nat : \A x, y \in Nat : x + y < n => g[<<x, y>>] \in Outcome}
  <1>1. ASSUME NEW x \in Nat, NEW y \in Nat
        PROVE  g[<<x, y>>] = RoundOf(F, b, i, j, g, <<x, y>>)
    <2>1. <<x, y>> \in Nat \X Nat
      OBVIOUS
    <2> QED
      BY <2>1 DEF IsRounds
  <1>2. 0 \in Typed
    OBVIOUS
  <1>3. ASSUME NEW n \in Nat, n \in Typed
        PROVE  n + 1 \in Typed
    <2> SUFFICES ASSUME NEW x \in Nat, NEW y \in Nat, x + y < n + 1
                 PROVE  g[<<x, y>>] \in Outcome
      OBVIOUS
    <2>1. CASE Decided(F, b, i, j, x, y)
      BY <1>1, <2>1 DEF Decided
    <2>2. CASE GoesOn(F, b, i, j, x, y)
      <3>1. PICK u, v \in Nat :
                /\ u < x /\ v < y
                /\ \A k : RoundOf(F, b, i, j, k, <<x, y>>) = k[<<u, v>>]
        BY <2>2 DEF GoesOn
      <3>2. u + v < n
        BY <3>1
      <3>3. g[<<u, v>>] \in Outcome
        BY <1>3, <3>2
      <3> QED
        BY <1>1, <3>1, <3>3
    <2> QED
      BY <2>1, <2>2, RoundDepends
  <1>4. Nat \subseteq Typed
    <2> HIDE DEF Typed
    <2> QED
      BY <1>2, <1>3, Induction
  <1>5. ASSUME NEW h \in Nat \X Nat
        PROVE  g[h] \in Outcome
    <2>1. PICK x, y \in Nat : h = <<x, y>>
      OBVIOUS
    <2>2. PICK n \in Nat : n = x + y + 1
      OBVIOUS
    <2>3. n \in Typed
      BY <1>4
    <2>4. x + y < n
      BY <2>2
    <2> QED
      BY <2>1, <2>3, <2>4
  <1> QED
    BY <1>5 DEF IsRounds

\* The rounds of a battle come to an end, so the reference is well defined.
LEMMA RoundsSolved ==
    ASSUME NEW F \in [Real -> Nat], NEW b \in Battle, NEW i \in Real, NEW j \in Real
    PROVE  /\ IsRounds(F, b, i, j, Rounds(F, b, i, j))
           /\ Rounds(F, b, i, j) \in [Nat \X Nat -> Outcome]
  <1> DEFINE H == Nat \X Nat
             A == [H -> Outcome]
             first == [h \in H |-> Wins(F, i, 0, j)]
             step == [p \in Nat \X A |-> [h \in H |-> RoundOf(F, b, i, j, p[2], h)]]
  <1>1. ASSUME NEW g \in A, NEW h \in H
        PROVE  RoundOf(F, b, i, j, g, h) \in Outcome
    <2>1. PICK x, y \in Nat : h = <<x, y>>
      OBVIOUS
    <2>2. CASE Decided(F, b, i, j, x, y)
      BY <2>1, <2>2 DEF Decided
    <2>3. CASE GoesOn(F, b, i, j, x, y)
      <3>1. PICK u, v \in Nat : RoundOf(F, b, i, j, g, <<x, y>>) = g[<<u, v>>]
        BY <2>3 DEF GoesOn
      <3>2. <<u, v>> \in H
        OBVIOUS
      <3> QED
        BY <2>1, <3>1, <3>2
    <2> QED
      BY <2>2, <2>3, RoundDepends
  <1>2. first \in A
    BY WinsOutcome
  <1>3. step \in [Nat \X A -> A]
    <2>1. ASSUME NEW p \in Nat \X A
          PROVE  [h \in H |-> RoundOf(F, b, i, j, p[2], h)] \in A
      <3>1. p[2] \in A
        OBVIOUS
      <3> QED
        BY <1>1, <3>1
    <2> HIDE DEF A
    <2> QED
      BY <2>1
  <1>4. ASSUME NEW n \in Nat, NEW g \in A, NEW h \in H
        PROVE  step[<<n, g>>][h] = RoundOf(F, b, i, j, g, h)
    <2>1. <<n, g>> \in Nat \X A
      OBVIOUS
    <2> HIDE DEF A
    <2> QED
      BY <2>1
  <1> HIDE DEF step, first, A
  <1>5. PICK f : Repeats(f, A, first, step)
    BY <1>2, <1>3, Repetition
  <1>6. f \in [Nat -> A]
    BY <1>5 DEF Repeats
  <1>7. ASSUME NEW n \in Nat, NEW h \in H
        PROVE  f[n + 1][h] = RoundOf(F, b, i, j, f[n], h)
    <2>1. f[n + 1] = step[<<n + 1, f[n]>>]
      BY <1>5 DEF Repeats
    <2>2. f[n] \in A
      BY <1>6
    <2> QED
      BY <1>4, <2>1, <2>2
  <1> DEFINE Settled == {n \in Nat : \A x, y \in Nat :
                            x + y < n => f[n][<<x, y>>] = f[n + 1][<<x, y>>]}
  <1>8. 0 \in Settled
    OBVIOUS
  <1>9. ASSUME NEW n \in Nat, n \in Settled
        PROVE  n + 1 \in Settled
    <2> SUFFICES ASSUME NEW x \in Nat, NEW y \in Nat, x + y < n + 1
                 PROVE  f[n + 1][<<x, y>>] = f[n + 1 + 1][<<x, y>>]
      OBVIOUS
    <2>1. /\ f[n + 1][<<x, y>>] = RoundOf(F, b, i, j, f[n], <<x, y>>)
          /\ f[n + 1 + 1][<<x, y>>] = RoundOf(F, b, i, j, f[n + 1], <<x, y>>)
      BY <1>7
    <2>2. CASE Decided(F, b, i, j, x, y)
      BY <2>1, <2>2 DEF Decided
    <2>3. CASE GoesOn(F, b, i, j, x, y)
      <3>1. PICK u, v \in Nat :
                /\ u < x /\ v < y
                /\ \A k : RoundOf(F, b, i, j, k, <<x, y>>) = k[<<u, v>>]
        BY <2>3 DEF GoesOn
      <3>2. u + v < n
        BY <3>1
      <3>3. f[n][<<u, v>>] = f[n + 1][<<u, v>>]
        BY <1>9, <3>2
      <3> QED
        BY <2>1, <3>1, <3>3
    <2> QED
      BY <2>2, <2>3, RoundDepends
  <1>10. Nat \subseteq Settled
    <2> HIDE DEF Settled
    <2> QED
      BY <1>8, <1>9, Induction
  <1> DEFINE g == [h \in H |-> f[h[1] + h[2] + 1][h]]
             Late == {n \in Nat : \A x, y \in Nat : x + y < n => f[n][<<x, y>>] = g[<<x, y>>]}
  <1>11. ASSUME NEW x \in Nat, NEW y \in Nat
         PROVE  g[<<x, y>>] = f[x + y + 1][<<x, y>>]
    OBVIOUS
  <1>12. g \in [H -> Outcome]
    <2> SUFFICES ASSUME NEW h \in H PROVE f[h[1] + h[2] + 1][h] \in Outcome
      OBVIOUS
    <2>1. h[1] + h[2] + 1 \in Nat
      OBVIOUS
    <2>2. f[h[1] + h[2] + 1] \in A
      BY <1>6, <2>1
    <2> QED
      BY <2>2 DEF A
  <1> HIDE DEF g
  <1>13. 0 \in Late
    OBVIOUS
  <1>14. ASSUME NEW n \in Nat, n \in Late
         PROVE  n + 1 \in Late
    <2> SUFFICES ASSUME NEW x \in Nat, NEW y \in Nat, x + y < n + 1
                 PROVE  f[n + 1][<<x, y>>] = g[<<x, y>>]
      OBVIOUS
    <2>1. CASE x + y = n
      BY <1>11, <2>1
    <2>2. CASE x + y < n
      BY <1>10, <1>14, <2>2
    <2> QED
      BY <2>1, <2>2
  <1>15. Nat \subseteq Late
    <2> HIDE DEF Late
    <2> QED
      BY <1>13, <1>14, Induction
  <1>16. ASSUME NEW h \in H
         PROVE  g[h] = RoundOf(F, b, i, j, g, h)
    <2>1. PICK x, y \in Nat : h = <<x, y>>
      OBVIOUS
    <2>2. PICK n \in Nat : n = x + y
      OBVIOUS
    <2>3. /\ g[<<x, y>>] = f[n + 1][<<x, y>>]
          /\ f[n + 1][<<x, y>>] = RoundOf(F, b, i, j, f[n], <<x, y>>)
      BY <1>7, <1>11, <2>2
    <2>4. CASE Decided(F, b, i, j, x, y)
      BY <2>1, <2>3, <2>4 DEF Decided
    <2>5. CASE GoesOn(F, b, i, j, x, y)
      <3>1. PICK u, v \in Nat :
                /\ u < x /\ v < y
                /\ \A k : RoundOf(F, b, i, j, k, <<x, y>>) = k[<<u, v>>]
        BY <2>5 DEF GoesOn
      <3>2. n \in Late /\ u + v < n
        BY <1>15, <2>2, <3>1
      <3>3. f[n][<<u, v>>] = g[<<u, v>>]
        BY <3>2
      <3> QED
        BY <2>1, <2>3, <3>1, <3>3
    <2> QED
      BY <2>4, <2>5, RoundDepends
  <1>17. IsRounds(F, b, i, j, g)
    BY <1>12, <1>16 DEF IsRounds
  <1>18. IsRounds(F, b, i, j, Rounds(F, b, i, j))
    BY <1>17 DEF Rounds
  <1> QED
    BY <1>18, RoundsType

\* Each agent stands in for the loser of one battle.
LEMMA Sources ==
    /\ \A a \in Agent : /\ Source(a) \in DOMAIN LoserAgent /\ Source(a) \in Battle
                        /\ LoserAgent[Source(a)] = a
    /\ \A c \in DOMAIN LoserAgent : LoserAgent[c] \in Agent /\ Source(LoserAgent[c]) = c
  <1>1. DOMAIN LoserAgent \subseteq Battle
    BY StatusAssumption
  <1>2. ASSUME NEW a \in Agent
        PROVE  Source(a) \in DOMAIN LoserAgent /\ LoserAgent[Source(a)] = a
    <2>1. \E c \in DOMAIN LoserAgent : LoserAgent[c] = a
      BY SeedingAssumption
    <2> QED
      BY <2>1 DEF Source
  <1>3. ASSUME NEW c \in DOMAIN LoserAgent
        PROVE  LoserAgent[c] \in Agent /\ Source(LoserAgent[c]) = c
    <2>1. LoserAgent[c] \in Agent
      BY StatusAssumption
    <2>2. PICK a \in Agent : a = LoserAgent[c]
      BY <2>1
    <2>3. Source(a) \in DOMAIN LoserAgent /\ LoserAgent[Source(a)] = LoserAgent[c]
      BY <1>2, <2>2
    <2>4. Source(a) = c
      BY <2>3, SeedingAssumption
    <2> QED
      BY <2>2, <2>4
  <1> QED
    BY <1>1, <1>2, <1>3

\* What comes to a battle from a child depends on the battles that feed it.
LEMMA EntrantFrom ==
    ASSUME NEW F \in [Real -> Nat], NEW b \in Battle, NEW n \in Child(b), NEW res,
           \A c \in Battle : Feeds(c, b) => res[c] \in Outcome
    PROVE  /\ EntrantOf(F, res, n).id \in Real
           /\ EntrantOf(F, res, n).hp \in Nat
           /\ \A old : (\A c \in Battle : Feeds(c, b) => res[c] = old[c]) =>
                  EntrantOf(F, res, n) = EntrantOf(F, old, n)
  <1>1. CASE n \in Battle
    <2>1. Feeds(n, b)
      BY DEF Feeds
    <2>2. res[n] \in Outcome
      BY <1>1, <2>1
    <2>3. \A old : EntrantOf(F, old, n) = old[n].best
      BY <1>1 DEF EntrantOf
    <2>4. EntrantOf(F, res, n) = res[n].best
      BY <2>3
    <2>5. res[n].best.id \in Real /\ res[n].best.hp \in Nat
      BY <2>2 DEF Outcome
    <2> QED
      BY <1>1, <2>1, <2>3, <2>4, <2>5
  <1>2. CASE n \notin Battle /\ n \in Real
    <2>1. \A old : EntrantOf(F, old, n) = [id |-> n, hp |-> F[n]]
      BY <1>2 DEF EntrantOf
    <2>2. F[n] \in Nat
      BY <1>2
    <2> QED
      BY <1>2, <2>1, <2>2
  <1>3. CASE n \notin Battle /\ n \notin Real
    <2>1. n \in Agent
      BY <1>3, Bracket DEF Node, Player
    <2>2. PICK c : c = Source(n)
      OBVIOUS
    <2>3. c \in Battle /\ Feeds(c, b)
      BY <2>1, <2>2, Sources DEF Feeds
    <2>4. res[c] \in Outcome
      BY <2>3
    <2>5. PICK p \in Real : p = res[c].other
      BY <2>4 DEF Outcome
    <2>6. \A old : EntrantOf(F, old, n) = [id |-> old[c].other, hp |-> F[old[c].other]]
      BY <1>3, <2>2 DEF EntrantOf
    <2>7. EntrantOf(F, res, n) = [id |-> p, hp |-> F[p]] /\ F[p] \in Nat
      BY <2>5, <2>6
    <2>8. ASSUME NEW old, res[c] = old[c]
          PROVE  EntrantOf(F, res, n) = EntrantOf(F, old, n)
      BY <2>6, <2>8
    <2> QED
      BY <2>3, <2>7, <2>8
  <1> QED
    BY <1>1, <1>2, <1>3

\* So does its outcome.
LEMMA BattleFrom ==
    ASSUME NEW F \in [Real -> Nat], NEW b \in Battle, NEW res,
           \A c \in Battle : Feeds(c, b) => res[c] \in Outcome
    PROVE  /\ BattleOf(F, res, b) \in Outcome
           /\ \A old : (\A c \in Battle : Feeds(c, b) => res[c] = old[c]) =>
                  BattleOf(F, res, b) = BattleOf(F, old, b)
  <1>1. Left[b] \in Child(b) /\ Right[b] \in Child(b)
    BY DEF Child
  <1>2. PICK l, r : l = EntrantOf(F, res, Left[b]) /\ r = EntrantOf(F, res, Right[b])
    OBVIOUS
  <1>3. /\ l.id \in Real /\ l.hp \in Nat /\ r.id \in Real /\ r.hp \in Nat
        /\ \A old : (\A c \in Battle : Feeds(c, b) => res[c] = old[c]) =>
               l = EntrantOf(F, old, Left[b]) /\ r = EntrantOf(F, old, Right[b])
    BY <1>1, <1>2, EntrantFrom
  <1>4. PICK i \in Real, j \in Real, x \in Nat, y \in Nat :
            i = l.id /\ j = r.id /\ x = l.hp /\ y = r.hp
    BY <1>3
  <1>5. Rounds(F, b, i, j) \in [Nat \X Nat -> Outcome] /\ <<x, y>> \in Nat \X Nat
    BY RoundsSolved
  <1>6. BattleOf(F, res, b) = Rounds(F, b, i, j)[<<x, y>>]
    BY <1>2, <1>4 DEF BattleOf
  <1>7. ASSUME NEW old, l = EntrantOf(F, old, Left[b]), r = EntrantOf(F, old, Right[b])
        PROVE  BattleOf(F, old, b) = Rounds(F, b, i, j)[<<x, y>>]
    BY <1>4, <1>7 DEF BattleOf
  <1> QED
    BY <1>3, <1>5, <1>6, <1>7

\* The turns in which the battles can be fought.
InTurn(turn, N) ==
    /\ N \in Nat
    /\ turn \in [Battle -> 1 .. N]
    /\ \A b, c \in Battle : Feeds(c, b) => turn[c] < turn[b]

\* There are such turns.
LEMMA Turns == \E turn, N : InTurn(turn, N)
  <1>1. IsFiniteSet(Battle)
    BY TreeAssumption, FS_Subset DEF Node
  <1>2. Cardinality(Battle) \in Nat
    BY <1>1, FS_CardinalityType
  <1> QED
    BY <1>2, SeedingAssumption DEF InTurn

\* Whatever solves the equation of the results has outcomes for values.
LEMMA ResultsType ==
    ASSUME NEW F \in [Real -> Nat], NEW res, IsResults(F, res)
    PROVE  res \in [Battle -> Outcome]
  <1>1. PICK turn, N : InTurn(turn, N)
    BY Turns
  <1> DEFINE Typed == {n \in Nat : \A b \in Battle : turn[b] <= n => res[b] \in Outcome}
  <1>2. 0 \in Typed
    BY <1>1 DEF InTurn
  <1>3. ASSUME NEW n \in Nat, n \in Typed
        PROVE  n + 1 \in Typed
    <2> SUFFICES ASSUME NEW b \in Battle, turn[b] <= n + 1
                 PROVE  res[b] \in Outcome
      OBVIOUS
    <2>1. ASSUME NEW c \in Battle, Feeds(c, b)
          PROVE  res[c] \in Outcome
      <3>1. turn[c] < turn[b] /\ turn[c] \in 1 .. N /\ turn[b] \in 1 .. N /\ N \in Nat
        BY <1>1, <2>1 DEF InTurn
      <3>2. turn[c] <= n
        BY <3>1
      <3> QED
        BY <1>3, <3>2
    <2>2. BattleOf(F, res, b) \in Outcome
      BY <2>1, BattleFrom
    <2> QED
      BY <2>2 DEF IsResults
  <1>4. N \in Nat /\ N \in Typed
    <2>1. Nat \subseteq Typed
      <3> HIDE DEF Typed
      <3> QED
        BY <1>2, <1>3, Induction
    <2> QED
      BY <1>1, <2>1 DEF InTurn
  <1>5. ASSUME NEW b \in Battle
        PROVE  res[b] \in Outcome
    <2>1. turn[b] \in 1 .. N
      BY <1>1 DEF InTurn
    <2>2. turn[b] <= N
      BY <1>4, <2>1
    <2> QED
      BY <1>4, <2>2
  <1> QED
    BY <1>5 DEF IsResults

\* The battles can be fought one by one, so the reference is well defined.
LEMMA ResultsSolved ==
    ASSUME NEW F \in [Real -> Nat]
    PROVE  /\ IsResults(F, ResultsOf(F))
           /\ ResultsOf(F) \in [Battle -> Outcome]
  <1>1. PICK turn, N : InTurn(turn, N)
    BY Turns
  <1> DEFINE A == [Battle -> Outcome]
             first == [b \in Battle |-> Wins(F, Least, 0, Least)]
             step == [p \in Nat \X A |-> [b \in Battle |-> BattleOf(F, p[2], b)]]
  <1>2. ASSUME NEW res \in A, NEW b \in Battle
        PROVE  BattleOf(F, res, b) \in Outcome
    <2>1. \A c \in Battle : Feeds(c, b) => res[c] \in Outcome
      OBVIOUS
    <2> QED
      BY <2>1, BattleFrom
  <1>3. first \in A
    <2>1. Wins(F, Least, 0, Least) \in Outcome
      BY LeastReal, WinsOutcome
    <2> QED
      BY <2>1
  <1>4. step \in [Nat \X A -> A]
    <2>1. ASSUME NEW p \in Nat \X A
          PROVE  [b \in Battle |-> BattleOf(F, p[2], b)] \in A
      <3>1. p[2] \in A
        OBVIOUS
      <3> QED
        BY <1>2, <3>1
    <2> HIDE DEF A
    <2> QED
      BY <2>1
  <1>5. ASSUME NEW n \in Nat, NEW res \in A, NEW b \in Battle
        PROVE  step[<<n, res>>][b] = BattleOf(F, res, b)
    <2>1. <<n, res>> \in Nat \X A
      OBVIOUS
    <2> HIDE DEF A
    <2> QED
      BY <2>1
  <1> HIDE DEF step, first, A
  <1>6. PICK f : Repeats(f, A, first, step)
    BY <1>3, <1>4, Repetition
  <1>7. f \in [Nat -> A]
    BY <1>6 DEF Repeats
  <1>8. ASSUME NEW n \in Nat, NEW b \in Battle
        PROVE  f[n + 1][b] = BattleOf(F, f[n], b)
    <2>1. f[n + 1] = step[<<n + 1, f[n]>>]
      BY <1>6 DEF Repeats
    <2>2. f[n] \in A
      BY <1>7
    <2> QED
      BY <1>5, <2>1, <2>2
  <1> DEFINE Settled == {n \in Nat : \A b \in Battle : turn[b] <= n => f[n][b] = f[n + 1][b]}
  <1>9. 0 \in Settled
    BY <1>1 DEF InTurn
  <1>10. ASSUME NEW n \in Nat, n \in Settled
         PROVE  n + 1 \in Settled
    <2> SUFFICES ASSUME NEW b \in Battle, turn[b] <= n + 1
                 PROVE  f[n + 1][b] = f[n + 1 + 1][b]
      OBVIOUS
    <2>1. PICK old, new : old = f[n] /\ new = f[n + 1]
      OBVIOUS
    <2>2. old \in [Battle -> Outcome]
      BY <1>7, <2>1 DEF A
    <2>3. ASSUME NEW c \in Battle, Feeds(c, b)
          PROVE  old[c] = new[c]
      <3>1. turn[c] < turn[b] /\ turn[c] \in 1 .. N /\ turn[b] \in 1 .. N /\ N \in Nat
        BY <1>1, <2>3 DEF InTurn
      <3>2. turn[c] <= n
        BY <3>1
      <3> QED
        BY <1>10, <2>1, <3>2
    <2>4. BattleOf(F, old, b) = BattleOf(F, new, b)
      BY <2>2, <2>3, BattleFrom
    <2>5. f[n + 1][b] = BattleOf(F, f[n], b) /\ f[n + 1 + 1][b] = BattleOf(F, f[n + 1], b)
      BY <1>8
    <2> QED
      BY <2>1, <2>4, <2>5
  <1>11. N \in Nat /\ N \in Settled
    <2>1. Nat \subseteq Settled
      <3> HIDE DEF Settled
      <3> QED
        BY <1>9, <1>10, Induction
    <2> QED
      BY <1>1, <2>1 DEF InTurn
  <1>12. ASSUME NEW b \in Battle
         PROVE  f[N][b] = BattleOf(F, f[N], b)
    <2>1. turn[b] \in 1 .. N
      BY <1>1 DEF InTurn
    <2>2. turn[b] <= N
      BY <1>11, <2>1
    <2> QED
      BY <1>8, <1>11, <2>2
  <1>13. PICK res : res = f[N]
    OBVIOUS
  <1>14. res \in [Battle -> Outcome]
    BY <1>7, <1>11, <1>13 DEF A
  <1>15. \A b \in Battle : res[b] = BattleOf(F, res, b)
    BY <1>12, <1>13
  <1>16. IsResults(F, res)
    BY <1>14, <1>15 DEF IsResults
  <1>17. IsResults(F, ResultsOf(F))
    BY <1>16 DEF ResultsOf
  <1> QED
    BY <1>17, ResultsType

\* One round of the program is one of the reference, unless it is the last:
\* then it has the outcome of the reference.
LEMMA RoundOutcome ==
    ASSUME NEW F \in [Real -> Nat], NEW b \in Battle,
           NEW l \in Statuses({0}), NEW r \in Statuses({0}), l.hp > 0, r.hp > 0,
           NEW o, o = Rounds(F, b, l.id, r.id)[<<l.hp, r.hp>>]
    PROVE  /\ Ended(b, l, r) /\ LeftHp(b, l, r) > 0 =>
                  /\ o = Wins(F, l.id, LeftHp(b, l, r), r.id)
                  /\ RightHp(b, l, r) <= 0
           /\ Ended(b, l, r) /\ ~(LeftHp(b, l, r) > 0) =>
                  /\ o = Wins(F, r.id, RightHp(b, l, r), l.id)
                  /\ RightHp(b, l, r) > 0
           /\ ~Ended(b, l, r) =>
                  o = Rounds(F, b, l.id, r.id)[<<LeftHp(b, l, r), RightHp(b, l, r)>>]
  <1>1. PICK i \in Real, j \in Real, x \in Nat, y \in Nat :
            i = l.id /\ j = r.id /\ x = l.hp /\ y = r.hp
    BY DEF Statuses
  <1>2. PICK di \in Nat, dj \in Nat : /\ di = Blow(b, i) /\ dj = Blow(b, j)
                                      /\ di # 0 /\ dj # 0
    BY BlowSome
  <1>3. Damage(b, l) = di /\ Damage(b, r) = dj
    BY <1>1, <1>2 DEF Damage, Blow
  <1> DEFINE first == x < y \/ (x = y /\ i < j)
             lh == IF first THEN IF y - di > 0 THEN x - dj ELSE x ELSE x - dj
             rh == IF first THEN y - di ELSE IF x - dj > 0 THEN y - di ELSE y
  <1>4. LeftHp(b, l, r) = lh /\ RightHp(b, l, r) = rh /\ (Ended(b, l, r) <=> lh <= 0 \/ rh <= 0)
    BY <1>1, <1>3 DEF LeftHp, RightHp, Weaker, Hit, HitBack, Ended
  <1>5. o = RoundOf(F, b, i, j, Rounds(F, b, i, j), <<x, y>>)
    <2>1. <<x, y>> \in Nat \X Nat
      OBVIOUS
    <2>2. IsRounds(F, b, i, j, Rounds(F, b, i, j))
      BY RoundsSolved
    <2> QED
      BY <1>1, <2>1, <2>2 DEF IsRounds
  <1>6. o = IF first
            THEN IF y <= di THEN Wins(F, i, x, j)
                 ELSE IF x <= dj THEN Wins(F, j, y - di, i)
                 ELSE Rounds(F, b, i, j)[<<x - dj, y - di>>]
            ELSE IF x <= dj THEN Wins(F, j, y, i)
                 ELSE IF y <= di THEN Wins(F, i, x - dj, j)
                 ELSE Rounds(F, b, i, j)[<<x - dj, y - di>>]
    BY <1>2, <1>5 DEF RoundOf
  <1>7. x > 0 /\ y > 0
    BY <1>1
  <1>8. /\ (lh <= 0 \/ rh <= 0) /\ lh > 0 => o = Wins(F, i, lh, j) /\ rh <= 0
        /\ (lh <= 0 \/ rh <= 0) /\ ~(lh > 0) => o = Wins(F, j, rh, i) /\ rh > 0
        /\ ~(lh <= 0 \/ rh <= 0) => o = Rounds(F, b, i, j)[<<lh, rh>>]
    <2>1. CASE first
      <3>1. CASE y <= di
        BY <1>2, <1>6, <1>7, <2>1, <3>1
      <3>2. CASE ~(y <= di) /\ x <= dj
        BY <1>2, <1>6, <1>7, <2>1, <3>2
      <3>3. CASE ~(y <= di) /\ ~(x <= dj)
        BY <1>2, <1>6, <1>7, <2>1, <3>3
      <3> QED
        BY <3>1, <3>2, <3>3
    <2>2. CASE ~first
      <3>1. CASE x <= dj
        BY <1>2, <1>6, <1>7, <2>2, <3>1
      <3>2. CASE ~(x <= dj) /\ y <= di
        BY <1>2, <1>6, <1>7, <2>2, <3>2
      <3>3. CASE ~(y <= di) /\ ~(x <= dj)
        BY <1>2, <1>6, <1>7, <2>2, <3>3
      <3> QED
        BY <3>1, <3>2, <3>3
    <2> QED
      BY <2>1, <2>2
  <1> HIDE DEF lh, rh, first
  <1> QED
    BY <1>1, <1>4, <1>8

-----------------------------------------------------------------------------
(* The championship is on the way to the results of the reference.  The     *)
(* proof follows, for every process n, the last process on its way up that  *)
(* its status can come to now: top[n].  And it follows hp[m], the HP with    *)
(* which the player coming from m stands in the battle above m.             *)

\* The results, and who is to come up from n.
Result(b) == ResultsOf(full)[b]
Comes(n) == EntrantOf(full, ResultsOf(full), n)

\* A status of player i with HP x is on its way to a battle in progress, or
\* back from it, between n and its parent.
Going(n, i, x) ==
    \/ up[n] # <<>> /\ Head(up[n]).id = i /\ Head(up[n]).hp = x
    \/ /\ down[n] # <<>> /\ Head(down[n]).ended = 0
       /\ Head(down[n]).id = i /\ Head(down[n]).hp = x

\* Player i is being told that battle b is over and it has x HP left.
Told(n, i, x, b) ==
    /\ down[n] # <<>> /\ Head(down[n]).ended = 1
    /\ Head(down[n]).id = i /\ Head(down[n]).hp = x /\ Head(down[n]).battle = b

\* The battle above m is not decided.
Awaited(m) == m # Final /\ ~Fought(Parent(m))

\* A battle in which a real player can be beaten before the final, or the final.
FollowedUp(b) == b \in DOMAIN LoserAgent \cup {Final}

TopOK(top) ==
    /\ top \in [Node -> Node]
    /\ top[Final] = Final
    /\ \A n \in Node : Awaited(n) => top[n] = n
    /\ \A b \in Battle : Fought(b) => top[winner[b]] = top[b] /\ top[Loser(b)] = Loser(b)

\* What is on its way from n is what is to come from top[n].
IsOf(m, i, x, hp) == Awaited(m) /\ i = Comes(m).id /\ x = hp[m]
GoingOK(top, hp) ==
    \A n \in Node : \A i, x : Going(n, i, x) => IsOf(top[n], i, x, hp)

\* A winner is told so before anybody waits for it, a loser for its agent's sake.
IsNews(n, top, i, x, b) ==
    /\ b \in Battle
    /\ x > 0 => /\ b = top[n]
                /\ Result(b).best = [id |-> i, hp |-> (x + full[i]) \div 2]
                /\ b # Final => Awaited(b)
    /\ ~(x > 0) => Result(b).other = i
    /\ n \in Real \cup DOMAIN LoserAgent => FollowedUp(b)
ToldOK(top) ==
    \A n \in Node : \A i, x, b : Told(n, i, x, b) => IsNews(n, top, i, x, b)

\* The rounds to come have the outcome of the reference.
Due(b, x, y) ==
    Rounds(full, b, Comes(Left[b]).id, Comes(Right[b]).id)[<<x, y>>] = Result(b)
RoundsOK(hp) ==
    /\ hp \in [Node -> Nat]
    /\ \A b \in Battle : ~Fought(b) => Due(b, hp[Left[b]], hp[Right[b]])

\* Who has not come yet has not fought yet.
Present(m, top) == \E n \in Node : top[n] = m /\ \E i, x : Going(n, i, x)
FreshOK(top, hp) ==
    \A m \in Node : Awaited(m) => hp[m] = Comes(m).hp \/ Present(m, top)

LinesOK(top, hp) ==
    TopOK(top) /\ GoingOK(top, hp) /\ ToldOK(top) /\ RoundsOK(hp) /\ FreshOK(top, hp)

\* A process that has not sent a status yet.
Young(n) == pc[n] \in {"fight", "enter", "new", "made", "idle"}

FifoOK ==
    \A a \in Agent : \A k \in DOMAIN fifo[a] :
        fifo[a][k].id = Comes(a).id /\ fifo[a][k].hp = Comes(a).hp
LostOK ==
    \A p \in Real : pc[p] = "sleep" =>
        lostIn[p] \in DOMAIN LoserAgent /\ Result(lostIn[p]).other = p
PlainOK ==
    /\ \A b \in Battle : Fought(b) => won[b] = Result(b).best.id
    /\ \A b \in Battle : Fought(b) => \A n \in Child(b) : ~Young(n)
    /\ pc[Final] \notin {"up", "down"}
    /\ champion \subseteq {Result(Final).best.id}
    /\ FifoOK /\ LostOK

FollowsReference == PlainOK /\ \E top, hp : LinesOK(top, hp)

\* The reference does not change.
LEMMA SameReference ==
    ASSUME full' = full
    PROVE  /\ \A b : Result(b)' = Result(b)
           /\ \A n : Comes(n)' = Comes(n)
           /\ \A b, x, y : Due(b, x, y)' <=> Due(b, x, y)
  <1>1. /\ \A b : Result(b)' = Result(b)
        /\ \A n : Comes(n)' = Comes(n)
    BY DEF Result, Comes
  <1>2. \A b, x, y : Due(b, x, y)' <=> Due(b, x, y)
    BY <1>1 DEF Due
  <1> QED
    BY <1>1, <1>2

\* A process other than the final has a battle above it.
LEMMA ParentBattle ==
    \A n \in Node : n # Final => Parent(n) \in Battle /\ n \in Child(Parent(n))
  <1> SUFFICES ASSUME NEW n \in Node, n # Final
               PROVE  Parent(n) \in Battle /\ n \in Child(Parent(n))
    OBVIOUS
  <1>1. \E b \in Battle : n \in Child(b)
    BY TreeAssumption
  <1> QED
    BY <1>1 DEF Parent

\* It is the only one.
LEMMA ParentOfChild ==
    \A b \in Battle : \A n \in Child(b) : n \in Node /\ n # Final /\ Parent(n) = b
  <1> SUFFICES ASSUME NEW b \in Battle, NEW n \in Child(b)
               PROVE  n \in Node /\ n # Final /\ Parent(n) = b
    OBVIOUS
  <1>1. n \in Node
    BY Bracket
  <1>2. n # Final
    BY <1>1, TreeAssumption
  <1> QED
    BY <1>1, <1>2, Bracket, ParentBattle

\* A player that is on its way, or is told an end, is where its status is.
LEMMA GoingBetween ==
    ASSUME TypeInv, NEW n \in Node, NEW i, NEW x
    PROVE  /\ Going(n, i, x) => Between(n, i) /\ i \in Real /\ x \in Int
           /\ \A b : Told(n, i, x, b) => /\ Between(n, i) /\ i \in Real /\ x \in Int
                                         /\ b \in Battle
  <1>1. up[n] \in Seq(Statuses({0})) /\ down[n] \in Seq(Statuses({0, 1}))
    BY DEF TypeInv, TypeOK
  <1>2. /\ up[n] # <<>> => Head(up[n]) \in Statuses({0})
        /\ down[n] # <<>> => Head(down[n]) \in Statuses({0, 1})
    BY <1>1
  <1>3. PICK u, d : u = Head(up[n]) /\ d = Head(down[n])
    OBVIOUS
  <1>4. /\ up[n] # <<>> => u.id \in Real /\ u.hp \in Int
        /\ down[n] # <<>> => d.id \in Real /\ d.hp \in Int /\ d.battle \in Battle
    BY <1>2, <1>3 DEF Statuses
  <1> QED
    BY <1>3, <1>4 DEF Going, Told, Between

\* Pipes that a step leaves alone.
LEMMA UntouchedLine ==
    ASSUME NEW n, up'[n] = up[n], down'[n] = down[n]
    PROVE  /\ \A i, x : Going(n, i, x)' <=> Going(n, i, x)
           /\ \A i, x, b : Told(n, i, x, b)' <=> Told(n, i, x, b)
  BY DEF Going, Told

\* Pipes without a status.
LEMMA NothingLine ==
    ASSUME NEW n, up'[n] = <<>>, down'[n] = <<>>
    PROVE  (\A i, x : ~Going(n, i, x)') /\ (\A i, x, b : ~Told(n, i, x, b)')
  BY DEF Going, Told

\* Pipes with one that goes up.
LEMMA UpLine ==
    ASSUME NEW n, NEW s, up'[n] = <<s>>, down'[n] = <<>>
    PROVE  /\ \A i, x : Going(n, i, x)' <=> i = s.id /\ x = s.hp
           /\ \A i, x, b : ~Told(n, i, x, b)'
  <1> DEFINE one == <<s>>
  <1>1. one # <<>> /\ Head(one) = s
    BY Single
  <1> HIDE DEF one
  <1>2. up'[n] = one
    BY DEF one
  <1> QED
    BY <1>1, <1>2 DEF Going, Told

\* Pipes with one that comes down.
LEMMA DownLine ==
    ASSUME NEW n, NEW s, up'[n] = <<>>, down'[n] = <<s>>
    PROVE  /\ \A i, x : Going(n, i, x)' <=> s.ended = 0 /\ i = s.id /\ x = s.hp
           /\ \A i, x, b : Told(n, i, x, b)' <=>
                  s.ended = 1 /\ i = s.id /\ x = s.hp /\ b = s.battle
  <1> DEFINE one == <<s>>
  <1>1. one # <<>> /\ Head(one) = s
    BY Single
  <1> HIDE DEF one
  <1>2. down'[n] = one
    BY DEF one
  <1> QED
    BY <1>1, <1>2 DEF Going, Told

\* A step in which no battle is decided.
SameFights == \A b \in Battle : Fought(b)' <=> Fought(b)

\* Nothing is decided where no battle goes from or to its rounds.
LEMMA FightsStay ==
    ASSUME TypeInv, NEW k \in Node, NEW label, Goto(k, label),
           pc[k] # "fight", label # "fight"
    PROVE  SameFights
  <1>1. \A b \in Battle : b \in Node
    BY DEF Node
  <1>2. pc'[k] = label /\ \A n \in Node \ {k} : pc'[n] = pc[n]
    BY GotoType DEF TypeInv
  <1> QED
    BY <1>1, <1>2 DEF SameFights, Fought

\* What it may do to the statuses on their way.
GoingRight(top, hp) ==
    \A n \in Node : \A i, x : Going(n, i, x)' => IsOf(top[n], i, x, hp)
ToldRight(top) ==
    \A n \in Node : \A i, x, b : Told(n, i, x, b)' => IsNews(n, top, i, x, b)
StaysPresent(top) ==
    \A n \in Node : (\E i, x : Going(n, i, x)) =>
        \E k \in Node : top[k] = top[n] /\ \E i, x : Going(k, i, x)'

\* Without a decision, the statuses that are where they should be stay so.
LEMMA LinesStay ==
    ASSUME NEW top, NEW hp, LinesOK(top, hp), full' = full, winner' = winner,
           SameFights, GoingRight(top, hp), ToldRight(top), StaysPresent(top)
    PROVE  LinesOK(top, hp)'
  <1>1. /\ \A b : Result(b)' = Result(b)
        /\ \A n : Comes(n)' = Comes(n)
        /\ \A b, x, y : Due(b, x, y)' <=> Due(b, x, y)
    BY SameReference
  <1>2. \A n \in Node : Awaited(n)' <=> Awaited(n)
    BY ParentBattle DEF Awaited, SameFights
  <1>3. TopOK(top)'
    <2>1. \A b \in Battle : Loser(b)' = Loser(b)
      BY DEF Loser, Other
    <2> QED
      BY <1>2, <2>1 DEF TopOK, LinesOK, SameFights
  <1>4. top \in [Node -> Node]
    BY DEF LinesOK, TopOK
  <1>5. GoingOK(top, hp)'
    BY <1>1, <1>2, <1>4 DEF GoingRight, GoingOK, IsOf
  <1>6. ToldOK(top)'
    <2> SUFFICES ASSUME NEW n \in Node, NEW i, NEW x, NEW b, Told(n, i, x, b)'
                 PROVE  IsNews(n, top, i, x, b)'
      BY DEF ToldOK
    <2>1. IsNews(n, top, i, x, b)
      BY DEF ToldRight
    <2>2. b \in Battle /\ (Awaited(b)' <=> Awaited(b))
      BY <1>2, <2>1 DEF IsNews, Node
    <2> QED
      BY <1>1, <2>1, <2>2 DEF IsNews
  <1>7. RoundsOK(hp)'
    BY <1>1 DEF LinesOK, RoundsOK, SameFights
  <1>8. FreshOK(top, hp)'
    <2> SUFFICES ASSUME NEW m \in Node, Awaited(m), hp[m] # Comes(m).hp
                 PROVE  Present(m, top)'
      BY <1>1, <1>2 DEF FreshOK
    <2>1. PICK n \in Node : top[n] = m /\ \E i, x : Going(n, i, x)
      BY DEF LinesOK, FreshOK, Present
    <2>2. PICK k \in Node : top[k] = m /\ \E i, x : Going(k, i, x)'
      BY <2>1 DEF StaysPresent
    <2> QED
      BY <2>2 DEF Present
  <1> QED
    BY <1>3, <1>5, <1>6, <1>7, <1>8 DEF LinesOK

\* Pipes that a step leaves alone hold what they should.
LEMMA RestOfLines ==
    ASSUME NEW top, NEW hp, LinesOK(top, hp), NEW n \in Node,
           up'[n] = up[n], down'[n] = down[n]
    PROVE  /\ \A i, x : Going(n, i, x)' => IsOf(top[n], i, x, hp)
           /\ \A i, x, b : Told(n, i, x, b)' => IsNews(n, top, i, x, b)
           /\ \A i, x : Going(n, i, x) => Going(n, i, x)'
  BY UntouchedLine DEF LinesOK, GoingOK, ToldOK

\* A step that leaves all pipes alone.
LEMMA SilentLines ==
    ASSUME NEW top, NEW hp, LinesOK(top, hp), UNCHANGED <<pipes, full, winner>>, SameFights
    PROVE  LinesOK(top, hp)'
  <1>1. \A n \in Node : up'[n] = up[n] /\ down'[n] = down[n]
    BY DEF pipes
  <1>2. GoingRight(top, hp) /\ ToldRight(top)
    BY <1>1, RestOfLines DEF GoingRight, ToldRight
  <1>3. StaysPresent(top)
    BY <1>1, RestOfLines DEF StaysPresent
  <1> QED
    BY <1>2, <1>3, LinesStay

\* A status in an empty pipe.
LEMMA PutFirst ==
    ASSUME TypeInv, NEW n \in Node, up[n] = <<>>, NEW r, up' = Put(up, n, r)
    PROVE  up'[n] = <<r>>
  <1>1. Append(<<>>, r) = <<r>>
    OBVIOUS
  <1>2. up' = [up EXCEPT ![n] = Append(up[n], r)] /\ DOMAIN up = Node
    BY DEF Put, TypeInv, TypeOK
  <1> QED
    BY <1>1, <1>2

\* The pipes of a process with a status coming down to it, or going up.
LEMMA PipeContents ==
    ASSUME TournamentInv, NEW n \in Node
    PROVE  /\ down[n] # <<>> => up[n] = <<>> /\ Len(down[n]) <= 1
           /\ up[n] # <<>> => down[n] = <<>> /\ Len(up[n]) <= 1
           /\ up[n] # <<>> => Going(n, Head(up[n]).id, Head(up[n]).hp)
           /\ down[n] # <<>> /\ Head(down[n]).ended = 0 =>
                  Going(n, Head(down[n]).id, Head(down[n]).hp)
           /\ down[n] # <<>> /\ Head(down[n]).ended = 1 =>
                  Told(n, Head(down[n]).id, Head(down[n]).hp, Head(down[n]).battle)
           /\ Silent(n) => (\A i, x : ~Going(n, i, x)) /\ \A i, x, b : ~Told(n, i, x, b)
           /\ \A i, x, j, y, b : ~(Going(n, i, x) /\ Told(n, j, y, b))
           /\ up[n] # <<>> => Head(up[n]).hp > 0
           /\ up[n] # <<>> => Head(up[n]) \in Statuses({0})
           /\ down[n] # <<>> => Head(down[n]) \in Statuses({0, 1})
  <1>1. /\ up[n] = <<>> \/ down[n] = <<>>
        /\ Len(up[n]) <= 1 /\ Len(down[n]) <= 1
    BY DEF TournamentInv, FlowInv, OneStatus, OneAt
  <1>2. up[n] \in Seq(Statuses({0})) /\ down[n] \in Seq(Statuses({0, 1}))
    BY DEF TournamentInv, TypeInv, TypeOK
  <1>3. /\ up[n] # <<>> => Head(up[n]) \in Statuses({0})
        /\ down[n] # <<>> => Head(down[n]) \in Statuses({0, 1})
    BY <1>2
  <1>4. up[n] # <<>> => Head(up[n]).hp > 0
    BY DEF TournamentInv, Alive
  <1>5. \A i, x, j, y, b : ~(Going(n, i, x) /\ Told(n, j, y, b))
    BY <1>1 DEF Going, Told
  <1>6. Silent(n) => (\A i, x : ~Going(n, i, x)) /\ \A i, x, b : ~Told(n, i, x, b)
    BY DEF Silent, Going, Told
  <1> QED
    BY <1>1, <1>3, <1>4, <1>5, <1>6 DEF Going, Told

\* A player is on its way in one place only.
LEMMA GoingOnce ==
    ASSUME TournamentInv, NEW m \in Node, NEW n \in Node, NEW i, NEW x, NEW y,
           Going(m, i, x) \/ \E b : Told(m, i, x, b),
           Going(n, i, y) \/ \E b : Told(n, i, y, b)
    PROVE  m = n
  <1>1. TypeInv
    BY DEF TournamentInv
  <1>2. Between(m, i) /\ Between(n, i) /\ i \in Real
    BY <1>1, GoingBetween
  <1> QED
    BY <1>2 DEF TournamentInv, OnePlace

\* Somebody who comes for the first time finds its place as in the reference.
LEMMA Arrives ==
    ASSUME TypeInv, NEW top, NEW hp, LinesOK(top, hp), NEW m \in Node, Awaited(m),
           \A n \in Node : \A x : ~Going(n, Comes(m).id, x)
    PROVE  IsOf(m, Comes(m).id, Comes(m).hp, hp)
  <1>1. ~Present(m, top)
    <2> SUFFICES ASSUME NEW n \in Node, top[n] = m, NEW i, NEW x, Going(n, i, x)
                 PROVE  FALSE
      BY DEF Present
    <2>1. i = Comes(m).id
      BY DEF LinesOK, GoingOK, IsOf
    <2> QED
      BY <2>1
  <1> QED
    BY <1>1 DEF LinesOK, FreshOK, IsOf

\* A step that changes the pipes of a single process.
LEMMA LocalLines ==
    ASSUME NEW top, NEW hp, LinesOK(top, hp), UNCHANGED <<full, winner>>, SameFights,
           NEW k \in Node, \A n \in Node \ {k} : up'[n] = up[n] /\ down'[n] = down[n],
           \A i, x : Going(k, i, x)' => IsOf(top[k], i, x, hp),
           \A i, x, b : Told(k, i, x, b)' => IsNews(k, top, i, x, b),
           \A i, x : Going(k, i, x) => \E j, y : Going(k, j, y)'
    PROVE  LinesOK(top, hp)'
  <1>1. GoingRight(top, hp) /\ ToldRight(top)
    <2>1. ASSUME NEW n \in Node
          PROVE  /\ \A i, x : Going(n, i, x)' => IsOf(top[n], i, x, hp)
                 /\ \A i, x, b : Told(n, i, x, b)' => IsNews(n, top, i, x, b)
      <3>1. CASE n = k
        BY <3>1
      <3>2. CASE n # k
        BY <3>2, RestOfLines
      <3> QED
        BY <3>1, <3>2
    <2> QED
      BY <2>1 DEF GoingRight, ToldRight
  <1>2. StaysPresent(top)
    <2> SUFFICES ASSUME NEW n \in Node, NEW i, NEW x, Going(n, i, x)
                 PROVE  \E m \in Node : top[m] = top[n] /\ \E j, y : Going(m, j, y)'
      BY DEF StaysPresent
    <2>1. \E j, y : Going(n, j, y)'
      <3>1. CASE n = k
        BY <3>1
      <3>2. CASE n # k
        BY <3>2, RestOfLines
      <3> QED
        BY <3>1, <3>2
    <2> QED
      BY <2>1
  <1> QED
    BY <1>1, <1>2, LinesStay

\* Who comes from a battle is its winner, from a real player this player.
LEMMA ComesFrom ==
    /\ \A b \in Battle : Comes(b) = Result(b).best
    /\ \A p \in Real : Comes(p).id = p /\ Comes(p).hp = full[p]
    /\ \A c \in DOMAIN LoserAgent :
           /\ Comes(LoserAgent[c]).id = Result(c).other
           /\ Comes(LoserAgent[c]).hp = full[Result(c).other]
  <1>1. \A b \in Battle : Comes(b) = Result(b).best
    BY DEF Comes, Result, EntrantOf
  <1>2. \A p \in Real : p \notin Battle
    BY TreeAssumption DEF Player
  <1>3. \A p \in Real : Comes(p) = [id |-> p, hp |-> full[p]]
    BY <1>2 DEF Comes, EntrantOf
  <1>4. ASSUME NEW c \in DOMAIN LoserAgent
        PROVE  Comes(LoserAgent[c]) = [id |-> Result(c).other, hp |-> full[Result(c).other]]
    <2>1. PICK a : a = LoserAgent[c]
      OBVIOUS
    <2>2. a \in Agent /\ Source(a) = c
      BY <2>1, Sources
    <2>3. a \notin Battle /\ a \notin Real
      BY <2>2, TreeAssumption DEF Player
    <2>4. Comes(a) = [id |-> Result(c).other, hp |-> full[Result(c).other]]
      BY <2>2, <2>3 DEF Comes, EntrantOf, Result
    <2> QED
      BY <2>1, <2>4
  <1> QED
    BY <1>1, <1>3, <1>4

-----------------------------------------------------------------------------
(* The steps of the players, and the battles passing statuses on.           *)

\* The answers of a player: an unfinished battle goes on as it was, after one
\* that was won the player comes to the next as the reference has it.
LEMMA AnswerLines ==
    ASSUME TournamentInv, NEW top, NEW hp, LinesOK(top, hp),
           NEW p \in Player, Return(p) \/ Win(p)
    PROVE  LinesOK(top, hp)'
  <1>1. TypeInv
    BY DEF TournamentInv
  <1>2. /\ p \in Node /\ down[p] # <<>>
        /\ \A n \in Node \ {p} : up'[n] = up[n] /\ down'[n] = down[n]
        /\ Len(down[p]) <= 1 => down'[p] = <<>>
        /\ UNCHANGED <<pc, full, winner>>
    BY <1>1, AnswerPipes DEF result
  <1>3. SameFights
    BY <1>2 DEF SameFights, Fought
  <1>4. down'[p] = <<>> /\ up[p] = <<>> /\ Head(down[p]) \in Statuses({0, 1})
    BY <1>2, PipeContents
  <1>5. PICK m : m = Head(down[p])
    OBVIOUS
  <1>6. CASE Return(p)
    <2>1. up' = Put(up, p, m) /\ m.ended = 0
      BY <1>5, <1>6 DEF Return
    <2>2. up'[p] = <<m>>
      BY <1>1, <1>2, <1>4, <2>1, PutFirst
    <2>3. /\ \A i, x : Going(p, i, x)' <=> i = m.id /\ x = m.hp
          /\ \A i, x, b : ~Told(p, i, x, b)'
      BY <1>4, <2>2, UpLine
    <2>4. Going(p, m.id, m.hp)
      BY <1>2, <1>5, <2>1, PipeContents
    <2>5. IsOf(top[p], m.id, m.hp, hp)
      BY <1>2, <2>4 DEF LinesOK, GoingOK
    <2> QED
      BY <1>2, <1>3, <2>3, <2>5, LocalLines
  <1>7. CASE Win(p)
    <2> DEFINE s == Status(m.id, Healed(m), m.battle, FlagAfterWin)
    <2>1. up' = Put(up, p, s) /\ m.ended = 1 /\ m.hp > 0 /\ m.battle # Final
      BY <1>5, <1>7 DEF Win
    <2>2. s.id = m.id /\ s.hp = (m.hp + full[m.id]) \div 2
      BY DEF Status, Healed
    <2> HIDE DEF s
    <2>3. up'[p] = <<s>>
      BY <1>1, <1>2, <1>4, <2>1, PutFirst
    <2>4. /\ \A i, x : Going(p, i, x)' <=> i = s.id /\ x = s.hp
          /\ \A i, x, b : ~Told(p, i, x, b)'
      BY <1>4, <2>3, UpLine
    <2>5. Told(p, m.id, m.hp, m.battle)
      BY <1>2, <1>5, <2>1, PipeContents
    <2>6. IsNews(p, top, m.id, m.hp, m.battle)
      BY <1>2, <2>5 DEF LinesOK, ToldOK
    <2>7. PICK b \in Battle : /\ b = m.battle /\ b = top[p] /\ Awaited(b)
                              /\ Result(b).best = [id |-> s.id, hp |-> s.hp]
      BY <2>1, <2>2, <2>6 DEF IsNews
    <2>8. Comes(b).id = s.id /\ Comes(b).hp = s.hp
      BY <2>7, ComesFrom
    <2>9. ASSUME NEW n \in Node, NEW x, Going(n, s.id, x)
          PROVE  FALSE
      <3>1. n = p
        BY <1>2, <2>2, <2>5, <2>9, GoingOnce
      <3> QED
        BY <1>2, <2>5, <2>9, <3>1, PipeContents
    <2>10. b \in Node
      BY DEF Node
    <2>11. IsOf(b, s.id, s.hp, hp)
      BY <1>1, <2>7, <2>8, <2>9, <2>10, Arrives
    <2>12. \A i, x : ~Going(p, i, x)
      BY <1>2, <2>5, PipeContents
    <2> QED
      BY <1>2, <1>3, <2>4, <2>7, <2>11, <2>12, LocalLines
  <1> QED
    BY <1>6, <1>7

\* A player that leaves has been told the end.
LEMMA LeaveLines ==
    ASSUME TournamentInv, NEW top, NEW hp, LinesOK(top, hp),
           NEW p \in Player, Finish(p) \/ Lose(p)
    PROVE  LinesOK(top, hp)'
  <1>1. TypeInv
    BY DEF TournamentInv
  <1>2. /\ p \in Node /\ down[p] # <<>> /\ pc[p] = "play"
        /\ \A n \in Node \ {p} : up'[n] = up[n] /\ down'[n] = down[n]
        /\ Len(down[p]) <= 1 => down'[p] = <<>>
        /\ up' = up
        /\ \E label \in {"done", "sleep"} : Goto(p, label)
        /\ UNCHANGED <<full, winner>>
    BY <1>1, LeavePipes DEF result
  <1>3. SameFights
    BY <1>1, <1>2, FightsStay
  <1>4. down'[p] = <<>> /\ up'[p] = <<>>
    BY <1>2, PipeContents
  <1>5. Head(down[p]).ended = 1
    BY DEF Finish, Lose
  <1>6. \A i, x : ~Going(p, i, x)
    BY <1>2, <1>5, PipeContents
  <1>7. (\A i, x : ~Going(p, i, x)') /\ (\A i, x, b : ~Told(p, i, x, b)')
    BY <1>4, NothingLine
  <1> QED
    BY <1>2, <1>3, <1>6, <1>7, LocalLines

\* Somebody who begins does so where it is awaited, and as in the reference.
LEMMA BeginLines ==
    ASSUME TournamentInv, PlainOK, NEW top, NEW hp, LinesOK(top, hp),
           NEW k \in Node, Young(k), k # Final, Goto(k, "play"),
           pc[k] # "fight", UNCHANGED <<full, winner>>,
           \A n \in Node \ {k} : up'[n] = up[n], down' = down,
           NEW s, up[k] = <<>> => up'[k] = <<s>>,
           s.id = Comes(k).id, s.hp = Comes(k).hp,
           \A n \in Node : ~Between(n, s.id)
    PROVE  LinesOK(top, hp)'
  <1>1. TypeInv /\ OneStatus
    BY DEF TournamentInv, FlowInv
  <1>2. SameFights
    BY <1>1, FightsStay
  <1>3. Silent(k)
    BY <1>1 DEF OneStatus, Young
  <1>4. up'[k] = <<s>> /\ down'[k] = <<>>
    BY <1>3 DEF Silent
  <1>5. /\ \A i, x : Going(k, i, x)' <=> i = s.id /\ x = s.hp
        /\ \A i, x, b : ~Told(k, i, x, b)'
    BY <1>4, UpLine
  <1>6. Awaited(k)
    BY ParentBattle DEF PlainOK, Awaited
  <1>7. top[k] = k
    BY <1>6 DEF LinesOK, TopOK
  <1>8. \A n \in Node : \A x : ~Going(n, s.id, x)
    BY <1>1, GoingBetween
  <1>9. IsOf(k, s.id, s.hp, hp)
    BY <1>1, <1>6, <1>8, Arrives
  <1>10. \A i, x : ~Going(k, i, x)
    BY <1>3, PipeContents
  <1> QED
    BY <1>2, <1>5, <1>7, <1>9, <1>10, LocalLines

\* A real player enters with its HP from the file.
LEMMA EnterLines ==
    ASSUME TournamentInv, PlainOK, NEW top, NEW hp, LinesOK(top, hp),
           NEW p \in Player, Enter(p)
    PROVE  LinesOK(top, hp)'
  <1>1. TypeInv
    BY DEF TournamentInv
  <1> DEFINE s == Status(p, full[p], Parent(p), 0)
  <1>2. /\ p \in Node /\ p \in Real /\ pc[p] = "enter"
        /\ \A n \in Node \ {p} : up'[n] = up[n]
        /\ Goto(p, "play")
        /\ UNCHANGED <<down, full, winner>>
    BY <1>1, EnterPipes DEF result
  <1>3. up' = Put(up, p, s)
    BY DEF Enter
  <1>4. s.id = Comes(p).id /\ s.hp = Comes(p).hp /\ s.id = p
    BY <1>2, ComesFrom DEF Status
  <1> HIDE DEF s
  <1>5. up[p] = <<>> => up'[p] = <<s>>
    BY <1>1, <1>2, <1>3, PutFirst
  <1>6. \A n \in Node : ~Between(n, s.id)
    BY <1>2, <1>4 DEF TournamentInv, OnePlace
  <1>7. Young(p) /\ p # Final
    BY <1>2, TreeAssumption DEF Young, Player
  <1> QED
    BY <1>2, <1>4, <1>5, <1>6, <1>7, BeginLines

\* An agent comes with the status that was handed to it.
LEMMA StandInLines ==
    ASSUME TournamentInv, PlainOK, NEW top, NEW hp, LinesOK(top, hp),
           NEW a \in Player, StandIn(a)
    PROVE  LinesOK(top, hp)'
  <1>1. TypeInv
    BY DEF TournamentInv
  <1>2. /\ a \in Node /\ a \in Agent /\ pc[a] = "idle" /\ fifo[a] # <<>>
        /\ \A n \in Node \ {a} : up'[n] = up[n]
        /\ up[a] = <<>> => up'[a] = <<Head(fifo[a])>>
        /\ Goto(a, "play")
        /\ UNCHANGED <<down, full, winner>>
    BY <1>1, StandInPipes DEF result
  <1>3. PICK s : s = Head(fifo[a])
    OBVIOUS
  <1>4. fifo[a] \in Seq(Statuses({0}))
    BY <1>1, <1>2 DEF TypeInv, TypeOK
  <1>5. 1 \in DOMAIN fifo[a] /\ s = fifo[a][1] /\ s \in Statuses({0})
    BY <1>2, <1>3, <1>4
  <1>6. s.id = Comes(a).id /\ s.hp = Comes(a).hp
    BY <1>2, <1>5 DEF PlainOK, FifoOK
  <1>7. Handed(a, s.id) /\ s.id \in Real
    BY <1>5 DEF Handed, Statuses
  <1>8. \A n \in Node : ~Between(n, s.id)
    BY <1>2, <1>7 DEF TournamentInv, OnePlace
  <1>9. Young(a) /\ a # Final
    BY <1>2, TreeAssumption DEF Young, Player
  <1> QED
    BY <1>2, <1>3, <1>6, <1>8, <1>9, BeginLines

\* A step that moves a status between two processes of one line.
LEMMA MoveLines ==
    ASSUME NEW top, NEW hp, LinesOK(top, hp), UNCHANGED <<full, winner>>, SameFights,
           NEW j \in Node, NEW k \in Node, top[j] = top[k],
           \A n \in Node \ {j, k} : up'[n] = up[n] /\ down'[n] = down[n],
           up'[j] = <<>>, down'[j] = <<>>,
           \A i, x : Going(j, i, x) <=> Going(k, i, x)',
           \A i, x : ~Going(k, i, x),
           \A i, x, b : Told(k, i, x, b)' => IsNews(k, top, i, x, b)
    PROVE  LinesOK(top, hp)'
  <1>1. \A i, x, b : ~Going(j, i, x)' /\ ~Told(j, i, x, b)'
    BY NothingLine
  <1>2. ASSUME NEW n \in Node
        PROVE  /\ \A i, x : Going(n, i, x)' => IsOf(top[n], i, x, hp)
               /\ \A i, x, b : Told(n, i, x, b)' => IsNews(n, top, i, x, b)
    <2>1. CASE n = j
      BY <1>1, <2>1
    <2>2. CASE n = k /\ n # j
      BY <2>2 DEF LinesOK, GoingOK
    <2>3. CASE n \notin {j, k}
      BY <2>3, RestOfLines
    <2> QED
      BY <2>1, <2>2, <2>3
  <1>3. GoingRight(top, hp) /\ ToldRight(top)
    BY <1>2 DEF GoingRight, ToldRight
  <1>4. StaysPresent(top)
    <2> SUFFICES ASSUME NEW n \in Node, NEW i, NEW x, Going(n, i, x)
                 PROVE  \E m \in Node : top[m] = top[n] /\ \E h, y : Going(m, h, y)'
      BY DEF StaysPresent
    <2>1. CASE n = j
      BY <2>1
    <2>2. CASE n # j
      <3>1. n \notin {j, k}
        BY <2>2
      <3>2. Going(n, i, x)'
        BY <3>1, RestOfLines
      <3> QED
        BY <3>2
    <2> QED
      BY <2>1, <2>2
  <1> QED
    BY <1>3, <1>4, LinesStay

\* Passing mode, upwards.
LEMMA PassUpLines ==
    ASSUME TournamentInv, NEW top, NEW hp, LinesOK(top, hp), NEW b \in Battle, PassUp(b)
    PROVE  LinesOK(top, hp)'
  <1>1. TypeInv /\ OneStatus
    BY DEF TournamentInv, FlowInv
  <1>2. PICK w : w = winner[b]
    OBVIOUS
  <1>3. /\ w \in Node /\ up[w] # <<>> /\ pc[b] = "up"
        /\ \A n \in Node \ {w, b} : up'[n] = up[n]
        /\ w # b /\ Len(up[w]) <= 1 => up'[w] = <<>>
        /\ w # b /\ up[b] = <<>> => up'[b] = <<Head(up[w])>>
        /\ Goto(b, "down")
        /\ UNCHANGED <<down, full, winner>>
    BY <1>1, <1>2, PassUpPipes DEF result
  <1>4. b \in Node
    BY DEF Node
  <1>5. Silent(b) /\ w # b
    BY <1>1, <1>3, <1>4 DEF OneStatus, Silent
  <1>6. SameFights
    BY <1>1, <1>3, <1>4, FightsStay
  <1>7. top[w] = top[b]
    BY <1>2, <1>3 DEF LinesOK, TopOK, Fought
  <1>8. PICK s : s = Head(up[w])
    OBVIOUS
  <1>9. down[w] = <<>> /\ Len(up[w]) <= 1
    BY <1>3, PipeContents
  <1>10. up'[w] = <<>> /\ down'[w] = <<>> /\ up'[b] = <<s>> /\ down'[b] = <<>>
    BY <1>3, <1>5, <1>8, <1>9 DEF Silent
  <1>11. /\ \A i, x : Going(b, i, x)' <=> i = s.id /\ x = s.hp
         /\ \A i, x, c : ~Told(b, i, x, c)'
    BY <1>10, UpLine
  <1>12. \A i, x : Going(w, i, x) <=> i = s.id /\ x = s.hp
    BY <1>3, <1>8, <1>9 DEF Going
  <1>13. \A i, x : ~Going(b, i, x)
    BY <1>4, <1>5, PipeContents
  <1> QED
    BY <1>3, <1>4, <1>6, <1>7, <1>10, <1>11, <1>12, <1>13, MoveLines

\* Passing mode, downwards.
LEMMA PassDownLines ==
    ASSUME TournamentInv, PlainOK, NEW top, NEW hp, LinesOK(top, hp),
           NEW b \in Battle, PassDown(b)
    PROVE  LinesOK(top, hp)'
  <1>1. TypeInv /\ OneStatus /\ OneBelow
    BY DEF TournamentInv, FlowInv
  <1>2. PICK w : w = winner[b]
    OBVIOUS
  <1>3. /\ w \in Node /\ down[b] # <<>> /\ pc[b] = "down"
        /\ \A n \in Node \ {w, b} : down'[n] = down[n]
        /\ w # b /\ Len(down[b]) <= 1 => down'[b] = <<>>
        /\ w # b /\ down[w] = <<>> => down'[w] = <<Head(down[b])>>
        /\ \E label \in {"last", "up"} : Goto(b, label)
        /\ UNCHANGED <<up, full, winner>>
    BY <1>1, <1>2, PassDownPipes DEF result
  <1>4. b \in Node
    BY DEF Node
  <1>5. Silent(w) /\ w # b
    BY <1>1, <1>2, <1>3 DEF OneBelow, Silent
  <1>6. SameFights
    BY <1>1, <1>3, <1>4, FightsStay
  <1>7. top[w] = top[b] /\ w \in Child(b)
    BY <1>1, <1>2, <1>3 DEF LinesOK, TopOK, Fought, TypeInv, EndOrder
  <1>8. PICK s : s = Head(down[b])
    OBVIOUS
  <1>9. up[b] = <<>> /\ Len(down[b]) <= 1
    BY <1>3, <1>4, PipeContents
  <1>10. up'[b] = <<>> /\ down'[b] = <<>> /\ up'[w] = <<>> /\ down'[w] = <<s>>
    BY <1>3, <1>5, <1>8, <1>9 DEF Silent
  <1>11. /\ \A i, x : Going(w, i, x)' <=> s.ended = 0 /\ i = s.id /\ x = s.hp
         /\ \A i, x, c : Told(w, i, x, c)' <=>
                s.ended = 1 /\ i = s.id /\ x = s.hp /\ c = s.battle
    BY <1>10, DownLine
  <1>12. /\ \A i, x : Going(b, i, x) <=> s.ended = 0 /\ i = s.id /\ x = s.hp
         /\ \A i, x, c : Told(b, i, x, c) <=>
                s.ended = 1 /\ i = s.id /\ x = s.hp /\ c = s.battle
    BY <1>3, <1>8, <1>9 DEF Going, Told
  <1>13. \A i, x : ~Going(w, i, x)
    BY <1>3, <1>5, PipeContents
  <1>14. ASSUME NEW i, NEW x, NEW c, Told(w, i, x, c)'
         PROVE  IsNews(w, top, i, x, c)
    <2>1. IsNews(b, top, i, x, c)
      BY <1>4, <1>11, <1>12, <1>14 DEF LinesOK, ToldOK
    <2>2. w \in Real \cup DOMAIN LoserAgent => b \in DOMAIN LoserAgent
      <3>1. b # Final
        BY <1>3 DEF PlainOK
      <3> QED
        BY <1>7, <3>1, SeedingAssumption
    <2> QED
      BY <1>7, <2>1, <2>2 DEF IsNews
  <1> QED
    BY <1>3, <1>4, <1>6, <1>7, <1>10, <1>11, <1>12, <1>13, <1>14, MoveLines

\* The steps of the battles that concern no status.
LEMMA WaitLines ==
    ASSUME TournamentInv, NEW top, NEW hp, LinesOK(top, hp),
           NEW b \in Battle, Reap(b) \/ End(b)
    PROVE  LinesOK(top, hp)'
  <1>1. TypeInv
    BY DEF TournamentInv
  <1>2. b \in Node
    BY DEF Node
  <1>3. /\ pc[b] # "fight" /\ UNCHANGED <<pipes, full, winner>>
        /\ \E label \in {"last", "up", "done"} : Goto(b, label)
    BY DEF Reap, End, result
  <1>4. SameFights
    BY <1>1, <1>2, <1>3, FightsStay
  <1> QED
    BY <1>3, <1>4, SilentLines

\* And those of the players.
LEMMA PlayerLines ==
    ASSUME TournamentInv, PlainOK, NEW top, NEW hp, LinesOK(top, hp),
           NEW p \in Player, PlayerStep(p)
    PROVE  LinesOK(top, hp)'
  <1>1. TypeInv /\ p \in Node
    BY DEF TournamentInv, Node
  <1>2. CASE HandOver(p) \/ Depart(p) \/ MakeFifo(p) \/ OpenFifo(p)
    <2>1. /\ pc[p] # "fight" /\ UNCHANGED <<pipes, full, winner>>
          /\ \E label \in {"leave", "done", "made", "idle"} : Goto(p, label)
      BY <1>2 DEF HandOver, Depart, MakeFifo, OpenFifo, result
    <2>2. SameFights
      BY <1>1, <2>1, FightsStay
    <2> QED
      BY <2>1, <2>2, SilentLines
  <1> QED
    BY <1>2, AnswerLines, LeaveLines, EnterLines, StandInLines DEF PlayerStep

-----------------------------------------------------------------------------
(* The rounds of the battles.                                               *)

\* The status with which a battle answers s, when hp is left of it.
Answer(b, s, hp, over) == Status(s.id, hp, b, IF over THEN 1 ELSE s.ended)

\* What is left in the pipes of a child after a round: a status that goes on, or
\* the news that the battle is over.
StandsIn(n, i, y) ==
    /\ \A j, x : Going(n, j, x)' <=> j = i /\ x = y
    /\ \A j, x, c : ~Told(n, j, x, c)'
IsToldSo(n, i, y, b) ==
    /\ \A j, x : ~Going(n, j, x)'
    /\ \A j, x, c : Told(n, j, x, c)' <=> j = i /\ x = y /\ c = b

\* The answers of a round.
LEMMA FightAnswers ==
    ASSUME TournamentInv, NEW b \in Battle, Fight(b), NEW L, NEW R, NEW l, NEW r,
           L = Left[b], R = Right[b], l = Head(up[L]), r = Head(up[R])
    PROVE  /\ L \in Node /\ R \in Node /\ L # R /\ Child(b) = {L, R}
           /\ ~Fought(b)
           /\ Fought(b)' <=> Ended(b, l, r)
           /\ Going(L, l.id, l.hp) /\ Going(R, r.id, r.hp)
           /\ l \in Statuses({0}) /\ r \in Statuses({0}) /\ l.hp > 0 /\ r.hp > 0
           /\ \A n \in Node \ {L, R} : up'[n] = up[n] /\ down'[n] = down[n]
           /\ ~Ended(b, l, r) => /\ StandsIn(L, l.id, LeftHp(b, l, r))
                                 /\ StandsIn(R, r.id, RightHp(b, l, r))
           /\ Ended(b, l, r) => /\ IsToldSo(L, l.id, LeftHp(b, l, r), b)
                                /\ IsToldSo(R, r.id, RightHp(b, l, r), b)
  <1>1. TypeInv
    BY DEF TournamentInv
  <1>2. L \in Node /\ R \in Node /\ L # R /\ Child(b) = {L, R}
    BY Bracket DEF Child
  <1>3. /\ up[L] # <<>> /\ up[R] # <<>>
        /\ \A n \in Node \ {L, R} : up'[n] = up[n] /\ down'[n] = down[n]
        /\ Len(up[L]) <= 1 => up'[L] = <<>>
        /\ Len(up[R]) <= 1 => up'[R] = <<>>
    BY <1>1, <1>2, FightPipes
  <1>4. /\ down[L] = <<>> /\ down[R] = <<>> /\ Len(up[L]) <= 1 /\ Len(up[R]) <= 1
        /\ Going(L, l.id, l.hp) /\ Going(R, r.id, r.hp)
        /\ l \in Statuses({0}) /\ r \in Statuses({0}) /\ l.hp > 0 /\ r.hp > 0
    BY <1>2, <1>3, PipeContents
  <1> DEFINE dl == Answer(b, l, LeftHp(b, l, r), Ended(b, l, r))
             dr == Answer(b, r, RightHp(b, l, r), Ended(b, l, r))
  <1>5. down' = Put(Put(down, L, dl), R, dr)
    BY DEF Fight, Answer
  <1> HIDE DEF dl, dr
  <1>6. down'[L] = <<dl>> /\ down'[R] = <<dr>>
    <2>1. DOMAIN down = Node /\ Append(<<>>, dl) = <<dl>> /\ Append(<<>>, dr) = <<dr>>
      BY <1>1 DEF TypeInv, TypeOK
    <2>2. down' = [[down EXCEPT ![L] = Append(@, dl)] EXCEPT ![R] = Append(@, dr)]
      BY <1>5 DEF Put
    <2> QED
      BY <1>2, <1>4, <2>1, <2>2
  <1>7. /\ ~Fought(b)
        /\ Fought(b)' <=> Ended(b, l, r)
    <2>1. pc[b] = "fight" /\ b \in Node
      BY DEF Fight, Node
    <2>2. CASE Ended(b, l, r)
      <3>1. Goto(b, "reap")
        BY <2>2 DEF Fight
      <3>2. pc'[b] = "reap"
        BY <1>1, <2>1, <3>1, GotoType DEF TypeInv
      <3> QED
        BY <2>1, <2>2, <3>2 DEF Fought
    <2>3. CASE ~Ended(b, l, r)
      <3>1. pc' = pc
        BY <2>3 DEF Fight
      <3> QED
        BY <2>1, <2>3, <3>1 DEF Fought
    <2> QED
      BY <2>2, <2>3
  <1>8. /\ dl.id = l.id /\ dl.hp = LeftHp(b, l, r) /\ dl.battle = b
        /\ dl.ended = IF Ended(b, l, r) THEN 1 ELSE 0
        /\ dr.id = r.id /\ dr.hp = RightHp(b, l, r) /\ dr.battle = b
        /\ dr.ended = IF Ended(b, l, r) THEN 1 ELSE 0
    BY <1>4 DEF dl, dr, Answer, Status, Statuses
  <1>9. /\ ~Ended(b, l, r) => StandsIn(L, l.id, LeftHp(b, l, r))
        /\ Ended(b, l, r) => IsToldSo(L, l.id, LeftHp(b, l, r), b)
    <2>1. up'[L] = <<>> /\ down'[L] = <<dl>>
      BY <1>3, <1>4, <1>6
    <2>2. /\ \A i, x : Going(L, i, x)' <=> dl.ended = 0 /\ i = dl.id /\ x = dl.hp
          /\ \A i, x, c : Told(L, i, x, c)' <=>
                 dl.ended = 1 /\ i = dl.id /\ x = dl.hp /\ c = dl.battle
      BY <2>1, DownLine
    <2> QED
      BY <1>8, <2>2 DEF StandsIn, IsToldSo
  <1>10. /\ ~Ended(b, l, r) => StandsIn(R, r.id, RightHp(b, l, r))
         /\ Ended(b, l, r) => IsToldSo(R, r.id, RightHp(b, l, r), b)
    <2>1. up'[R] = <<>> /\ down'[R] = <<dr>>
      BY <1>3, <1>4, <1>6
    <2>2. /\ \A i, x : Going(R, i, x)' <=> dr.ended = 0 /\ i = dr.id /\ x = dr.hp
          /\ \A i, x, c : Told(R, i, x, c)' <=>
                 dr.ended = 1 /\ i = dr.id /\ x = dr.hp /\ c = dr.battle
      BY <2>1, DownLine
    <2> QED
      BY <1>8, <2>2 DEF StandsIn, IsToldSo
  <1>11. ~Ended(b, l, r) => /\ StandsIn(L, l.id, LeftHp(b, l, r))
                            /\ StandsIn(R, r.id, RightHp(b, l, r))
    BY <1>9, <1>10
  <1>12. Ended(b, l, r) => /\ IsToldSo(L, l.id, LeftHp(b, l, r), b)
                           /\ IsToldSo(R, r.id, RightHp(b, l, r), b)
    BY <1>9, <1>10
  <1> QED
    BY <1>2, <1>3, <1>4, <1>7, <1>11, <1>12

\* Nobody else is on the way to n, nor has just won there.
Alone(n, top) ==
    \A k \in Node \ {n} : \A i, x :
        /\ Going(k, i, x) => top[k] # n
        /\ \A c : Told(k, i, x, c) /\ x > 0 => top[k] # n

\* The players of a round stand in it as in the reference, and nowhere else.
LEMMA FightPlayers ==
    ASSUME TournamentInv, NEW top, NEW hp, LinesOK(top, hp), NEW b \in Battle, ~Fought(b),
           NEW n \in Child(b), NEW s, Going(n, s.id, s.hp)
    PROVE  /\ top[n] = n /\ Awaited(n) /\ s.id = Comes(n).id /\ s.hp = hp[n]
           /\ Alone(n, top)
  <1>1. n \in Node /\ Awaited(n)
    BY ParentOfChild DEF Awaited
  <1>2. top[n] = n /\ IsOf(n, s.id, s.hp, hp)
    BY <1>1 DEF LinesOK, TopOK, GoingOK
  <1>3. ASSUME NEW k \in Node \ {n}, NEW i, NEW x, Going(k, i, x), top[k] = n
        PROVE  FALSE
    <2>1. i = s.id
      BY <1>2, <1>3 DEF LinesOK, GoingOK, IsOf
    <2> QED
      BY <1>1, <1>3, <2>1, GoingOnce
  <1>4. ASSUME NEW k \in Node \ {n}, NEW i, NEW x, NEW c, Told(k, i, x, c), x > 0, top[k] = n
        PROVE  FALSE
    <2> DEFINE z == (x + full[i]) \div 2
    <2>3. IsNews(k, top, i, x, c)
      BY <1>4 DEF LinesOK, ToldOK
    <2>4. c \in Battle /\ c = n /\ Result(c).best = [id |-> i, hp |-> z]
      BY <1>4, <2>3 DEF IsNews
    <2> HIDE DEF z
    <2>1. c \in Battle /\ c = n /\ Result(c).best.id = i
      BY <2>4
    <2>2. i = s.id
      BY <1>2, <2>1, ComesFrom DEF IsOf
    <2> QED
      BY <1>1, <1>4, <2>2, GoingOnce
  <1> QED
    BY <1>1, <1>2, <1>3, <1>4 DEF IsOf, Alone

\* The outcome of a round, among the players and HP of the reference.
LEMMA FightOutcome ==
    ASSUME TournamentInv, NEW top, NEW hp, LinesOK(top, hp), NEW b \in Battle, ~Fought(b),
           NEW l \in Statuses({0}), NEW r \in Statuses({0}), l.hp > 0, r.hp > 0,
           l.id = Comes(Left[b]).id, r.id = Comes(Right[b]).id,
           l.hp = hp[Left[b]], r.hp = hp[Right[b]]
    PROVE  /\ Ended(b, l, r) /\ LeftHp(b, l, r) > 0 =>
                  /\ Result(b) = Wins(full, l.id, LeftHp(b, l, r), r.id)
                  /\ RightHp(b, l, r) <= 0
           /\ Ended(b, l, r) /\ ~(LeftHp(b, l, r) > 0) =>
                  /\ Result(b) = Wins(full, r.id, RightHp(b, l, r), l.id)
                  /\ RightHp(b, l, r) > 0
           /\ ~Ended(b, l, r) => /\ Due(b, LeftHp(b, l, r), RightHp(b, l, r))
                                 /\ LeftHp(b, l, r) \in Nat /\ RightHp(b, l, r) \in Nat
  <1>1. full \in [Real -> Nat]
    <2>1. full \in [Real -> FullHp] /\ FullHp \subseteq Nat
      BY Worth DEF TournamentInv, TypeInv, TypeOK
    <2> QED
      BY <2>1
  <1>2. Result(b) = Rounds(full, b, l.id, r.id)[<<l.hp, r.hp>>]
    BY DEF LinesOK, RoundsOK, Due
  <1>3. PICK o : o = Result(b)
    OBVIOUS
  <1>4. /\ Ended(b, l, r) /\ LeftHp(b, l, r) > 0 =>
               /\ o = Wins(full, l.id, LeftHp(b, l, r), r.id)
               /\ RightHp(b, l, r) <= 0
        /\ Ended(b, l, r) /\ ~(LeftHp(b, l, r) > 0) =>
               /\ o = Wins(full, r.id, RightHp(b, l, r), l.id)
               /\ RightHp(b, l, r) > 0
        /\ ~Ended(b, l, r) =>
               o = Rounds(full, b, l.id, r.id)[<<LeftHp(b, l, r), RightHp(b, l, r)>>]
    <2>1. o = Rounds(full, b, l.id, r.id)[<<l.hp, r.hp>>]
      BY <1>2, <1>3
    <2> QED
      BY <1>1, <2>1, RoundOutcome
  <1>5. ~Ended(b, l, r) => /\ LeftHp(b, l, r) \in Nat /\ RightHp(b, l, r) \in Nat
    <2>1. LeftHp(b, l, r) \in Int /\ RightHp(b, l, r) \in Int
      BY RoundHp
    <2>2. ~Ended(b, l, r) => LeftHp(b, l, r) > 0 /\ RightHp(b, l, r) > 0
      BY RoundHp
    <2> QED
      BY <2>1, <2>2
  <1> QED
    BY <1>3, <1>4, <1>5 DEF Due

\* A round after which the battle goes on: both players stand in it with less.
LEMMA GoesOnLines ==
    ASSUME TournamentInv, PlainOK, NEW top, NEW hp, LinesOK(top, hp),
           NEW b \in Battle, Fight(b), NEW L, NEW R, NEW l, NEW r,
           L = Left[b], R = Right[b], l = Head(up[L]), r = Head(up[R]),
           ~Ended(b, l, r), NEW h,
           h = [n \in Node |-> IF n = L THEN LeftHp(b, l, r)
                               ELSE IF n = R THEN RightHp(b, l, r) ELSE hp[n]]
    PROVE  LinesOK(top, h)'
  <1>1. L \in Node /\ R \in Node /\ L # R /\ Child(b) = {L, R}
    BY FightAnswers
  <1>1a. ~Fought(b)
    BY FightAnswers
  <1>1b. Going(L, l.id, l.hp) /\ Going(R, r.id, r.hp)
    BY FightAnswers
  <1>1c. l \in Statuses({0}) /\ r \in Statuses({0}) /\ l.hp > 0 /\ r.hp > 0
    BY FightAnswers
  <1>1d. \A n \in Node \ {L, R} : up'[n] = up[n] /\ down'[n] = down[n]
    BY FightAnswers
  <1>3. UNCHANGED <<pc, winner, full>>
    BY DEF Fight, result
  <1>4. SameFights
    BY <1>3 DEF SameFights, Fought
  <1>5. /\ top[L] = L /\ Awaited(L) /\ l.id = Comes(L).id /\ l.hp = hp[L]
        /\ Alone(L, top)
    <2>1. L \in Child(b)
      BY <1>1
    <2> QED
      BY <1>1a, <1>1b, <2>1, FightPlayers
  <1>6. /\ top[R] = R /\ Awaited(R) /\ r.id = Comes(R).id /\ r.hp = hp[R]
        /\ Alone(R, top)
    <2>1. R \in Child(b)
      BY <1>1
    <2> QED
      BY <1>1a, <1>1b, <2>1, FightPlayers
  <1>7. Due(b, LeftHp(b, l, r), RightHp(b, l, r))
        /\ LeftHp(b, l, r) \in Nat /\ RightHp(b, l, r) \in Nat
    <2>1. /\ l.id = Comes(Left[b]).id /\ l.hp = hp[Left[b]]
          /\ r.id = Comes(Right[b]).id /\ r.hp = hp[Right[b]]
      BY <1>5, <1>6
    <2> QED
      BY <1>1a, <1>1c, <2>1, FightOutcome
  <1>8. /\ h[L] = LeftHp(b, l, r) /\ h[R] = RightHp(b, l, r)
        /\ \A n \in Node \ {L, R} : h[n] = hp[n]
        /\ h \in [Node -> Nat]
    <2>1. hp \in [Node -> Nat]
      BY DEF LinesOK, RoundsOK
    <2> QED
      BY <1>1, <1>7, <2>1
  <1>9. /\ \A c : Result(c)' = Result(c)
        /\ \A n : Comes(n)' = Comes(n)
        /\ \A c, x, y : Due(c, x, y)' <=> Due(c, x, y)
    BY <1>3, SameReference
  <1>10. \A n \in Node : Awaited(n)' <=> Awaited(n)
    BY <1>4, ParentBattle DEF Awaited, SameFights
  <1>11. TopOK(top)'
    <2>1. \A c \in Battle : Loser(c)' = Loser(c)
      BY <1>3 DEF Loser, Other
    <2> QED
      BY <1>3, <1>4, <1>10, <2>1 DEF TopOK, LinesOK, SameFights
  <1>12. top \in [Node -> Node]
    BY DEF LinesOK, TopOK
  <1>13. /\ \A i, x : Going(L, i, x)' <=> i = l.id /\ x = h[L]
         /\ \A i, x, c : ~Told(L, i, x, c)'
    <2>1. StandsIn(L, l.id, LeftHp(b, l, r))
      BY FightAnswers
    <2> QED
      BY <1>8, <2>1 DEF StandsIn
  <1>14. /\ \A i, x : Going(R, i, x)' <=> i = r.id /\ x = h[R]
         /\ \A i, x, c : ~Told(R, i, x, c)'
    <2>1. StandsIn(R, r.id, RightHp(b, l, r))
      BY FightAnswers
    <2> QED
      BY <1>8, <2>1 DEF StandsIn
  <1>15. ASSUME NEW n \in Node \ {L, R}
         PROVE  /\ \A i, x : Going(n, i, x)' <=> Going(n, i, x)
                /\ \A i, x, c : Told(n, i, x, c)' <=> Told(n, i, x, c)
    BY <1>1d, UntouchedLine
  <1>16. GoingOK(top, h)'
    <2> SUFFICES ASSUME NEW n \in Node, NEW i, NEW x, Going(n, i, x)'
                 PROVE  IsOf(top[n], i, x, h)'
      BY DEF GoingOK
    <2>1. CASE n = L
      BY <1>1, <1>5, <1>9, <1>10, <1>13, <2>1 DEF IsOf
    <2>2. CASE n = R
      BY <1>1, <1>6, <1>9, <1>10, <1>14, <2>2 DEF IsOf
    <2>3. CASE n \notin {L, R}
      <3>1. Going(n, i, x)
        BY <1>15, <2>3
      <3>2. IsOf(top[n], i, x, hp) /\ top[n] \in Node \ {L, R}
        BY <1>5, <1>6, <1>12, <2>3, <3>1 DEF LinesOK, GoingOK, Alone
      <3> QED
        BY <1>8, <1>9, <1>10, <3>2 DEF IsOf
    <2> QED
      BY <2>1, <2>2, <2>3
  <1>17. ToldOK(top)'
    <2> SUFFICES ASSUME NEW n \in Node, NEW i, NEW x, NEW c, Told(n, i, x, c)'
                 PROVE  IsNews(n, top, i, x, c)'
      BY DEF ToldOK
    <2>1. IsNews(n, top, i, x, c)
      BY <1>13, <1>14, <1>15 DEF LinesOK, ToldOK
    <2>2. c \in Battle => (Awaited(c)' <=> Awaited(c))
      BY <1>10 DEF Node
    <2> QED
      BY <1>3, <1>9, <2>1, <2>2 DEF IsNews, FollowedUp
  <1>18. RoundsOK(h)'
    <2> SUFFICES ASSUME NEW c \in Battle, ~Fought(c)
                 PROVE  Due(c, h[Left[c]], h[Right[c]])
      BY <1>4, <1>8, <1>9 DEF RoundsOK, SameFights
    <2>1. CASE c = b
      BY <1>7, <1>8, <2>1
    <2>2. CASE c # b
      <3>1. Left[c] \in Node \ {L, R} /\ Right[c] \in Node \ {L, R}
        BY <1>1, <2>2, Bracket DEF Child
      <3> QED
        BY <1>8, <3>1 DEF LinesOK, RoundsOK
    <2> QED
      BY <2>1, <2>2
  <1>19. FreshOK(top, h)'
    <2> SUFFICES ASSUME NEW m \in Node, Awaited(m)
                 PROVE  h[m] = Comes(m).hp \/ Present(m, top)'
      BY <1>9, <1>10 DEF FreshOK
    <2>1. CASE m = L
      <3>1. Going(L, l.id, h[L])'
        BY <1>13
      <3> QED
        BY <1>1, <1>5, <2>1, <3>1 DEF Present
    <2>2. CASE m = R
      <3>1. Going(R, r.id, h[R])'
        BY <1>14
      <3> QED
        BY <1>1, <1>6, <2>2, <3>1 DEF Present
    <2>3. CASE m \notin {L, R} /\ Present(m, top)
      <3>1. PICK n \in Node : top[n] = m /\ \E i, x : Going(n, i, x)
        BY <2>3 DEF Present
      <3>2. n \in Node \ {L, R}
        BY <1>5, <1>6, <2>3, <3>1 DEF Alone
      <3>3. \E i, x : Going(n, i, x)'
        BY <1>15, <3>1, <3>2
      <3> QED
        BY <3>1, <3>3 DEF Present
    <2>4. CASE m \notin {L, R} /\ ~Present(m, top)
      BY <1>8, <2>4 DEF LinesOK, FreshOK
    <2> QED
      BY <2>1, <2>2, <2>3, <2>4
  <1> QED
    BY <1>11, <1>16, <1>17, <1>18, <1>19 DEF LinesOK

\* Who won, with what, and who lost.
LEMMA WinsFields ==
    \A F, i, x, j : /\ Wins(F, i, x, j).best = [id |-> i, hp |-> (x + F[i]) \div 2]
                    /\ Wins(F, i, x, j).other = j
                    /\ Wins(F, i, x, j).best.id = i
  BY DEF Wins

\* What a player is told after its last round in b, against j.
LEMMA LastNews ==
    ASSUME NEW n, NEW t, NEW i, NEW x, NEW j, NEW y, NEW b \in Battle, full' = full,
           x > 0 => b = t[n], x > 0 => Result(b) = Wins(full, i, x, j),
           ~(x > 0) => Result(b) = Wins(full, j, y, i),
           b # Final => Awaited(b)',
           n \in Real \cup DOMAIN LoserAgent => FollowedUp(b)
    PROVE  IsNews(n, t, i, x, b)'
  <1>1. Result(b)' = Result(b)
    BY SameReference
  <1>2. x > 0 => Result(b).best = [id |-> i, hp |-> (x + full[i]) \div 2]
    BY WinsFields
  <1>3. ~(x > 0) => Result(b).other = i
    BY WinsFields
  <1> QED
    BY <1>1, <1>2, <1>3 DEF IsNews, FollowedUp

\* A round that ends the battle: what comes from the winner's side is now on its
\* way to where the battle's own status goes, and both players are told.
LEMMA OverLines ==
    ASSUME TournamentInv, PlainOK, NEW top, NEW hp, LinesOK(top, hp),
           NEW b \in Battle, Fight(b), NEW L, NEW R, NEW l, NEW r,
           L = Left[b], R = Right[b], l = Head(up[L]), r = Head(up[R]),
           Ended(b, l, r), NEW w, w = (IF LeftHp(b, l, r) > 0 THEN L ELSE R),
           NEW t, t = [n \in Node |-> IF top[n] = w THEN b ELSE top[n]]
    PROVE  LinesOK(t, hp)'
  <1>1. L \in Node /\ R \in Node /\ L # R /\ Child(b) = {L, R}
    BY FightAnswers
  <1>1a. ~Fought(b) /\ Fought(b)'
    BY FightAnswers
  <1>1b. Going(L, l.id, l.hp) /\ Going(R, r.id, r.hp)
    BY FightAnswers
  <1>1c. l \in Statuses({0}) /\ r \in Statuses({0}) /\ l.hp > 0 /\ r.hp > 0
    BY FightAnswers
  <1>1d. \A n \in Node \ {L, R} : up'[n] = up[n] /\ down'[n] = down[n]
    BY FightAnswers
  <1>1e. IsToldSo(L, l.id, LeftHp(b, l, r), b) /\ IsToldSo(R, r.id, RightHp(b, l, r), b)
    BY FightAnswers
  <1>2. /\ winner' = [winner EXCEPT ![b] = w] /\ Goto(b, "reap") /\ full' = full
    BY DEF Fight
  <1>3. TypeInv /\ b \in Node
    BY DEF TournamentInv, Node
  <1>4. \A c \in Battle \ {b} : winner'[c] = winner[c] /\ (Fought(c)' <=> Fought(c))
    <2>1. \A n \in Node \ {b} : pc'[n] = pc[n]
      BY <1>2, <1>3, GotoType DEF TypeInv
    <2> QED
      BY <1>2, <1>3, <2>1 DEF Fought, Node, TypeInv, TypeOK
  <1>5. winner'[b] = w /\ w \in {L, R}
    BY <1>2, <1>3 DEF TypeInv, TypeOK
  <1>6. /\ top[L] = L /\ Awaited(L) /\ l.id = Comes(L).id /\ l.hp = hp[L]
        /\ Alone(L, top)
    <2>1. L \in Child(b)
      BY <1>1
    <2> QED
      BY <1>1a, <1>1b, <2>1, FightPlayers
  <1>7. /\ top[R] = R /\ Awaited(R) /\ r.id = Comes(R).id /\ r.hp = hp[R]
        /\ Alone(R, top)
    <2>1. R \in Child(b)
      BY <1>1
    <2> QED
      BY <1>1a, <1>1b, <2>1, FightPlayers
  <1>8. /\ LeftHp(b, l, r) > 0 => /\ Result(b) = Wins(full, l.id, LeftHp(b, l, r), r.id)
                                  /\ ~(RightHp(b, l, r) > 0)
        /\ ~(LeftHp(b, l, r) > 0) => /\ Result(b) = Wins(full, r.id, RightHp(b, l, r), l.id)
                                     /\ RightHp(b, l, r) > 0
    <2>1. RightHp(b, l, r) \in Int
      BY <1>1c, RoundHp
    <2>2. /\ l.id = Comes(Left[b]).id /\ l.hp = hp[Left[b]]
          /\ r.id = Comes(Right[b]).id /\ r.hp = hp[Right[b]]
      BY <1>6, <1>7
    <2>3. LeftHp(b, l, r) > 0 => /\ Result(b) = Wins(full, l.id, LeftHp(b, l, r), r.id)
                                 /\ RightHp(b, l, r) <= 0
      BY <1>1a, <1>1c, <2>2, FightOutcome
    <2>4. ~(LeftHp(b, l, r) > 0) => /\ Result(b) = Wins(full, r.id, RightHp(b, l, r), l.id)
                                    /\ RightHp(b, l, r) > 0
      BY <1>1a, <1>1c, <2>2, FightOutcome
    <2> QED
      BY <2>1, <2>3, <2>4
  <1>9. /\ \A c : Result(c)' = Result(c)
        /\ \A n : Comes(n)' = Comes(n)
        /\ \A c, x, y : Due(c, x, y)' <=> Due(c, x, y)
    BY <1>2, SameReference
  <1>10. top \in [Node -> Node] /\ t \in [Node -> Node]
         /\ \A n \in Node : t[n] = IF top[n] = w THEN b ELSE top[n]
    BY <1>3 DEF LinesOK, TopOK
  <1>11. b # Final => Awaited(b) /\ ~Fought(Parent(b))
    <2>1. SUFFICES ASSUME b # Final PROVE ~Fought(Parent(b))
      BY DEF Awaited
    <2>2. Parent(b) \in Battle /\ b \in Child(Parent(b))
      BY <1>3, <2>1, ParentBattle
    <2>3. Young(b)
      BY <1>1a DEF Fought, Young
    <2> QED
      BY <2>2, <2>3 DEF PlainOK
  <1>12. top[b] = b
    BY <1>3, <1>11 DEF LinesOK, TopOK
  <1>13. \A n \in Node : Awaited(n)' <=> Awaited(n) /\ n \notin {L, R}
    <2> SUFFICES ASSUME NEW n \in Node, n # Final
                 PROVE  Fought(Parent(n))' <=> Fought(Parent(n)) \/ n \in {L, R}
      BY <1>6, <1>7 DEF Awaited
    <2>1. Parent(n) \in Battle /\ n \in Child(Parent(n))
      BY ParentBattle
    <2>2. Parent(n) = b <=> n \in {L, R}
      BY <1>1, <2>1, ParentOfChild
    <2> QED
      BY <1>1a, <1>4, <2>1, <2>2
  <1>14. b \notin {L, R}
    <2>1. Silent(b)
      BY <1>1a, <1>3 DEF TournamentInv, FlowInv, OneStatus, Fought
    <2>2. \A i, x : ~Going(b, i, x)
      BY <1>3, <2>1, PipeContents
    <2> QED
      BY <1>1b, <2>2
  <1>15. b # Final => Awaited(b)'
    BY <1>3, <1>11, <1>13, <1>14
  <1>16. \A n \in Node \ {L, R} : /\ \A i, x : Going(n, i, x)' <=> Going(n, i, x)
                                  /\ \A i, x, c : Told(n, i, x, c)' <=> Told(n, i, x, c)
    BY <1>1d, UntouchedLine
  <1>17. TopOK(t)'
    <2>1. t[Final] = Final
      BY <1>5, <1>1, <1>10, ParentOfChild, TreeAssumption DEF LinesOK, TopOK, Node
    <2>2. ASSUME NEW n \in Node, Awaited(n)'
          PROVE  t[n] = n
      BY <1>5, <1>10, <1>13, <2>2 DEF LinesOK, TopOK
    <2>3. ASSUME NEW c \in Battle, Fought(c)'
          PROVE  t[winner[c]'] = t[c] /\ t[Loser(c)'] = Loser(c)'
      <3>1. CASE c = b
        <4>1. winner[c]' = w /\ Loser(c)' = Other(b, w)
          BY <1>5, <3>1 DEF Loser
        <4>2. Other(b, w) \in {L, R} /\ Other(b, w) # w
          BY <1>1, <1>5, Bracket
        <4> QED
          <5>1. t[w] = b /\ t[b] = b
            BY <1>1, <1>3, <1>5, <1>6, <1>7, <1>10, <1>12
          <5>2. t[Other(b, w)] = Other(b, w)
            BY <1>1, <1>6, <1>7, <1>10, <4>2
          <5> QED
            BY <3>1, <4>1, <5>1, <5>2
      <3>2. CASE c # b
        <4>1. winner[c]' = winner[c] /\ Loser(c)' = Loser(c) /\ Fought(c)
          BY <1>4, <2>3, <3>2 DEF Loser, Other
        <4>2. winner[c] \in Child(c) /\ Loser(c) \in Child(c)
          BY <1>3, <4>1, Bracket DEF TypeInv, EndOrder, Loser
        <4>3. Loser(c) # w /\ winner[c] \in Node /\ Loser(c) \in Node /\ c \in Node
          BY <1>1, <1>5, <3>2, <4>2, Bracket DEF Node
        <4>4. top[winner[c]] = top[c] /\ top[Loser(c)] = Loser(c)
          BY <4>1 DEF LinesOK, TopOK
        <4> QED
          BY <1>10, <4>1, <4>3, <4>4
      <3> QED
        BY <3>1, <3>2
    <2> QED
      BY <1>10, <2>1, <2>2, <2>3 DEF TopOK
  <1>18. GoingOK(t, hp)'
    <2> SUFFICES ASSUME NEW n \in Node, NEW i, NEW x, Going(n, i, x)'
                 PROVE  IsOf(t[n], i, x, hp)'
      BY DEF GoingOK
    <2>1. n \notin {L, R} /\ Going(n, i, x)
      BY <1>1e, <1>16 DEF IsToldSo
    <2>2. top[n] \in Node \ {L, R} /\ IsOf(top[n], i, x, hp)
      BY <1>6, <1>7, <1>10, <2>1 DEF Alone, LinesOK, GoingOK
    <2> QED
      BY <1>5, <1>9, <1>10, <1>13, <2>2 DEF IsOf
  <1>19. \A n \in {L, R} : n \in Real \cup DOMAIN LoserAgent => FollowedUp(b)
    BY <1>1, SeedingAssumption DEF FollowedUp
  <1>20. IsNews(L, t, l.id, LeftHp(b, l, r), b)'
    <2>1. LeftHp(b, l, r) > 0 => b = t[L]
      BY <1>1, <1>6, <1>10
    <2>2. L \in Real \cup DOMAIN LoserAgent => FollowedUp(b)
      BY <1>19
    <2> QED
      BY <1>2, <1>8, <1>15, <2>1, <2>2, LastNews
  <1>21. IsNews(R, t, r.id, RightHp(b, l, r), b)'
    <2>1. RightHp(b, l, r) > 0 => b = t[R]
      BY <1>1, <1>7, <1>8, <1>10
    <2>2. R \in Real \cup DOMAIN LoserAgent => FollowedUp(b)
      BY <1>19
    <2> QED
      BY <1>2, <1>8, <1>15, <2>1, <2>2, LastNews
  <1>22. ToldOK(t)'
    <2> SUFFICES ASSUME NEW n \in Node, NEW i, NEW x, NEW c, Told(n, i, x, c)'
                 PROVE  IsNews(n, t, i, x, c)'
      BY DEF ToldOK
    <2>1. CASE n = L
      BY <1>1e, <1>20, <2>1 DEF IsToldSo
    <2>2. CASE n = R
      BY <1>1e, <1>21, <2>2 DEF IsToldSo
    <2>3. CASE n \notin {L, R}
      <3>1. Told(n, i, x, c)
        BY <1>16, <2>3
      <3>2. IsNews(n, top, i, x, c)
        BY <3>1 DEF LinesOK, ToldOK
      <3>3. x > 0 => top[n] \notin {L, R} /\ t[n] = top[n]
        BY <1>5, <1>6, <1>7, <1>10, <2>3, <3>1 DEF Alone
      <3>4. x > 0 /\ c # Final => Awaited(c)'
        BY <1>13, <3>2, <3>3 DEF IsNews, Node
      <3> QED
        BY <1>2, <1>9, <3>2, <3>3, <3>4 DEF IsNews, FollowedUp
    <2> QED
      BY <2>1, <2>2, <2>3
  <1>23. RoundsOK(hp)'
    BY <1>1a, <1>4, <1>9 DEF LinesOK, RoundsOK
  <1>24. FreshOK(t, hp)'
    <2> SUFFICES ASSUME NEW m \in Node, Awaited(m), m \notin {L, R}, Present(m, top)
                 PROVE  Present(m, t)'
      BY <1>9, <1>13 DEF LinesOK, FreshOK
    <2>1. PICK n \in Node : top[n] = m /\ \E i, x : Going(n, i, x)
      BY DEF Present
    <2>2. n \in Node \ {L, R} /\ t[n] = m
      BY <1>5, <1>6, <1>7, <1>10, <2>1
    <2>3. \E i, x : Going(n, i, x)'
      BY <1>16, <2>1, <2>2
    <2> QED
      BY <2>2, <2>3 DEF Present
  <1> QED
    BY <1>17, <1>18, <1>22, <1>23, <1>24 DEF LinesOK

\* After a round all is again as in the reference.
LEMMA FightLines ==
    ASSUME TournamentInv, PlainOK, NEW top, NEW hp, LinesOK(top, hp),
           NEW b \in Battle, Fight(b)
    PROVE  \E t, h : LinesOK(t, h)'
  <1>1. PICK L, R, l, r : L = Left[b] /\ R = Right[b] /\ l = Head(up[L]) /\ r = Head(up[R])
    OBVIOUS
  <1>2. CASE Ended(b, l, r)
    <2>1. PICK w : w = (IF LeftHp(b, l, r) > 0 THEN L ELSE R)
      OBVIOUS
    <2>2. PICK t : t = [n \in Node |-> IF top[n] = w THEN b ELSE top[n]]
      OBVIOUS
    <2>3. LinesOK(t, hp)'
      BY <1>1, <1>2, <2>1, <2>2, OverLines
    <2> QED
      BY <2>3
  <1>3. CASE ~Ended(b, l, r)
    <2>1. PICK h : h = [n \in Node |-> IF n = L THEN LeftHp(b, l, r)
                                      ELSE IF n = R THEN RightHp(b, l, r) ELSE hp[n]]
      OBVIOUS
    <2>2. LinesOK(top, h)'
      BY <1>1, <1>3, <2>1, GoesOnLines
    <2> QED
      BY <2>2
  <1> QED
    BY <1>2, <1>3

-----------------------------------------------------------------------------
(* The rest of the invariant, and the theorem.                              *)

\* A step that decides nothing and after which nobody is younger than before.
LEMMA StayPlain ==
    ASSUME PlainOK, UNCHANGED <<full, won>>, SameFights,
           \A n \in Node : Young(n)' => Young(n),
           pc'[Final] \notin {"up", "down"},
           champion' \subseteq {Result(Final).best.id}, FifoOK', LostOK'
    PROVE  PlainOK'
  <1>1. \A c : Result(c)' = Result(c)
    BY SameReference
  <1>2. \A b \in Battle : \A n \in Child(b) : n \in Node
    BY Bracket
  <1> QED
    BY <1>1, <1>2 DEF PlainOK, SameFights

\* A step that puts nothing into a FIFO.
LEMMA FewerHanded ==
    ASSUME TypeInv, PlainOK, full' = full,
           \A a \in Agent : \/ fifo'[a] = fifo[a] \/ fifo'[a] = <<>>
                            \/ fifo[a] # <<>> /\ fifo'[a] = Tail(fifo[a])
    PROVE  FifoOK'
  <1>0. \A n : Comes(n)' = Comes(n)
    BY SameReference
  <1>1. ASSUME NEW a \in Agent, NEW k \in DOMAIN fifo'[a]
        PROVE  fifo'[a][k].id = Comes(a).id /\ fifo'[a][k].hp = Comes(a).hp
    <2>1. \A j \in DOMAIN fifo[a] : fifo[a][j].id = Comes(a).id /\ fifo[a][j].hp = Comes(a).hp
      BY DEF PlainOK, FifoOK
    <2>2. CASE fifo'[a] = fifo[a]
      BY <1>1, <2>1, <2>2
    <2>3. CASE fifo'[a] = <<>>
      <3>1. DOMAIN fifo'[a] = {}
        BY <2>3
      <3> QED
        BY <1>1, <3>1
    <2>4. CASE fifo[a] # <<>> /\ fifo'[a] = Tail(fifo[a])
      <3> DEFINE q == fifo[a]
                 r == fifo'[a]
      <3>1. q \in Seq(Statuses({0})) /\ q # <<>> /\ r = Tail(q) /\ k \in DOMAIN r
        BY <1>1, <2>4, FifoDomain
      <3>2. k + 1 \in DOMAIN q /\ r[k] = q[k + 1]
        BY <3>1
      <3> QED
        BY <2>1, <3>2
    <2> QED
      BY <2>2, <2>3, <2>4
  <1> QED
    BY <1>0, <1>1 DEF FifoOK

\* A process moves on.
LEMMA MovePlain ==
    ASSUME TypeInv, PlainOK, UNCHANGED <<full, won, lostIn>>,
           NEW k \in Node, NEW label, Goto(k, label),
           pc[k] # "fight", label # "fight",
           label \in {"made", "idle", "enter", "new"} => Young(k),
           k = Final => label \notin {"up", "down"}, label # "sleep",
           champion' \subseteq {Result(Final).best.id}, FifoOK'
    PROVE  PlainOK'
  <1>1. pc'[k] = label /\ \A n \in Node \ {k} : pc'[n] = pc[n]
    BY GotoType DEF TypeInv
  <1>2. SameFights
    BY FightsStay
  <1>3. \A n \in Node : Young(n)' => Young(n)
    BY <1>1 DEF Young
  <1>4. Final \in Node /\ Real \subseteq Node
    BY TreeAssumption DEF Node, Player
  <1>5. pc'[Final] \notin {"up", "down"}
    BY <1>1, <1>4 DEF PlainOK
  <1>6. \A c : Result(c)' = Result(c)
    BY SameReference
  <1>7. \A p \in Real : pc'[p] = "sleep" => pc[p] = "sleep"
    BY <1>1, <1>4
  <1>8. LostOK'
    BY <1>6, <1>7 DEF PlainOK, LostOK
  <1> QED
    BY <1>2, <1>3, <1>5, <1>8, StayPlain

\* A round: its winner is the one of the reference.
LEMMA FightPlain ==
    ASSUME TournamentInv, PlainOK, NEW top, NEW hp, LinesOK(top, hp),
           NEW b \in Battle, Fight(b)
    PROVE  PlainOK'
  <1>1. PICK L, R, l, r : L = Left[b] /\ R = Right[b] /\ l = Head(up[L]) /\ r = Head(up[R])
    OBVIOUS
  <1>2. /\ L \in Node /\ R \in Node /\ L # R /\ Child(b) = {L, R}
        /\ ~Fought(b)
        /\ Going(L, l.id, l.hp) /\ Going(R, r.id, r.hp)
        /\ l \in Statuses({0}) /\ r \in Statuses({0}) /\ l.hp > 0 /\ r.hp > 0
    BY <1>1, FightAnswers
  <1>3. TypeInv /\ b \in Node /\ OneStatus
    BY DEF TournamentInv, FlowInv, Node
  <1>4. UNCHANGED <<full, fifo, lostIn, champion>>
    BY DEF Fight, fifos
  <1>5. \A c : Result(c)' = Result(c)
    BY <1>4, SameReference
  <1>6. FifoOK'
    BY <1>3, <1>4, FewerHanded
  <1>7. champion' \subseteq {Result(Final).best.id}
    BY <1>4 DEF PlainOK
  <1>8. CASE ~Ended(b, l, r)
    <2>1. UNCHANGED <<pc, won>>
      BY <1>1, <1>8 DEF Fight, result
    <2>2. LostOK' /\ SameFights /\ pc'[Final] \notin {"up", "down"}
          /\ \A n \in Node : Young(n)' => Young(n)
      BY <1>4, <1>5, <2>1 DEF PlainOK, LostOK, SameFights, Fought, Young
    <2> QED
      BY <1>4, <1>6, <1>7, <2>1, <2>2, StayPlain
  <1>9. CASE Ended(b, l, r)
    <2>1. PICK w : w = (IF LeftHp(b, l, r) > 0 THEN L ELSE R)
      OBVIOUS
    <2>2. /\ won' = [won EXCEPT ![b] = Head(up[w]).id]
          /\ Goto(b, "reap")
      BY <1>1, <1>9, <2>1 DEF Fight
    <2>3. pc'[b] = "reap" /\ \A n \in Node \ {b} : pc'[n] = pc[n]
      BY <1>3, <2>2, GotoType DEF TypeInv
    <2>4. /\ l.id = Comes(Left[b]).id /\ l.hp = hp[Left[b]]
          /\ r.id = Comes(Right[b]).id /\ r.hp = hp[Right[b]]
      BY <1>1, <1>2, FightPlayers
    <2>5. Head(up[w]).id = Result(b).best.id
      <3>1. /\ LeftHp(b, l, r) > 0 => Result(b) = Wins(full, l.id, LeftHp(b, l, r), r.id)
            /\ ~(LeftHp(b, l, r) > 0) => Result(b) = Wins(full, r.id, RightHp(b, l, r), l.id)
        <4>1. /\ l \in Statuses({0}) /\ r \in Statuses({0}) /\ l.hp > 0 /\ r.hp > 0
              /\ ~Fought(b)
          BY <1>2
        <4> QED
          BY <1>9, <2>4, <4>1, FightOutcome
      <3>2. LeftHp(b, l, r) > 0 => Result(b).best.id = l.id
        BY <3>1, WinsFields
      <3>3. ~(LeftHp(b, l, r) > 0) => Result(b).best.id = r.id
        BY <3>1, WinsFields
      <3> QED
        BY <1>1, <2>1, <3>2, <3>3
    <2>6. /\ won'[b] = Result(b).best.id
          /\ \A c \in Battle \ {b} : won'[c] = won[c] /\ (Fought(c)' <=> Fought(c))
      BY <1>3, <2>2, <2>3, <2>5 DEF TypeInv, TypeOK, Fought, Node
    <2>7. \A n \in Node : Young(n)' => Young(n) /\ n # b
      BY <2>3 DEF Young
    <2>8. ~Young(L) /\ ~Young(R)
      <3>1. ~Silent(L) /\ ~Silent(R)
        BY <1>2 DEF Silent, Going
      <3> QED
        BY <1>2, <1>3, <3>1 DEF OneStatus, Young
    <2>9. \A c \in Battle : Fought(c)' => \A n \in Child(c) : ~Young(n)'
      <3> SUFFICES ASSUME NEW c \in Battle, Fought(c)', NEW n \in Child(c)
                   PROVE  ~Young(n)'
        OBVIOUS
      <3>1. n \in Node
        BY Bracket
      <3>2. ~Young(n)
        BY <1>2, <2>6, <2>8 DEF PlainOK
      <3> QED
        BY <2>7, <3>1, <3>2
    <2>10. pc'[Final] \notin {"up", "down"}
      BY <2>3, TreeAssumption DEF PlainOK, Node
    <2>11. LostOK'
      <3>1. \A p \in Real : pc'[p] = "sleep" => pc[p] = "sleep"
        BY <2>3 DEF Node, Player
      <3> QED
        BY <1>4, <1>5, <3>1 DEF PlainOK, LostOK
    <2>12. \A c \in Battle : Fought(c)' => won'[c] = Result(c).best.id
      BY <2>6 DEF PlainOK
    <2> QED
      BY <1>5, <1>6, <1>7, <2>9, <2>10, <2>11, <2>12 DEF PlainOK
  <1> QED
    BY <1>8, <1>9

\* The other steps of a battle: the final's process names its winner.
LEMMA BattlePlain ==
    ASSUME TournamentInv, PlainOK, NEW b \in Battle,
           Reap(b) \/ PassUp(b) \/ PassDown(b) \/ End(b)
    PROVE  PlainOK'
  <1>1. TypeInv /\ b \in Node
    BY DEF TournamentInv, Node
  <1>2. UNCHANGED <<full, won, lostIn, fifo>>
    BY DEF Reap, PassUp, PassDown, End, fifos, result
  <1>3. FifoOK'
    BY <1>1, <1>2, FewerHanded
  <1>4. CASE PassUp(b) \/ PassDown(b)
    <2>1. b # Final
      BY <1>4 DEF PassUp, PassDown, PlainOK
    <2>2. /\ pc[b] # "fight" /\ champion' = champion
          /\ \E label \in {"down", "last", "up"} : Goto(b, label)
      BY <1>4 DEF PassUp, PassDown
    <2>3. champion' \subseteq {Result(Final).best.id}
      BY <2>2 DEF PlainOK
    <2> QED
      BY <1>1, <1>2, <1>3, <2>1, <2>2, <2>3, MovePlain
  <1>5. CASE End(b)
    <2>1. pc[b] # "fight" /\ champion' = champion /\ Goto(b, "done")
      BY <1>5 DEF End
    <2>2. champion' \subseteq {Result(Final).best.id}
      BY <2>1 DEF PlainOK
    <2> QED
      BY <1>1, <1>2, <1>3, <2>1, <2>2, MovePlain
  <1>6. CASE Reap(b)
    <2>1. /\ pc[b] = "reap"
          /\ b = Final => champion' = champion \cup {won[b]} /\ Goto(b, "last")
          /\ b # Final => champion' = champion /\ Goto(b, "up")
      BY <1>6 DEF Reap
    <2>2. b = Final => won[b] = Result(Final).best.id
      BY <2>1 DEF PlainOK, Fought
    <2>3. champion' \subseteq {Result(Final).best.id}
      BY <2>1, <2>2 DEF PlainOK
    <2>4. \E label \in {"last", "up"} : Goto(b, label) /\ (b = Final => label = "last")
      BY <2>1
    <2> QED
      BY <1>1, <1>2, <1>3, <2>1, <2>3, <2>4, MovePlain
  <1> QED
    BY <1>4, <1>5, <1>6

\* A real player that was beaten before the final is the loser of the reference.
LEMMA LosePlain ==
    ASSUME TournamentInv, PlainOK, NEW top, NEW hp, LinesOK(top, hp),
           NEW p \in Player, Lose(p)
    PROVE  PlainOK'
  <1>1. TypeInv /\ p \in Node
    BY DEF TournamentInv, Node
  <1>2. PICK s : s = Head(down[p])
    OBVIOUS
  <1>3. /\ p \in Real /\ pc[p] = "play" /\ down[p] # <<>>
        /\ s.ended = 1 /\ s.hp <= 0 /\ s.battle # Final
        /\ lostIn' = [lostIn EXCEPT ![p] = s.battle]
        /\ Goto(p, "sleep")
        /\ UNCHANGED <<full, won, winner, fifo, champion>>
    BY <1>2 DEF Lose, fifos, result
  <1>4. s \in Statuses({0, 1}) /\ Told(p, s.id, s.hp, s.battle)
    BY <1>1, <1>2, <1>3, PipeContents
  <1>5. s.id = p
    <2>1. s.id \in Real /\ Between(p, s.id)
      BY <1>2, <1>3, <1>4 DEF Statuses, Between
    <2> QED
      BY <1>3, <2>1 DEF TournamentInv, FlowInv, OwnStatus
  <1>6. s.battle \in DOMAIN LoserAgent /\ Result(s.battle).other = p
    <2>1. IsNews(p, top, s.id, s.hp, s.battle)
      BY <1>1, <1>4 DEF LinesOK, ToldOK
    <2>2. ~(s.hp > 0)
      BY <1>3, <1>4 DEF Statuses
    <2> QED
      BY <1>3, <1>5, <2>1, <2>2 DEF IsNews, FollowedUp
  <1>7. pc'[p] = "sleep" /\ \A n \in Node \ {p} : pc'[n] = pc[n]
    BY <1>1, <1>3, GotoType DEF TypeInv
  <1>8. lostIn'[p] = s.battle /\ \A q \in Real \ {p} : lostIn'[q] = lostIn[q]
    BY <1>1, <1>3 DEF TypeInv, TypeOK
  <1>9. \A c : Result(c)' = Result(c)
    BY <1>3, SameReference
  <1>10. LostOK'
    <2>1. Real \subseteq Node
      BY DEF Node, Player
    <2> QED
      BY <1>6, <1>7, <1>8, <1>9, <2>1 DEF PlainOK, LostOK
  <1>11. FifoOK'
    BY <1>1, <1>3, FewerHanded
  <1>12. SameFights
    BY <1>1, <1>3, FightsStay
  <1>13. \A n \in Node : Young(n)' => Young(n)
    BY <1>7 DEF Young
  <1>14. pc'[Final] \notin {"up", "down"}
    BY <1>7, TreeAssumption DEF PlainOK, Node
  <1>15. champion' \subseteq {Result(Final).best.id}
    BY <1>3 DEF PlainOK
  <1> QED
    BY <1>3, <1>10, <1>11, <1>12, <1>13, <1>14, <1>15, StayPlain

\* What it hands over is what the reference has its agent come with.
LEMMA HandOverPlain ==
    ASSUME TournamentInv, PlainOK, NEW p \in Player, HandOver(p)
    PROVE  PlainOK'
  <1>1. TypeInv
    BY DEF TournamentInv
  <1>2. /\ p \in Real /\ p \in Node /\ pc[p] = "sleep"
        /\ \/ fifo' = fifo
           \/ \E a \in Agent : \E s \in Statuses({0}) :
                  /\ \A c \in Agent \ {a} : fifo'[c] = fifo[c]
                  /\ IsPutInto(fifo', fifo, a, s)
                  /\ s.id = p /\ s.hp = full[p]
                  /\ a = LoserAgent[lostIn[p]]
        /\ fifo' \in [Agent -> Seq(Statuses({0}))]
        /\ Goto(p, "leave")
        /\ UNCHANGED <<full, won, lostIn, champion>>
    BY <1>1, HandOverFifo DEF result
  <1>3. \A n : Comes(n)' = Comes(n)
    BY <1>2, SameReference
  <1>4. fifo' = fifo => FifoOK'
    BY <1>1, <1>2, FewerHanded
  <1>5. ASSUME NEW a \in Agent, NEW s \in Statuses({0}),
               \A c \in Agent \ {a} : fifo'[c] = fifo[c],
               IsPutInto(fifo', fifo, a, s), s.id = p, s.hp = full[p],
               a = LoserAgent[lostIn[p]]
        PROVE  FifoOK'
    <2>1. Comes(a).id = p /\ Comes(a).hp = full[p]
      <3>1. lostIn[p] \in DOMAIN LoserAgent /\ Result(lostIn[p]).other = p
        BY <1>2 DEF PlainOK, LostOK
      <3> QED
        BY <1>5, <3>1, ComesFrom
    <2>2. \A k \in DOMAIN fifo'[a] : fifo'[a][k].id = Comes(a).id /\ fifo'[a][k].hp = Comes(a).hp
      <3> SUFFICES ASSUME NEW k \in DOMAIN fifo'[a]
                   PROVE  fifo'[a][k].id = Comes(a).id /\ fifo'[a][k].hp = Comes(a).hp
        OBVIOUS
      <3>1. fifo[a] \in Seq(Statuses({0})) /\ fifo'[a] \in Seq(Statuses({0}))
        BY <1>1, <1>2 DEF TypeInv, TypeOK
      <3>2. k \in DOMAIN fifo[a] \/ k = Len(fifo[a]) + 1
        BY <1>5, <3>1 DEF IsPutInto
      <3>3. CASE k \in DOMAIN fifo[a]
        <4>1. fifo'[a][k] = fifo[a][k]
          BY <1>5, <3>1, <3>3 DEF IsPutInto
        <4> QED
          BY <3>3, <4>1 DEF PlainOK, FifoOK
      <3>4. CASE k = Len(fifo[a]) + 1
        BY <1>5, <2>1, <3>4 DEF IsPutInto
      <3> QED
        BY <3>2, <3>3, <3>4
    <2>3. ASSUME NEW c \in Agent \ {a}, NEW k \in DOMAIN fifo'[c]
          PROVE  fifo'[c][k].id = Comes(c).id /\ fifo'[c][k].hp = Comes(c).hp
      BY <1>5, <2>3 DEF PlainOK, FifoOK
    <2> QED
      BY <1>3, <2>2, <2>3 DEF FifoOK
  <1>6. FifoOK'
    BY <1>2, <1>4, <1>5
  <1>7. champion' \subseteq {Result(Final).best.id}
    BY <1>2 DEF PlainOK
  <1>8. p # Final
    BY TreeAssumption
  <1> QED
    BY <1>1, <1>2, <1>6, <1>7, MovePlain

\* The other steps of a player.
LEMMA PlayerPlain ==
    ASSUME TournamentInv, PlainOK, NEW top, NEW hp, LinesOK(top, hp),
           NEW p \in Player, PlayerStep(p)
    PROVE  PlainOK'
  <1>1. TypeInv /\ p \in Node
    BY DEF TournamentInv, Node
  <1>2. CASE Return(p) \/ Win(p)
    <2>1. UNCHANGED <<pc, full, won, lostIn, fifo, champion>>
      BY <1>2 DEF Return, Win, fifos, result
    <2>2. FifoOK'
      BY <1>1, <2>1, FewerHanded
    <2>3. \A c : Result(c)' = Result(c)
      BY <2>1, SameReference
    <2>4. /\ LostOK' /\ SameFights /\ pc'[Final] \notin {"up", "down"}
          /\ \A n \in Node : Young(n)' => Young(n)
          /\ champion' \subseteq {Result(Final).best.id}
      BY <2>1, <2>3 DEF PlainOK, LostOK, SameFights, Fought, Young
    <2> QED
      BY <2>1, <2>2, <2>4, StayPlain
  <1>3. CASE Enter(p) \/ Finish(p) \/ MakeFifo(p) \/ OpenFifo(p)
    <2>1. /\ UNCHANGED <<full, won, lostIn, fifo, champion>>
          /\ pc[p] # "fight"
          /\ \/ \E label \in {"play", "done"} : Goto(p, label)
             \/ pc[p] = "new" /\ Goto(p, "made")
             \/ pc[p] = "made" /\ Goto(p, "idle")
      BY <1>3 DEF Enter, Finish, MakeFifo, OpenFifo, fifos, result
    <2>2. FifoOK'
      BY <1>1, <2>1, FewerHanded
    <2>3. champion' \subseteq {Result(Final).best.id}
      BY <2>1 DEF PlainOK
    <2>4. \E label \in {"play", "done", "made", "idle"} :
              Goto(p, label) /\ (label \in {"made", "idle", "enter", "new"} => Young(p))
      BY <2>1 DEF Young
    <2> QED
      BY <1>1, <2>1, <2>2, <2>3, <2>4, MovePlain
  <1>4. CASE Depart(p)
    <2>1. /\ UNCHANGED <<full, won, lostIn, champion>>
          /\ pc[p] = "leave" /\ Goto(p, "done")
          /\ \A c \in Agent : fifo'[c] = fifo[c] \/ fifo'[c] = <<>>
      BY <1>1, <1>4, DepartFifo DEF result
    <2>2. FifoOK'
      BY <1>1, <2>1, FewerHanded
    <2>3. champion' \subseteq {Result(Final).best.id}
      BY <2>1 DEF PlainOK
    <2> QED
      BY <1>1, <2>1, <2>2, <2>3, MovePlain
  <1>5. CASE StandIn(p)
    <2>1. /\ UNCHANGED <<full, won, lostIn, champion>>
          /\ pc[p] = "idle" /\ Goto(p, "play")
          /\ \A c \in Agent \ {p} : fifo'[c] = fifo[c]
          /\ fifo[p] # <<>> /\ fifo'[p] = Tail(fifo[p])
      BY <1>1, <1>5, StandInPipes DEF result
    <2>2. FifoOK'
      BY <1>1, <2>1, FewerHanded
    <2>3. champion' \subseteq {Result(Final).best.id}
      BY <2>1 DEF PlainOK
    <2> QED
      BY <1>1, <2>1, <2>2, <2>3, MovePlain
  <1> QED
    BY <1>2, <1>3, <1>4, <1>5, LosePlain, HandOverPlain DEF PlayerStep

\* Everybody comes with some HP.
LEMMA ComesAlive ==
    ASSUME full \in [Real -> FullHp]
    PROVE  \A n \in Node : Comes(n).hp \in Nat
  <1>1. full \in [Real -> Nat]
    BY Worth
  <1>2. \A b \in Battle : Result(b).best.hp \in Nat /\ Result(b).other \in Real
    BY <1>1, ResultsSolved DEF Result, Outcome
  <1>3. \A b \in Battle : Comes(b).hp \in Nat
    BY <1>2, ComesFrom
  <1>4. \A p \in Real : Comes(p).hp \in Nat
    BY <1>1, ComesFrom
  <1>5. ASSUME NEW a \in Agent
        PROVE  Comes(a).hp \in Nat
    <2>1. PICK c \in DOMAIN LoserAgent : LoserAgent[c] = a /\ c \in Battle
      BY Sources
    <2>2. Comes(a).hp = full[Result(c).other]
      BY <2>1, ComesFrom
    <2> QED
      BY <1>1, <1>2, <2>1, <2>2
  <1> QED
    BY <1>3, <1>4, <1>5 DEF Node, Player

\* At the start everybody is still to come, and every battle to be fought.
LEMMA InitLines == Init => FollowsReference
  <1> SUFFICES ASSUME Init PROVE FollowsReference
    OBVIOUS
  <1>1. /\ \A b \in Battle : ~Fought(b)
        /\ \A n \in Node : up[n] = <<>> /\ down[n] = <<>>
        /\ full \in [Real -> FullHp]
        /\ \A p \in Real : pc[p] # "sleep"
        /\ pc[Final] = "fight"
    BY TreeAssumption DEF Init, Fought, Node, Player
  <1>2. \A n \in Node : Silent(n)
    BY <1>1 DEF Silent
  <1>3. \A n \in Node : \A i, x, b : ~Going(n, i, x) /\ ~Told(n, i, x, b)
    BY <1>1 DEF Going, Told
  <1>4. full \in [Real -> Nat]
    BY <1>1, Worth
  <1>5. PICK top, hp : top = [n \in Node |-> n] /\ hp = [n \in Node |-> Comes(n).hp]
    OBVIOUS
  <1>6. TopOK(top)
    BY <1>1, <1>5, TreeAssumption DEF TopOK, Node
  <1>7. hp \in [Node -> Nat] /\ \A n \in Node : hp[n] = Comes(n).hp
    BY <1>1, <1>5, ComesAlive
  <1>8. ASSUME NEW b \in Battle
        PROVE  Due(b, hp[Left[b]], hp[Right[b]])
    <2>1. Result(b) = BattleOf(full, ResultsOf(full), b)
      BY <1>4, ResultsSolved DEF Result, IsResults
    <2>2. hp[Left[b]] = Comes(Left[b]).hp /\ hp[Right[b]] = Comes(Right[b]).hp
      BY <1>7, Bracket
    <2> QED
      BY <2>1, <2>2 DEF BattleOf, Comes, Due
  <1>9. LinesOK(top, hp)
    BY <1>3, <1>6, <1>7, <1>8 DEF LinesOK, GoingOK, ToldOK, RoundsOK, FreshOK
  <1>10. FifoOK
    <2>1. \A a \in Agent : DOMAIN fifo[a] = {}
      BY DEF Init
    <2> QED
      BY <2>1 DEF FifoOK
  <1>11. PlainOK
    <2>1. champion = {}
      BY DEF Init
    <2> QED
      BY <1>1, <1>10, <2>1 DEF PlainOK, LostOK
  <1> QED
    BY <1>9, <1>11 DEF FollowsReference

\* And every step leads towards the results of the reference.
LEMMA NextLines ==
    TournamentInv /\ FollowsReference /\ [Next]_vars => FollowsReference'
  <1> SUFFICES ASSUME TournamentInv, PlainOK, NEW top, NEW hp, LinesOK(top, hp), [Next]_vars
               PROVE  FollowsReference'
    BY DEF FollowsReference
  <1>1. CASE UNCHANGED vars
    <2>1. UNCHANGED <<pc, pipes, fifo, lostIn, won, winner, full, champion>>
      BY <1>1 DEF vars, fifos, result
    <2>2. \A c : Result(c)' = Result(c)
      BY <2>1, SameReference
    <2>3. /\ LostOK' /\ SameFights /\ pc'[Final] \notin {"up", "down"}
          /\ \A n \in Node : Young(n)' => Young(n)
          /\ champion' \subseteq {Result(Final).best.id}
      BY <2>1, <2>2 DEF PlainOK, LostOK, SameFights, Fought, Young
    <2>4. FifoOK'
      BY <2>1, FewerHanded DEF TournamentInv
    <2>5. PlainOK'
      BY <2>1, <2>3, <2>4, StayPlain
    <2>6. LinesOK(top, hp)'
      BY <2>1, <2>3, SilentLines
    <2> QED
      BY <2>5, <2>6 DEF FollowsReference
  <1>2. ASSUME NEW b \in Battle, BattleStep(b)
        PROVE  FollowsReference'
    <2>1. CASE Fight(b)
      BY <2>1, FightPlain, FightLines DEF FollowsReference
    <2>2. CASE ~Fight(b)
      <3>1. PlainOK'
        BY <1>2, <2>2, BattlePlain DEF BattleStep
      <3>2. LinesOK(top, hp)'
        BY <1>2, <2>2, PassUpLines, PassDownLines, WaitLines DEF BattleStep
      <3> QED
        BY <3>1, <3>2 DEF FollowsReference
    <2> QED
      BY <2>1, <2>2
  <1>3. ASSUME NEW p \in Player, PlayerStep(p)
        PROVE  FollowsReference'
    <2>1. PlainOK' /\ LinesOK(top, hp)'
      BY <1>3, PlayerPlain, PlayerLines
    <2> QED
      BY <2>1 DEF FollowsReference
  <1> QED
    BY <1>1, <1>2, <1>3 DEF Next

\* Whatever the order in which the processes run, battle 'A' prints the name of
\* the player that wins when the battles are fought one by one, and no other:
\* for every bracket, every ATK, attribute and HP in the files (battle.c
\* 219-322, player.c 73-156).
THEOREM ChampionFixed == Spec => []ChampionDetermined
  <1>1. FollowsReference => ChampionDetermined
    BY SameResults DEF FollowsReference, PlainOK, Result, ChampionDetermined
  <1> QED
    BY <1>1, InitInv, NextInv, InitLines, NextLines, PTL DEF Spec

=============================================================================
