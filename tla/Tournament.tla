------------------------------ MODULE Tournament ------------------------------
(***************************************************************************)
(* The championship of hw2: battle.c and player.c.                         *)
(* Every battle and every player is a process; a battle has one pipe to    *)
(* and one from each of its two children.  A real player that loses before *)
(* the final hands its status through a FIFO to the agent of the battle it *)
(* lost, which plays on for it.                                            *)
(***************************************************************************)
EXTENDS Integers, FiniteSets, Sequences

CONSTANTS
    Battle,      \* the battle ids of btl[]
    Final,       \* the one without a parent, 'A'
    Left, Right, \* the children of a battle: battles or players
    Real, Agent, \* the player ids up to 7, and those above
    LoserAgent,  \* the agent for the real player that loses a battle
    Attr, Field, \* the attributes of players and of battles
    Atk,         \* Atk[id]: real player id's ATK in player_status.txt
    FullHp,      \* the HP a player may have there
    Prompt       \* whether each agent has opened its FIFO before the sleep(1)
                 \* of a loser ends

Player == Real \cup Agent
Node == Battle \cup Player
Child(b) == {Left[b], Right[b]}

ASSUME TreeAssumption ==
    /\ IsFiniteSet(Node)
    /\ Battle \cap Player = {} /\ Real \cap Agent = {}
    /\ Real \subseteq Nat /\ Real # {}
    /\ Final \in Battle
    /\ Left \in [Battle -> Node] /\ Right \in [Battle -> Node]
    /\ \A n \in Node : (\E b \in Battle : n \in Child(b)) <=> n # Final
    /\ \A b, c \in Battle : Child(b) \cap Child(c) # {} => b = c
    /\ \A b \in Battle : Left[b] # Right[b]

ASSUME StatusAssumption ==
    /\ DOMAIN LoserAgent \subseteq Battle
    /\ \A b \in DOMAIN LoserAgent : LoserAgent[b] \in Agent
    /\ Atk \in [Real -> Nat \ {0}]
    /\ DOMAIN Attr = Real /\ DOMAIN Field = Battle
    /\ FullHp \subseteq Nat \ {0}
    /\ Prompt \in BOOLEAN

\* Battle c must be over before b can begin: its winner or its loser is in b.
Feeds(c, b) ==
    \/ c \in Child(b)
    \/ c \in DOMAIN LoserAgent /\ LoserAgent[c] \in Child(b)

\* Every agent has one battle whose loser it stands in for, every battle that a
\* real player can lose before the final has an agent, and the battles can be
\* fought one by one (battle.c 19, player.c 75-96).
ASSUME SeedingAssumption ==
    /\ {LoserAgent[b] : b \in DOMAIN LoserAgent} = Agent
    /\ \A b, c \in DOMAIN LoserAgent : LoserAgent[b] = LoserAgent[c] => b = c
    /\ \A b \in Battle : Child(b) \cap (Real \cup DOMAIN LoserAgent) # {}
                           => b \in DOMAIN LoserAgent \cup {Final}
    /\ \E turn \in [Battle -> 1 .. Cardinality(Battle)] :
           \A b, c \in Battle : Feeds(c, b) => turn[c] < turn[b]

VARIABLES
    pc,          \* pc[n]: where process n is
    up, down,    \* up[n], down[n]: the pipes from n to its parent and back
    fifo,        \* fifo[a]: what player<a>.fifo holds
    made,        \* made[a]: the FIFO is in the directory
    lostIn,      \* lostIn[p]: the battle in which real player p was beaten
    winner,      \* winner[b]: the child of b that goes on, once it is known
    full,        \* full[p]: the HP of p in player_status.txt
    won,         \* won[b]: the id of the real player that goes on
    champion     \* the ids battle 'A' has printed

pipes == <<up, down>>
fifos == <<fifo, made>>
result == <<winner, won>>
vars == <<pc, pipes, fifos, lostIn, result, full, champion>>

Parent(n) == CHOOSE b \in Battle : n \in Child(b)
Other(b, n) == IF n = Left[b] THEN Right[b] ELSE Left[b]

\* A Status: ATK and attr never change and are looked up by the id.
Status(id, hp, battle, ended) ==
    [id |-> id, hp |-> hp, battle |-> battle, ended |-> ended]

\* Only a value for won before anybody has.
Least == CHOOSE p \in Real : \A q \in Real : p <= q

Goto(n, label) == pc' = [pc EXCEPT ![n] = label]

\* m is read from pipe p of n, and r written into pipe q of k.
Took(p, n) == [p EXCEPT ![n] = Tail(@)]
Put(q, k, r) == [q EXCEPT ![k] = Append(@, r)]

-----------------------------------------------------------------------------
(* One round of a battle.                                                   *)

Damage_halved(b, s) == IF Attr[s.id] = Field[b] THEN Atk[s.id] ELSE Atk[s.id] \div 2
Damage(b, s) == IF Attr[s.id] = Field[b] THEN 2 * Atk[s.id] ELSE Atk[s.id]

\* The weaker player strikes first.
Weaker(l, r) == l.hp < r.hp \/ (l.hp = r.hp /\ l.id < r.id)

\* What is left of second, and of first, which is hit only if second survives.
Hit(b, first, second) == second.hp - Damage(b, first)
HitBack(b, first, second) ==
    IF Hit(b, first, second) > 0 THEN first.hp - Damage(b, second) ELSE first.hp

\* The HP of both after the round.
LeftHp(b, l, r) == IF Weaker(l, r) THEN HitBack(b, l, r) ELSE Hit(b, r, l)
RightHp(b, l, r) == IF Weaker(l, r) THEN Hit(b, l, r) ELSE HitBack(b, r, l)

Ended(b, l, r) == LeftHp(b, l, r) <= 0 \/ RightHp(b, l, r) <= 0

\* A player that won gets half of what it lost back.
Healed_none(s) == s.hp
Healed(s) == (s.hp + full[s.id]) \div 2

-----------------------------------------------------------------------------
(* The battles.                                                             *)

\* Battle mode: both statuses are read, and both are answered.
Fight(b) ==
    LET l == Head(up[Left[b]])
        r == Head(up[Right[b]])
        over == Ended(b, l, r)
        flag(s) == IF over THEN 1 ELSE s.ended
    IN  /\ pc[b] = "fight"
        /\ up[Left[b]] # <<>> /\ up[Right[b]] # <<>>
        /\ up' = Took(Took(up, Left[b]), Right[b])
        /\ down' = Put(Put(down, Left[b], Status(l.id, LeftHp(b, l, r), b, flag(l))),
                       Right[b], Status(r.id, RightHp(b, l, r), b, flag(r)))
        /\ IF over
           THEN LET n == IF LeftHp(b, l, r) > 0 THEN Left[b] ELSE Right[b]
                IN  /\ winner' = [winner EXCEPT ![b] = n]
                    /\ won' = [won EXCEPT ![b] = Head(up[n]).id]
                    /\ Goto(b, "reap")
           ELSE UNCHANGED <<result, pc>>
        /\ UNCHANGED <<fifos, lostIn, full, champion>>

\* waitpid() for the loser's process; the final then prints its winner.
Reap(b) ==
    /\ pc[b] = "reap"
    /\ pc[Other(b, winner[b])] = "done"
    /\ IF b = Final THEN /\ champion' = champion \cup {won[b]}
                         /\ Goto(b, "last")
                    ELSE /\ Goto(b, "up")
                         /\ UNCHANGED champion
    /\ UNCHANGED <<pipes, fifos, lostIn, result, full>>

\* Passing mode, first half: from the winner to the parent.
PassUp(b) ==
    /\ pc[b] = "up"
    /\ up[winner[b]] # <<>>
    /\ up' = Put(Took(up, winner[b]), b, Head(up[winner[b]]))
    /\ Goto(b, "down")
    /\ UNCHANGED <<down, fifos, lostIn, result, full, champion>>

\* Second half: from the parent to the winner, for the last time when the
\* player has lost or the status is from the final.
Leaves(s) == s.ended = 1 /\ (s.hp <= 0 \/ s.battle = Final)

PassDown(b) ==
    /\ pc[b] = "down"
    /\ down[b] # <<>>
    /\ down' = Put(Took(down, b), winner[b], Head(down[b]))
    /\ Goto(b, IF Leaves(Head(down[b])) THEN "last" ELSE "up")
    /\ UNCHANGED <<up, fifos, lostIn, result, full, champion>>

\* wait() for the winner's process.
MayEnd_atOnce(b) == TRUE
MayEnd(b) == pc[winner[b]] = "done"

End(b) ==
    /\ pc[b] = "last"
    /\ MayEnd(b)
    /\ Goto(b, "done")
    /\ UNCHANGED <<pipes, fifos, lostIn, result, full, champion>>

-----------------------------------------------------------------------------
(* The players.                                                             *)

\* A real player sends the status it read from the file.
Enter(p) ==
    /\ p \in Real /\ pc[p] = "enter"
    /\ up' = Put(up, p, Status(p, full[p], Parent(p), 0))
    /\ Goto(p, "play")
    /\ UNCHANGED <<down, fifos, lostIn, result, full, champion>>

\* The fight goes on: the status is sent back as it came.
Return(p) ==
    /\ pc[p] = "play" /\ down[p] # <<>>
    /\ Head(down[p]).ended = 0
    /\ down' = Took(down, p)
    /\ up' = Put(up, p, Head(down[p]))
    /\ UNCHANGED <<pc, fifos, lostIn, result, full, champion>>

FlagAfterWin_kept == 1
FlagAfterWin == 0

\* A battle before the final was won: the player goes on to the next one.
Win(p) ==
    LET s == Head(down[p])
    IN  /\ pc[p] = "play" /\ down[p] # <<>>
        /\ s.ended = 1 /\ s.hp > 0 /\ s.battle # Final
        /\ down' = Took(down, p)
        /\ up' = Put(up, p, Status(s.id, Healed(s), s.battle, FlagAfterWin))
        /\ UNCHANGED <<pc, fifos, lostIn, result, full, champion>>

\* The final is over, or an agent was beaten.
Finish(p) ==
    LET s == Head(down[p])
    IN  /\ pc[p] = "play" /\ down[p] # <<>>
        /\ s.ended = 1
        /\ s.battle = Final \/ (p \in Agent /\ s.hp <= 0)
        /\ down' = Took(down, p)
        /\ Goto(p, "done")
        /\ UNCHANGED <<up, fifos, lostIn, result, full, champion>>

\* A real player was beaten before the final: it sleeps a second.
Lose(p) ==
    LET s == Head(down[p])
    IN  /\ p \in Real /\ pc[p] = "play" /\ down[p] # <<>>
        /\ s.ended = 1 /\ s.hp <= 0 /\ s.battle # Final
        /\ down' = Took(down, p)
        /\ lostIn' = [lostIn EXCEPT ![p] = s.battle]
        /\ Goto(p, "sleep")
        /\ UNCHANGED <<up, fifos, result, full, champion>>

Opened(a) == pc[a] \notin {"new", "made"}

\* It opens the FIFO and writes; without a FIFO neither has an effect.
HandOverHp_left(p) == 0
HandOverHp(p) == full[p]

HandOver(p) ==
    LET a == LoserAgent[lostIn[p]]
    IN  /\ pc[p] = "sleep"
        /\ Prompt => Opened(a)
        /\ fifo' = IF made[a]
                   THEN Put(fifo, a, Status(p, HandOverHp(p), lostIn[p], 0))
                   ELSE fifo
        /\ Goto(p, "leave")
        /\ UNCHANGED <<pipes, made, lostIn, result, full, champion>>

\* It exits; what is in a FIFO that nobody else has open is gone.
Depart(p) ==
    /\ pc[p] = "leave"
    /\ LET a == LoserAgent[lostIn[p]]
       IN  fifo' = IF Opened(a) THEN fifo ELSE [fifo EXCEPT ![a] = <<>>]
    /\ Goto(p, "done")
    /\ UNCHANGED <<pipes, made, lostIn, result, full, champion>>

\* An agent makes its FIFO, opens it, and waits for a status.
MakeFifo(a) ==
    /\ a \in Agent /\ pc[a] = "new"
    /\ made' = [made EXCEPT ![a] = TRUE]
    /\ Goto(a, "made")
    /\ UNCHANGED <<pipes, fifo, lostIn, result, full, champion>>

OpenFifo(a) ==
    /\ pc[a] = "made"
    /\ Goto(a, "idle")
    /\ UNCHANGED <<pipes, fifos, lostIn, result, full, champion>>

StandIn(a) ==
    /\ pc[a] = "idle"
    /\ fifo[a] # <<>>
    /\ fifo' = Took(fifo, a)
    /\ up' = Put(up, a, Head(fifo[a]))
    /\ Goto(a, "play")
    /\ UNCHANGED <<down, made, lostIn, result, full, champion>>

-----------------------------------------------------------------------------
\* A FIFO may be left over from an earlier championship.
Init ==
    /\ pc = [n \in Node |-> IF n \in Battle THEN "fight"
                            ELSE IF n \in Real THEN "enter" ELSE "new"]
    /\ up = [n \in Node |-> <<>>]
    /\ down = [n \in Node |-> <<>>]
    /\ fifo = [a \in Agent |-> <<>>]
    /\ made \in {[a \in Agent |-> m] : m \in BOOLEAN}
    /\ lostIn = [p \in Real |-> Parent(p)]
    /\ winner = [b \in Battle |-> b]
    /\ won = [b \in Battle |-> Least]
    /\ full \in [Real -> FullHp]
    /\ champion = {}

BattleStep(b) == Fight(b) \/ Reap(b) \/ PassUp(b) \/ PassDown(b) \/ End(b)

PlayerStep(p) ==
    Enter(p) \/ Return(p) \/ Win(p) \/ Finish(p) \/ Lose(p) \/ HandOver(p)
        \/ Depart(p) \/ MakeFifo(p) \/ OpenFifo(p) \/ StandIn(p)

AllDone == \A n \in Node : pc[n] = "done"

Next ==
    \/ \E b \in Battle : BattleStep(b)
    \/ \E p \in Player : PlayerStep(p)
    \/ AllDone /\ UNCHANGED vars

Spec == Init /\ [][Next]_vars

\* The kernel runs every process that is not blocked.
FairSpec ==
    /\ Spec
    /\ \A b \in Battle : WF_vars(BattleStep(b))
    /\ \A p \in Player : WF_vars(PlayerStep(p))

-----------------------------------------------------------------------------
(* What the championship promises.                                          *)

Statuses(flags) == [id : Real, hp : Int, battle : Battle, ended : flags]

\* The types of the variables.  A status goes up with its flag cleared: the
\* battle above would take a flagged one for an answer to its own round.
TypeOK ==
    /\ pc \in [Node -> {"fight", "reap", "up", "down", "last", "enter", "play",
                        "sleep", "leave", "new", "made", "idle", "done"}]
    /\ up \in [Node -> Seq(Statuses({0}))]
    /\ down \in [Node -> Seq(Statuses({0, 1}))]
    /\ fifo \in [Agent -> Seq(Statuses({0}))]
    /\ made \in [Agent -> BOOLEAN]
    /\ lostIn \in [Real -> Battle]
    /\ winner \in [Battle -> Node] /\ won \in [Battle -> Real]
    /\ full \in [Real -> FullHp]
    /\ champion \subseteq Real

\* Two players meet in a round only alive and never a player itself, although
\* a beaten one plays on through its agent (player.c 73-105, 116-156).
FightersAlive ==
    \A b \in Battle :
        pc[b] = "fight" /\ up[Left[b]] # <<>> /\ up[Right[b]] # <<>> =>
            /\ Head(up[Left[b]]).hp > 0 /\ Head(up[Right[b]]).hp > 0
            /\ Head(up[Left[b]]).id # Head(up[Right[b]]).id

\* A battle's process ends after the processes of its children: the winner's
\* goes on long after the battle (battle.c 324-368).
ChildrenFirst ==
    \A b \in Battle :
        pc[b] = "done" => \A n \in Child(b) : pc[n] = "done"

\* The championship without processes: how a battle between two statuses ends.
Bout(b, l, r) ==
    LET dl == IF Attr[l.id] = Field[b] THEN 2 * Atk[l.id] ELSE Atk[l.id]
        dr == IF Attr[r.id] = Field[b] THEN 2 * Atk[r.id] ELSE Atk[r.id]
        wins(s, hp, t) ==
            [best |-> [id |-> s.id, hp |-> (hp + full[s.id]) \div 2], other |-> t.id]
        bout[h \in Nat \X Nat] ==
            IF h[1] < h[2] \/ (h[1] = h[2] /\ l.id < r.id)
            THEN IF h[2] <= dl THEN wins(l, h[1], r)
                 ELSE IF h[1] <= dr THEN wins(r, h[2] - dl, l)
                 ELSE bout[<<h[1] - dr, h[2] - dl>>]
            ELSE IF h[1] <= dr THEN wins(r, h[2], l)
                 ELSE IF h[2] <= dl THEN wins(l, h[1] - dr, r)
                 ELSE bout[<<h[1] - dr, h[2] - dl>>]
    IN  bout[<<l.hp, r.hp>>]

\* The winner and the loser of every battle.
Results ==
    LET results[b \in Battle] ==
          LET entrant(n) ==
                IF n \in Battle THEN results[n].best
                ELSE LET p == IF n \in Real THEN n
                              ELSE results[CHOOSE c \in DOMAIN LoserAgent :
                                               LoserAgent[c] = n].other
                     IN  [id |-> p, hp |-> full[p]]
          IN  Bout(b, entrant(Left[b]), entrant(Right[b]))
    IN  results

\* Whatever the order in which the processes run, battle 'A' prints one name,
\* that of the player that wins when the battles are fought one by one.
ChampionDetermined == champion \subseteq {Results[Final].best.id}

\* Every process ends, and battle 'A' has printed a champion: README.md 17
\* says of the program that it will "output a champion message".
ChampionNamed == <>(AllDone /\ champion # {})

=============================================================================
