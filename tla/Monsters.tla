------------------------------ MODULE Monsters ------------------------------
(***************************************************************************)
(* Monsters of one prototype, the players they hate, and the permanent     *)
(* slots of one room, Home, that keep calling them back.                   *)
(*                                                                         *)
(* Every second UpdateActiveMonsters copies the monsters of the rooms that *)
(* hold a player and gives each its turn; commands come between two such   *)
(* passes.  Both run on the game loop, so nothing interleaves with a turn, *)
(* but a turn can move or kill a player and so change what the turns after *)
(* it find: the copy must stay true.                                       *)
(*                                                                         *)
(* Left out: hit points (whether a blow kills is open, a player who dies   *)
(* has them back at once), cooldowns (whether a turn comes to nothing is   *)
(* open), what monsters carry, and the monster another prototype leaves    *)
(* behind at its death.                                                    *)
(***************************************************************************)
EXTENDS Integers, FiniteSets

CONSTANTS
    Players,
    Home, Grave,   \* the room with the slots, and the one the dead wake up in
    MaxClones,     \* bound: monsters at one time
    Slots,         \* number of Home's permanent slots for the prototype
    Interval,      \* seconds from a death to the return
    Exps, HpMax, Groups   \* arguments of the reward: experience and hit points
                          \* of the monster, followers in the player's group

Rooms == {Home, Grave}
Clones == 1 .. MaxClones
Gone == "gone"

ASSUME MonstersAssumption ==
    /\ IsFiniteSet(Players) /\ Home # Grave /\ Gone \notin Rooms
    /\ MaxClones \in Nat /\ Slots \in Nat \ {0} /\ Interval \in Nat \ {0}
    /\ Exps \subseteq Nat /\ HpMax \in Nat \ {0} /\ Groups \subseteq Nat

VARIABLES
    room,     \* the room whose list holds the player; logging out leaves it there
    online,   \* players with a session
    at,       \* the monster's room, Gone if no creature has the id
    perm,     \* monsters tagged MPERMT
    hates,    \* enemies: the players on the monster's list
    credit,   \* monsterDamage: monsters with damage by players on their ledger
    wait,     \* per slot: seconds until it is due, -1 when it has been for longer
    turn,     \* the copy: the monsters still to act in this pass, with their rooms
    duel      \* at most one <<monster, player>>: the player's blow back at a monster's

vars == <<room, online, at, perm, hates, credit, wait, turn, duel>>

Live == {c \in Clones : at[c] # Gone}
In(r) == {c \in Live : at[c] = r}
Holds(r) == \E p \in Players : room[p] = r

Init ==
    /\ room \in [Players -> Rooms]
    /\ online = {}
    /\ at = [c \in Clones |-> Gone] /\ perm = {}
    /\ hates = [c \in Clones |-> {}] /\ credit = {}
    /\ wait = [s \in 1 .. Slots |-> -1]
    /\ turn = {} /\ duel = {}

-----------------------------------------------------------------------------
(* Entering a room, and the ids of new monsters *)

\* A new clone takes the lowest ids no creature has.
Fresh(n) ==
    CHOOSE S \in SUBSET (Clones \ Live) :
        /\ Cardinality(S) = n
        /\ \A c \in S, d \in (Clones \ Live) \ S : c < d

\* The first slot that is due, and every later one that has been for longer.
roomPermanentDueGroups ==
    Cardinality({s \in 1 .. Slots :
        \/ wait[s] = -1
        \/ wait[s] = 0 /\ \A s2 \in 1 .. s - 1 : wait[s2] > 0})

Current == Cardinality(In(Home) \cap perm)
Wanted == IF Current < roomPermanentDueGroups THEN roomPermanentDueGroups - Current ELSE 0
Returning(r) == IF r = Home THEN Fresh(Wanted) ELSE {}
HasIds(r) == r = Home => Wanted <= Cardinality(Clones \ Live)   \* bound

\* MovePlayer and MovePlayerToRoom, when no monster comes along.
Enter(p, r) ==
    /\ HasIds(r)
    /\ room' = [room EXCEPT ![p] = r]
    /\ at' = [c \in Clones |-> IF c \in Returning(r) THEN r ELSE at[c]]
    /\ perm' = perm \cup Returning(r)

\* Mutant: the time is added to what the slot has still to wait.
MarkAdds == [wait EXCEPT ![1] = Interval + (IF @ > 0 THEN @ ELSE 0)]

\* Slots of a loaded room carry no names, so a death is matched with the room's
\* file, in which every slot is long due: it stamps the first slot and names
\* it.  Once it has a name, and has run off, it is matched itself.
markPermanentCreatureRespawn == [wait EXCEPT ![1] = Interval]

-----------------------------------------------------------------------------
(* Deaths and removals *)

\* HandlePermanentCreatureDeath and FinalizeMonsterDeath.
Die(c) ==
    /\ at' = [at EXCEPT ![c] = Gone]
    /\ perm' = perm \ {c}
    /\ hates' = [hates EXCEPT ![c] = {}]
    /\ credit' = credit \ {c}
    /\ wait' = IF c \in perm THEN markPermanentCreatureRespawn ELSE wait

\* RemoveCreature, for a monster that wanders off.
RemoveCreature(c) ==
    /\ at' = [at EXCEPT ![c] = Gone]
    /\ hates' = [hates EXCEPT ![c] = {}]
    /\ credit' = credit \ {c}
    /\ UNCHANGED perm

\* Mutant: the ledgers stay, as the lists of enemies do.
DestroyLeaves(S) ==
    /\ at' = [c \in Clones |-> IF c \in S THEN Gone ELSE at[c]]
    /\ perm' = perm \ S
    /\ UNCHANGED <<hates, credit>>

\* DestroyCreature forgets the ledger and keeps the list of enemies, which the
\* next clone with this id finds.
DestroyCreatures(S) ==
    /\ at' = [c \in Clones |-> IF c \in S THEN Gone ELSE at[c]]
    /\ perm' = perm \ S
    /\ credit' = credit \ S
    /\ UNCHANGED hates

-----------------------------------------------------------------------------
(* A pass over the monsters *)

Second ==
    /\ turn = {} /\ duel = {}
    /\ wait' = [s \in 1 .. Slots |-> IF wait[s] = -1 THEN -1 ELSE wait[s] - 1]
    /\ turn' = {<<c, at[c]>> : c \in {d \in Live : Holds(at[d])}}
    /\ UNCHANGED <<room, online, at, perm, hates, credit, duel>>

Targets(c, r) == {p \in hates[c] : room[p] = r}
Acts(c, r) == duel = {} /\ <<c, r>> \in turn /\ turn' = turn \ {<<c, r>>}

\* The cooldown still runs, or the monster only picks up, heals or misses
\* its chance; or the room has been left by the last player.
Idle(c, r) ==
    /\ Acts(c, r)
    /\ ~Holds(r) \/ hates[c] = {} \/ Targets(c, r) # {}
    /\ UNCHANGED <<room, online, at, perm, hates, credit, wait, duel>>

Wander(c, r) ==
    /\ Acts(c, r) /\ Holds(r)
    /\ c \notin perm /\ hates[c] = {}
    /\ RemoveCreature(c)
    /\ UNCHANGED <<room, online, wait, duel>>

Aggro(c, r) ==
    /\ Acts(c, r) /\ hates[c] = {}
    /\ \E p \in Players : room[p] = r /\ hates' = [hates EXCEPT ![c] = {p}]
    /\ UNCHANGED <<room, online, at, perm, credit, wait, duel>>

\* Mutant: a monster keeps waiting also for those who have left.
NeverForgets(c, r) ==
    /\ Acts(c, r) /\ Holds(r)
    /\ hates[c] # {} /\ Targets(c, r) = {}
    /\ UNCHANGED <<room, online, at, perm, hates, credit, wait, duel>>

\* None of its enemies is here: it forgets them unless one is online.
Forget(c, r) ==
    /\ Acts(c, r) /\ Holds(r)
    /\ hates[c] # {} /\ Targets(c, r) = {}
    /\ hates' = [hates EXCEPT ![c] = IF hates[c] \cap online = {} THEN {} ELSE @]
    /\ UNCHANGED <<room, online, at, perm, credit, wait, duel>>

\* A blow, a breath or a spell; the player strikes back after all but a spell.
StrikesBack(c, p) == duel' \in {{}, {<<c, p>>}}

Strike(c, r) ==
    /\ Acts(c, r)
    /\ \E p \in Targets(c, r) :
        /\ StrikesBack(c, p)
        /\ UNCHANGED <<room, online, at, perm, hates, credit, wait>>

\* killPlayer: the player wakes up in the grave, and still strikes back.
Kill(c, r) ==
    /\ Acts(c, r)
    /\ \E p \in Targets(c, r) :
        /\ Enter(p, Grave)
        /\ StrikesBack(c, p)
        /\ UNCHANGED <<online, hates, credit, wait>>

\* Mutant: the flight of a wimpy player is pursued like a walk.
FleePursued(c, r) ==
    /\ Acts(c, r)
    /\ \E p \in Targets(c, r) \cap online, to \in Rooms \ {r} :
        /\ room' = [room EXCEPT ![p] = to]
        /\ at' = [d \in Clones |-> IF d \in In(r) /\ p \in hates[d] THEN to ELSE at[d]]
        /\ StrikesBack(c, p)
        /\ UNCHANGED <<online, perm, hates, credit, wait>>

\* A wimpy player flees; a spell can send the player away as well.  Nobody
\* follows.
Flee(c, r) ==
    /\ Acts(c, r)
    /\ \E p \in Targets(c, r) \cap online, to \in Rooms \ {r} :
        /\ Enter(p, to)
        /\ StrikesBack(c, p)
        /\ UNCHANGED <<online, hates, credit, wait>>

\* The blow falls back on the monster, and may be its last.
Deflect(c, r) ==
    /\ Acts(c, r)
    /\ \E p \in Targets(c, r) :
        \/ /\ credit' = credit \cup {c} /\ duel' = {<<c, p>>}
           /\ UNCHANGED <<at, perm, hates, wait>>
        \/ Die(c) /\ UNCHANGED duel
    /\ UNCHANGED <<room, online>>

\* playerRetaliate does not look where the player is by now.
playerRetaliate ==
    /\ duel' = {}
    /\ \E d \in duel :
        \/ UNCHANGED <<at, perm, hates, credit, wait>>
        \/ /\ hates' = [hates EXCEPT ![d[1]] = @ \cup {d[2]}]
           /\ credit' = credit \cup {d[1]}
           /\ UNCHANGED <<at, perm, wait>>
        \/ Die(d[1])
    /\ UNCHANGED <<room, online, turn>>

Turn(c) ==
    \E r \in Rooms :
        \/ Idle(c, r) \/ Wander(c, r) \/ Aggro(c, r) \/ Forget(c, r)
        \/ Strike(c, r) \/ Kill(c, r) \/ Flee(c, r) \/ Deflect(c, r)

-----------------------------------------------------------------------------
(* Commands and the other updates, between two passes *)

Between == turn = {} /\ duel = {} /\ UNCHANGED <<turn, duel>>

Attack(p, c) ==
    /\ Between /\ p \in online /\ at[c] = room[p]
    /\ \/ /\ hates' = [hates EXCEPT ![c] = @ \cup {p}]
          /\ credit' \in {credit, credit \cup {c}}
          /\ UNCHANGED <<at, perm, wait>>
       \/ Die(c)
    /\ UNCHANGED <<room, online>>

\* Mutant: a permanent monster that follows keeps its tag.
LeavesPostTagged(F) == perm

\* A permanent monster that leaves its room is permanent no more.
LeavesPost(F) == perm \ F

\* Walking through an exit; monsters that hate the player may come along.  If
\* the handler is move, the death of a permanent one is handled; not if it is go.
Walk(p, r) ==
    /\ Between /\ p \in online /\ room[p] # r
    /\ HasIds(r)
    /\ \E F \in SUBSET {c \in In(room[p]) : p \in hates[c]}, handler \in {"move", "go"} :
        /\ room' = [room EXCEPT ![p] = r]
        /\ at' = [c \in Clones |-> IF c \in F \cup Returning(r) THEN r ELSE at[c]]
        /\ perm' = LeavesPost(F) \cup Returning(r)
        /\ wait' = IF handler = "move" /\ F \cap perm # {}
                     THEN markPermanentCreatureRespawn ELSE wait
    /\ UNCHANGED <<online, hates, credit>>

\* A DM's *purge of the room the DM is in.
Purge(p) ==
    /\ Between /\ p \in online
    /\ In(room[p]) # {}
    /\ DestroyCreatures(In(room[p]))
    /\ UNCHANGED <<room, online, wait>>

UpdateRandomSpawns(r) ==
    /\ Between /\ Holds(r)
    /\ Live # Clones   \* bound
    /\ at' = [c \in Clones |-> IF c \in Fresh(1) THEN r ELSE at[c]]
    /\ UNCHANGED <<room, online, perm, hates, credit, wait>>

Login(p) ==
    /\ Between /\ p \notin online
    /\ online' = online \cup {p}
    /\ UNCHANGED <<room, at, perm, hates, credit, wait>>

Logout(p) ==
    /\ Between /\ p \in online
    /\ online' = online \ {p}
    /\ UNCHANGED <<room, at, perm, hates, credit, wait>>

Next ==
    \/ Second \/ playerRetaliate
    \/ \E c \in Clones : Turn(c)
    \/ \E p \in Players, c \in Clones : Attack(p, c)
    \/ \E p \in Players, r \in Rooms : Walk(p, r)
    \/ \E p \in Players : Purge(p) \/ Login(p) \/ Logout(p)
    \/ \E r \in Rooms : UpdateRandomSpawns(r)

\* The tick comes every second and a pass runs to its end.
Spec ==
    /\ Init /\ [][Next]_vars
    /\ WF_vars(Second) /\ WF_vars(playerRetaliate)
    /\ \A c \in Clones : WF_vars(Turn(c))

-----------------------------------------------------------------------------
(* The experience a monster's death is worth *)

expGain(exp, damage, hpMax) ==
    LET share == (exp * damage) \div hpMax IN IF share > exp THEN exp ELSE share

\* Mutant: without the test for twice the monster's experience.
UncappedBonus(exp, gain, leads, followers) ==
    IF followers = 0 \/ gain \in {0, exp} THEN 0
    ELSE IF leads THEN (gain \div 5) * (followers + 1) ELSE (gain \div 4) * followers

\* What a group adds, by the number of its followers.
monsterDeathGroupBonus(exp, gain, leads, followers) ==
    IF followers = 0 \/ gain \in {0, exp} THEN 0
    ELSE IF gain + (gain \div (IF leads THEN 2 ELSE 3)) * followers > 2 * exp THEN gain
    ELSE IF leads THEN (gain \div 5) * (followers + 1) ELSE (gain \div 4) * followers

-----------------------------------------------------------------------------
(* Properties *)

\* Monsters that are tagged, indebted or waiting to act exist.
TypeOK ==
    /\ room \in [Players -> Rooms] /\ online \subseteq Players
    /\ at \in [Clones -> Rooms \cup {Gone}]
    /\ perm \subseteq Live
    /\ hates \in [Clones -> SUBSET Players]
    /\ credit \subseteq Clones
    /\ wait \in [1 .. Slots -> -1 .. Interval]
    /\ turn \subseteq Clones \X Rooms
    /\ duel \subseteq Live \X Players /\ Cardinality(duel) <= 1

\* The copy a pass works from is never stale: a monster that has still to act
\* is where the copy has it, whatever the turns before did to players and
\* rooms.  No turn checks this.
TurnIsFresh == \A t \in turn : at[t[1]] = t[2]

\* A slot is never filled twice: the permanent monsters and the slots that wait
\* for the return of one are no more than the slots, through deaths, pursuits,
\* purges and any number of arrivals.
RespawnWaits ==
    Cardinality(perm) + Cardinality({s \in 1 .. Slots : wait[s] > 0}) <= Slots

\* Damage is owed by a monster that lives: none is left for a later monster with
\* the same id, whose death would pay for it.
CreditIsCurrent == credit \subseteq Live

\* Whatever a ledger holds, also more than the monster's hit points after it has
\* healed, and however large the group: a player gets at most twice the
\* experience of the monster.
RewardIsBounded ==
    credit # {} =>
        \A exp \in Exps, damage \in 0 .. HpMax + 1, leads \in BOOLEAN, followers \in Groups :
            LET gain == expGain(exp, damage, HpMax) IN
            gain + monsterDeathGroupBonus(exp, gain, leads, followers) <= 2 * exp

\* A monster among players does not bear a grudge for ever against nobody but
\* players who are offline and elsewhere.
Forgiven ==
    \A c \in Clones :
        []<>~(/\ at[c] # Gone /\ Holds(at[c])
              /\ hates[c] # {} /\ hates[c] \cap online = {}
              /\ Targets(c, at[c]) = {})
=============================================================================
