--------------------------- MODULE MonstersProofs ---------------------------
(***************************************************************************)
(* For any players, ids, slots and waiting time: a pass works from a fresh *)
(* copy, slots are not filled twice, the ledgers are those of living       *)
(* monsters, and the reward of a death is bounded.                         *)
(***************************************************************************)
EXTENDS Monsters, FiniteSetTheorems, TLAPS

\* The permanent monsters are at home.
PermAtHome == \A c \in perm : at[c] = Home

\* The monster the player strikes back at has had its turn.
HasActed == \A d \in duel, t \in turn : t[1] # d[1]

Inv == /\ TypeOK /\ TurnIsFresh /\ RespawnWaits /\ CreditIsCurrent
       /\ PermAtHome /\ HasActed

Free == Clones \ Live

\* The slots that wait for a return, and those that are due.
Waiting == {s \in 1 .. Slots : wait[s] > 0}
Due == {s \in 1 .. Slots :
            \/ wait[s] = -1
            \/ wait[s] = 0 /\ \A s2 \in 1 .. s - 1 : wait[s2] > 0}

-----------------------------------------------------------------------------
(* Counting *)

\* The sets of clone ids and of slots are finite.
LEMMA FiniteIds ==
    /\ IsFiniteSet(Clones) /\ IsFiniteSet(1 .. Slots) /\ Cardinality(1 .. Slots) = Slots
    /\ \A S \in SUBSET Clones : IsFiniteSet(S) /\ Cardinality(S) \in Nat
    /\ \A S \in SUBSET (1 .. Slots) : IsFiniteSet(S) /\ Cardinality(S) \in Nat
<1>1. IsFiniteSet(1 .. MaxClones) /\ IsFiniteSet(1 .. Slots) /\ Cardinality(1 .. Slots) = Slots
  BY FS_Interval, MonstersAssumption
<1> QED BY <1>1, FS_Subset, FS_CardinalityType DEF Clones

\* The size of a union of two finite sets that have nothing in common.
LEMMA DisjointUnion ==
    ASSUME NEW S, NEW T, IsFiniteSet(S), IsFiniteSet(T), S \cap T = {}
    PROVE  Cardinality(S \cup T) = Cardinality(S) + Cardinality(T)
<1>1. Cardinality(S) \in Nat /\ Cardinality(T) \in Nat /\ Cardinality(S \cap T) = 0
  BY FS_CardinalityType, FS_EmptySet
<1>2. Cardinality(S \cup T) = Cardinality(S) + Cardinality(T) - Cardinality(S \cap T)
  BY FS_Union
<1> QED BY <1>1, <1>2

\* One more element makes a set larger by at most one.
LEMMA OneMore ==
    ASSUME NEW S, NEW x, IsFiniteSet(S)
    PROVE  /\ IsFiniteSet(S \cup {x}) /\ Cardinality(S \cup {x}) \in Nat
           /\ Cardinality(S \cup {x}) <= Cardinality(S) + 1
<1>1. /\ IsFiniteSet(S \cup {x}) /\ Cardinality(S) \in Nat
      /\ Cardinality(S \cup {x}) = IF x \in S THEN Cardinality(S) ELSE Cardinality(S) + 1
  BY FS_AddElement, FS_CardinalityType
<1> QED BY <1>1

\* Every nonempty set of naturals has a least element.
LEMMA LeastNatural ==
    ASSUME NEW T \in SUBSET Nat, T # {}
    PROVE  \E x \in T : \A y \in T : x <= y
<1>1. IsWellFoundedOn(OpToRel(<, Nat), Nat)
  BY NatLessThanWellFounded
<1>2. PICK x \in T : \A y \in T : ~(<<y, x>> \in OpToRel(<, Nat))
  BY <1>1, WFMin
<1>3. \A y \in T : ~(y < x)
  BY <1>2 DEF OpToRel
<1> QED BY <1>3

\* There are n lowest ids among those that are free, if so many are free.
LEMMA FreshIds ==
    ASSUME NEW n \in Nat, n <= Cardinality(Free)
    PROVE  /\ Fresh(n) \subseteq Free /\ Fresh(n) \cap Live = {}
           /\ Cardinality(Fresh(n)) = n
<1> DEFINE Upto(m) == {c \in Free : c <= m}
           Enough == {m \in Nat : n <= Cardinality(Upto(m))}
<1>1. \A m \in Nat : Upto(m) \subseteq Clones /\ IsFiniteSet(Upto(m)) /\ Cardinality(Upto(m)) \in Nat
  BY FiniteIds DEF Free
<1>2. MaxClones \in Enough
  <2>1. Upto(MaxClones) = Free
    BY MonstersAssumption DEF Free, Clones
  <2> QED BY <2>1, MonstersAssumption
<1>3. PICK k \in Enough : \A m \in Enough : k <= m
  BY <1>2, LeastNatural
<1>4. k \in Nat /\ n <= Cardinality(Upto(k))
  OBVIOUS
<1>5. Cardinality(Upto(k)) <= n
  <2>1. CASE k = 0
    <3>1. Upto(k) = {}
      BY <2>1 DEF Free, Clones
    <3> QED BY <3>1, FS_EmptySet
  <2>2. CASE k # 0
    <3>1. PICK j \in Nat : k = j + 1
      BY <1>4, <2>2
    <3>2. ~(n <= Cardinality(Upto(j)))
      BY <1>3, <3>1
    <3>3. Upto(k) \subseteq Upto(j) \cup {k}
      BY <1>4, <3>1 DEF Free, Clones
    <3> HIDE DEF Upto
    <3>4. /\ IsFiniteSet(Upto(j) \cup {k}) /\ Cardinality(Upto(j) \cup {k}) \in Nat
          /\ Cardinality(Upto(j) \cup {k}) <= Cardinality(Upto(j)) + 1
      BY <1>1, OneMore
    <3>5. Cardinality(Upto(k)) <= Cardinality(Upto(j) \cup {k})
      BY <3>3, <3>4, FS_Subset
    <3> QED BY <1>1, <1>4, <3>2, <3>4, <3>5
  <2> QED BY <2>1, <2>2
<1>6. Cardinality(Upto(k)) = n
  <2> HIDE DEF Upto, Enough
  <2> QED BY <1>1, <1>4, <1>5
<1>7. Upto(k) \in SUBSET Free /\ \A c \in Upto(k), d \in Free \ Upto(k) : c < d
  BY <1>4 DEF Free, Clones
<1>8. \E S \in SUBSET Free : Cardinality(S) = n /\ \A c \in S, d \in Free \ S : c < d
  <2> HIDE DEF Upto
  <2> QED BY <1>6, <1>7
<1> QED BY <1>8 DEF Fresh, Free

\* Due and waiting slots are different slots.
LEMMA DueOrWaiting ==
    ASSUME TypeOK
    PROVE  /\ roomPermanentDueGroups = Cardinality(Due) /\ Cardinality(Due) \in Nat
           /\ Cardinality(Waiting) \in Nat
           /\ Cardinality(Due) + Cardinality(Waiting) <= Slots
<1>1. Due \subseteq 1 .. Slots /\ Waiting \subseteq 1 .. Slots /\ Due \cap Waiting = {}
  BY DEF Due, Waiting, TypeOK
<1>2. IsFiniteSet(Due) /\ IsFiniteSet(Waiting) /\ IsFiniteSet(Due \cup Waiting)
  BY <1>1, FiniteIds, FS_Union
<1>3. /\ Cardinality(Due) \in Nat /\ Cardinality(Waiting) \in Nat
      /\ Cardinality(Due \cup Waiting) \in Nat
  BY <1>2, FS_CardinalityType
<1>4. Cardinality(Due \cup Waiting) = Cardinality(Due) + Cardinality(Waiting)
  BY <1>1, <1>2, DisjointUnion
<1>5. Cardinality(Due \cup Waiting) <= Slots
  BY <1>1, FiniteIds, FS_Subset
<1> QED BY <1>3, <1>4, <1>5 DEF roomPermanentDueGroups, Due

\* At home there is room for every permanent monster that returns, and what
\* returns fills only slots that are due.
LEMMA ReturningFits ==
    ASSUME Inv, NEW r \in Rooms, HasIds(r)
    PROVE  /\ Returning(r) \subseteq Free /\ Returning(r) \cap Live = {}
           /\ r # Home => Returning(r) = {}
           /\ Cardinality(perm \cup Returning(r)) + Cardinality(Waiting) <= Slots
<1> USE DEF Inv
<1>1. In(Home) \cap perm = perm
  BY DEF PermAtHome, TypeOK, In, Live
<1>2. /\ perm \subseteq Clones /\ IsFiniteSet(perm) /\ Current = Cardinality(perm) /\ Current \in Nat
      /\ Current + Cardinality(Waiting) <= Slots
  BY <1>1, FiniteIds DEF TypeOK, Live, Current, RespawnWaits, Waiting
<1>3. CASE r # Home
  BY <1>2, <1>3 DEF Returning
<1>4. CASE r = Home
  <2>1. Wanted \in Nat /\ Wanted <= Cardinality(Free)
    BY <1>2, <1>4, DueOrWaiting DEF HasIds, Wanted, Free
  <2>2. /\ Fresh(Wanted) \subseteq Free /\ Fresh(Wanted) \cap Live = {}
        /\ Cardinality(Fresh(Wanted)) = Wanted
    BY <2>1, FreshIds
  <2>3. perm \cap Fresh(Wanted) = {} /\ IsFiniteSet(Fresh(Wanted))
    BY <2>2, FiniteIds DEF TypeOK, Free
  <2>4. Cardinality(perm \cup Fresh(Wanted)) = Current + Wanted
    BY <1>2, <2>2, <2>3, DisjointUnion
  <2>5. Current + Wanted + Cardinality(Waiting) <= Slots
    BY <1>2, <2>1, DueOrWaiting, MonstersAssumption DEF Wanted
  <2> QED BY <1>4, <2>2, <2>4, <2>5 DEF Returning
<1> QED BY <1>3, <1>4

\* One slot more waits after a death that is marked.
LEMMA MarkAddsOne ==
    ASSUME TypeOK, wait' = markPermanentCreatureRespawn
    PROVE  /\ wait' \in [1 .. Slots -> -1 .. Interval]
           /\ Cardinality(Waiting') \in Nat /\ Cardinality(Waiting') <= Cardinality(Waiting) + 1
<1>1. Interval \in -1 .. Interval /\ 1 \in 1 .. Slots
  BY MonstersAssumption
<1>2. wait' = [wait EXCEPT ![1] = Interval]
  BY DEF markPermanentCreatureRespawn
<1>3. wait' \in [1 .. Slots -> -1 .. Interval]
  BY <1>1, <1>2 DEF TypeOK
<1>4. Waiting' \subseteq Waiting \cup {1} /\ Waiting \subseteq 1 .. Slots
  BY <1>1, <1>2 DEF TypeOK, Waiting
<1>5. IsFiniteSet(Waiting) /\ Cardinality(Waiting) \in Nat
  BY <1>4, FiniteIds
<1>6. /\ IsFiniteSet(Waiting \cup {1}) /\ Cardinality(Waiting \cup {1}) \in Nat
      /\ Cardinality(Waiting \cup {1}) <= Cardinality(Waiting) + 1
  BY <1>5, OneMore
<1>7. IsFiniteSet(Waiting') /\ Cardinality(Waiting') <= Cardinality(Waiting \cup {1})
  BY <1>4, <1>6, FS_Subset
<1>8. Cardinality(Waiting') \in Nat
  BY <1>7, FS_CardinalityType
<1> QED BY <1>3, <1>5, <1>6, <1>7, <1>8

\* Tags are lost and at most one death is marked: the slots are as free as before.
LEMMA FewerTagged ==
    ASSUME TypeOK, RespawnWaits, perm' \subseteq perm,
           \/ wait' = wait
           \/ wait' = markPermanentCreatureRespawn /\ perm' # perm
    PROVE  RespawnWaits' /\ wait' \in [1 .. Slots -> -1 .. Interval]
<1>1. /\ perm \subseteq Clones /\ IsFiniteSet(perm) /\ Cardinality(perm) \in Nat
      /\ IsFiniteSet(perm') /\ Cardinality(perm') \in Nat
  BY FiniteIds DEF TypeOK, Live
<1>2. /\ Cardinality(perm) + Cardinality(Waiting) <= Slots /\ Cardinality(Waiting) \in Nat
  BY DueOrWaiting DEF RespawnWaits, Waiting
<1>3. /\ Cardinality(perm') <= Cardinality(perm)
      /\ Cardinality(perm') = Cardinality(perm) => perm' = perm
  BY <1>1, FS_Subset
<1>4. CASE wait' = wait
  <2>1. Waiting' = Waiting
    BY <1>4 DEF Waiting
  <2> QED BY <1>1, <1>2, <1>3, <1>4, <2>1, MonstersAssumption DEF RespawnWaits, Waiting, TypeOK
<1>5. CASE wait' = markPermanentCreatureRespawn /\ perm' # perm
  <2>1. Cardinality(perm') + 1 <= Cardinality(perm)
    BY <1>1, <1>3, <1>5
  <2>2. /\ Cardinality(Waiting') \in Nat /\ Cardinality(Waiting') <= Cardinality(Waiting) + 1
        /\ wait' \in [1 .. Slots -> -1 .. Interval]
    BY <1>5, MarkAddsOne
  <2>3. Cardinality(perm') + Cardinality(Waiting') <= Slots
    BY <1>1, <1>2, <2>1, <2>2, MonstersAssumption
  <2> QED BY <2>2, <2>3 DEF RespawnWaits, Waiting
<1> QED BY <1>4, <1>5

\* Seconds pass: no slot begins to wait.
LEMMA SecondsPass ==
    ASSUME TypeOK, RespawnWaits, perm' = perm,
           wait' = [s \in 1 .. Slots |-> IF wait[s] = -1 THEN -1 ELSE wait[s] - 1]
    PROVE  RespawnWaits' /\ wait' \in [1 .. Slots -> -1 .. Interval]
<1>1. \A s \in 1 .. Slots : wait[s] \in -1 .. Interval /\ wait'[s] \in -1 .. Interval
                            /\ (wait'[s] > 0 => wait[s] > 0)
  BY MonstersAssumption DEF TypeOK
<1>2. Waiting' \subseteq Waiting /\ Waiting \subseteq 1 .. Slots
  BY <1>1 DEF Waiting
<1>3. /\ Cardinality(Waiting') <= Cardinality(Waiting)
      /\ Cardinality(Waiting) \in Nat /\ Cardinality(Waiting') \in Nat
  BY <1>2, FiniteIds, FS_Subset
<1>4. Cardinality(perm) \in Nat
  BY FiniteIds DEF TypeOK, Live
<1>5. Cardinality(perm) + Cardinality(Waiting) <= Slots
  BY DEF RespawnWaits, Waiting
<1>6. Cardinality(perm') + Cardinality(Waiting') <= Slots
  BY <1>3, <1>4, <1>5, MonstersAssumption
<1> QED BY <1>1, <1>6 DEF RespawnWaits, Waiting

-----------------------------------------------------------------------------
(* Deaths, arrivals and turns *)

\* A monster dies that has no turn left and that nobody strikes back at.
LEMMA DieKeeps ==
    ASSUME Inv, NEW c \in Live, Die(c), UNCHANGED <<room, online>>,
           turn' \subseteq turn, \A t \in turn' : t[1] # c, duel' = {}
    PROVE  Inv'
<1> USE DEF Inv
<1>1. /\ at' = [at EXCEPT ![c] = Gone] /\ perm' = perm \ {c}
      /\ hates' = [hates EXCEPT ![c] = {}] /\ credit' = credit \ {c}
      /\ wait' = IF c \in perm THEN markPermanentCreatureRespawn ELSE wait
  BY DEF Die
<1>2. Live' = Live \ {c} /\ \A d \in Live' : at'[d] = at[d]
  BY <1>1 DEF TypeOK, Live
<1>3. RespawnWaits' /\ wait' \in [1 .. Slots -> -1 .. Interval]
  BY <1>1, FewerTagged
<1>4. Cardinality({}) <= 1
  BY FS_EmptySet
<1>5. TypeOK'
  BY <1>1, <1>2, <1>3, <1>4 DEF TypeOK, Live
<1>6. TurnIsFresh'
  <2> SUFFICES ASSUME NEW t \in turn' PROVE at'[t[1]] = t[2]
    BY DEF TurnIsFresh
  <2>1. t \in turn /\ t[1] # c
    OBVIOUS
  <2> QED BY <1>1, <2>1 DEF TurnIsFresh, TypeOK
<1>7. CreditIsCurrent' /\ PermAtHome' /\ HasActed'
  BY <1>1, <1>2 DEF CreditIsCurrent, PermAtHome, HasActed, TypeOK, Live
<1> QED BY <1>3, <1>5, <1>6, <1>7

\* Whoever comes into a room finds new monsters there, and the others where they
\* were.
LEMMA ArrivalKeeps ==
    ASSUME Inv, room' \in [Players -> Rooms], online' \subseteq Players,
           NEW r \in Rooms, NEW N \in SUBSET Free,
           at' = [d \in Clones |-> IF d \in N THEN r ELSE at[d]],
           \/ perm' = perm
           \/ HasIds(r) /\ N = Returning(r) /\ perm' = perm \cup N,
           UNCHANGED <<hates, credit, wait>>,
           turn' \subseteq turn, duel' \subseteq Live \X Players, Cardinality(duel') <= 1,
           \A d \in duel', t \in turn' : t[1] # d[1]
    PROVE  Inv'
<1> USE DEF Inv
<1>1. Live' = Live \cup N /\ \A d \in Live : at'[d] = at[d]
  <2>1. r # Gone
    BY MonstersAssumption
  <2> QED BY <2>1 DEF TypeOK, Live, Free
<1>2. perm' = perm => RespawnWaits'
  BY DEF RespawnWaits
<1>3. perm' = perm \cup N /\ N = Returning(r) /\ HasIds(r)
          => RespawnWaits' /\ (r # Home => N = {})
  BY ReturningFits DEF RespawnWaits, Waiting
<1>4. perm' \subseteq Live'
  BY <1>1 DEF TypeOK
<1>5. TypeOK'
  BY <1>1, <1>4 DEF TypeOK, Rooms
<1>6. TurnIsFresh'
  <2> SUFFICES ASSUME NEW t \in turn' PROVE at'[t[1]] = t[2]
    BY DEF TurnIsFresh
  <2>1. t \in turn /\ at[t[1]] = t[2] /\ t[1] \in Clones /\ t[2] \in Rooms
    BY DEF TurnIsFresh, TypeOK
  <2>2. t[1] \in Live
    BY <2>1, MonstersAssumption DEF Live
  <2> QED BY <1>1, <2>1, <2>2
<1>7. PermAtHome'
  BY <1>1, <1>3 DEF PermAtHome, TypeOK, Live, Free
<1>8. CreditIsCurrent' /\ HasActed'
  BY <1>1 DEF CreditIsCurrent, HasActed
<1> QED BY <1>2, <1>3, <1>5, <1>6, <1>7, <1>8

\* A monster that acts is where the copy has it, and has no second turn.
LEMMA ActsFacts ==
    ASSUME Inv, NEW c \in Clones, NEW r \in Rooms, Acts(c, r)
    PROVE  /\ c \in Live /\ at[c] = r /\ duel = {}
           /\ turn' \subseteq turn /\ \A t \in turn' : t[1] # c
<1> USE DEF Inv
<1>1. <<c, r>> \in turn /\ at[c] = r /\ duel = {} /\ turn' = turn \ {<<c, r>>}
  BY DEF Acts, TurnIsFresh
<1>2. ASSUME NEW t \in turn', t[1] = c PROVE FALSE
  <2>1. t \in turn /\ t # <<c, r>> /\ at[t[1]] = t[2] /\ t = <<t[1], t[2]>>
    BY <1>1 DEF TurnIsFresh, TypeOK
  <2> QED BY <1>1, <1>2, <2>1
<1>3. c \in Live
  BY <1>1, MonstersAssumption DEF Live
<1> QED BY <1>1, <1>2, <1>3

\* Blows, and what is struck back, concern a monster that exists.
LEMMA StrikeBackFacts ==
    ASSUME NEW c \in Live, NEW p \in Players, StrikesBack(c, p), \A t \in turn' : t[1] # c
    PROVE  /\ duel' \subseteq Live \X Players /\ Cardinality(duel') <= 1
           /\ \A d \in duel', t \in turn' : t[1] # d[1]
<1>1. CASE duel' = {}
  BY <1>1, FS_EmptySet
<1>2. CASE duel' = {<<c, p>>}
  <2>1. Cardinality({<<c, p>>}) = 1
    BY FS_Singleton
  <2> QED BY <1>2, <2>1
<1> QED BY <1>1, <1>2 DEF StrikesBack

\* A turn, and the blow that may follow it, keep the invariant.
LEMMA TurnKeeps ==
    ASSUME Inv, NEW c \in Clones, Turn(c)
    PROVE  Inv'
<1> USE DEF Inv
<1> PICK r \in Rooms : \/ Idle(c, r) \/ Wander(c, r) \/ Aggro(c, r) \/ Forget(c, r)
                       \/ Strike(c, r) \/ Kill(c, r) \/ Flee(c, r) \/ Deflect(c, r)
  BY DEF Turn
<1>1. Acts(c, r)
  BY DEF Idle, Wander, Aggro, Forget, Strike, Kill, Flee, Deflect
<1>2. c \in Live /\ at[c] = r /\ duel = {} /\ turn' \subseteq turn /\ \A t \in turn' : t[1] # c
  BY <1>1, ActsFacts
<1>3. Targets(c, r) \subseteq Players
  BY DEF Targets, TypeOK
<1>4. ASSUME UNCHANGED <<room, online, at, perm, wait>>, hates' \in [Clones -> SUBSET Players],
             credit' \subseteq credit \cup {c},
             duel' \subseteq Live \X Players, Cardinality(duel') <= 1,
             \A d \in duel', t \in turn' : t[1] # d[1]
      PROVE  Inv'
  BY <1>2, <1>4
  DEF TypeOK, TurnIsFresh, RespawnWaits, CreditIsCurrent, PermAtHome, HasActed, Live
<1>5. CASE Idle(c, r) \/ Aggro(c, r) \/ Forget(c, r)
  <2>1. hates' \in [Clones -> SUBSET Players]
    BY <1>5 DEF Idle, Aggro, Forget, TypeOK
  <2>2. UNCHANGED <<room, online, at, perm, credit, wait, duel>>
    BY <1>5 DEF Idle, Aggro, Forget
  <2> QED BY <1>2, <1>4, <2>1, <2>2, FS_EmptySet
<1>6. CASE Strike(c, r)
  <2>1. PICK p \in Players : StrikesBack(c, p)
    BY <1>3, <1>6 DEF Strike
  <2>2. UNCHANGED <<room, online, at, perm, hates, credit, wait>>
    BY <1>6 DEF Strike
  <2> QED BY <1>2, <1>4, <2>1, <2>2, StrikeBackFacts DEF TypeOK
<1>7. CASE Kill(c, r) \/ Flee(c, r)
  <2>1. PICK p \in Players, to \in Rooms : Enter(p, to) /\ StrikesBack(c, p)
    BY <1>3, <1>7 DEF Kill, Flee, Rooms
  <2>2. UNCHANGED <<online, hates, credit, wait>>
    BY <1>7 DEF Kill, Flee
  <2>3. /\ HasIds(to) /\ room' = [room EXCEPT ![p] = to]
        /\ at' = [d \in Clones |-> IF d \in Returning(to) THEN to ELSE at[d]]
        /\ perm' = perm \cup Returning(to)
    BY <2>1 DEF Enter
  <2>4. Returning(to) \in SUBSET Free
    BY <2>3, ReturningFits
  <2>5. /\ duel' \subseteq Live \X Players /\ Cardinality(duel') <= 1
        /\ \A d \in duel', t \in turn' : t[1] # d[1]
    BY <1>2, <2>1, StrikeBackFacts
  <2>6. room' \in [Players -> Rooms] /\ online' \subseteq Players
    BY <2>2, <2>3 DEF TypeOK
  <2> QED BY <1>2, <2>2, <2>3, <2>4, <2>5, <2>6, ArrivalKeeps
<1>8. CASE Wander(c, r)
  <2>1. /\ c \notin perm /\ at' = [at EXCEPT ![c] = Gone]
        /\ hates' = [hates EXCEPT ![c] = {}] /\ credit' = credit \ {c}
        /\ UNCHANGED <<room, online, perm, wait, duel>>
    BY <1>8 DEF Wander, RemoveCreature
  <2>2. Live' = Live \ {c} /\ \A d \in Live' : at'[d] = at[d]
    BY <2>1 DEF TypeOK, Live
  <2>3. TypeOK'
    BY <1>2, <2>1, <2>2 DEF TypeOK
  <2>4. TurnIsFresh'
    <3> SUFFICES ASSUME NEW t \in turn' PROVE at'[t[1]] = t[2]
      BY DEF TurnIsFresh
    <3> QED BY <1>2, <2>1 DEF TurnIsFresh, TypeOK
  <2> QED
    BY <1>2, <2>1, <2>2, <2>3, <2>4
    DEF RespawnWaits, CreditIsCurrent, PermAtHome, HasActed, TypeOK
<1>9. CASE Deflect(c, r)
  <2>1. UNCHANGED <<room, online>>
    BY <1>9 DEF Deflect
  <2>2. CASE Die(c) /\ UNCHANGED duel
    BY <1>2, <2>1, <2>2, DieKeeps
  <2>3. ASSUME NEW p \in Players, credit' = credit \cup {c}, duel' = {<<c, p>>},
               UNCHANGED <<at, perm, hates, wait>>
        PROVE  Inv'
    <3>1. StrikesBack(c, p)
      BY <2>3 DEF StrikesBack
    <3> QED BY <1>2, <1>4, <2>1, <2>3, <3>1, StrikeBackFacts DEF TypeOK
  <2> QED BY <1>3, <1>9, <2>2, <2>3 DEF Deflect
<1> QED BY <1>5, <1>6, <1>7, <1>8, <1>9

\* So does the blow a player strikes back.
LEMMA RetaliationKeeps == Inv /\ playerRetaliate => Inv'
<1> SUFFICES ASSUME Inv, playerRetaliate PROVE Inv'
  OBVIOUS
<1> USE DEF Inv
<1>1. PICK d \in duel :
          \/ UNCHANGED <<at, perm, hates, credit, wait>>
          \/ /\ hates' = [hates EXCEPT ![d[1]] = @ \cup {d[2]}]
             /\ credit' = credit \cup {d[1]}
             /\ UNCHANGED <<at, perm, wait>>
          \/ Die(d[1])
  BY DEF playerRetaliate
<1>2. /\ d[1] \in Live /\ d[2] \in Players /\ \A t \in turn : t[1] # d[1]
      /\ duel' = {} /\ UNCHANGED <<room, online, turn>>
  BY DEF playerRetaliate, TypeOK, HasActed
<1>3. CASE Die(d[1])
  BY <1>2, <1>3, DieKeeps
<1>4. CASE /\ hates' \in {hates, [hates EXCEPT ![d[1]] = @ \cup {d[2]}]}
           /\ credit' \subseteq credit \cup {d[1]} /\ UNCHANGED <<at, perm, wait>>
  BY <1>2, <1>4, FS_EmptySet
  DEF TypeOK, TurnIsFresh, RespawnWaits, CreditIsCurrent, PermAtHome, HasActed, Live
<1> QED BY <1>1, <1>3, <1>4

-----------------------------------------------------------------------------
(* Commands and seconds *)

\* Between two passes: what players do, and the other updates.
LEMMA CommandsKeep ==
    ASSUME Inv,
           \/ \E p \in Players, c \in Clones : Attack(p, c)
           \/ \E p \in Players, r \in Rooms : Walk(p, r)
           \/ \E p \in Players : Purge(p) \/ Login(p) \/ Logout(p)
           \/ \E r \in Rooms : UpdateRandomSpawns(r)
    PROVE  Inv'
<1> USE DEF Inv
<1>1. turn = {} /\ duel = {} /\ turn' = {} /\ duel' = {} /\ Cardinality({}) = 0
  BY FS_EmptySet DEF Attack, Walk, Purge, Login, Logout, UpdateRandomSpawns, Between
<1>2. ASSUME NEW p \in Players, NEW c \in Clones, Attack(p, c) PROVE Inv'
  <2>1. /\ at[c] = room[p] /\ c \in Live /\ UNCHANGED <<room, online>>
    BY <1>2, MonstersAssumption DEF Attack, TypeOK, Live
  <2>2. CASE Die(c)
    BY <1>1, <2>1, <2>2, DieKeeps
  <2>3. CASE /\ hates' = [hates EXCEPT ![c] = @ \cup {p}] /\ credit' \in {credit, credit \cup {c}}
             /\ UNCHANGED <<at, perm, wait>>
    BY <1>1, <2>1, <2>3
    DEF TypeOK, TurnIsFresh, RespawnWaits, CreditIsCurrent, PermAtHome, HasActed, Live
  <2> QED BY <1>2, <2>2, <2>3 DEF Attack
<1>3. ASSUME NEW p \in Players, NEW r \in Rooms, Walk(p, r) PROVE Inv'
  <2>1. /\ room[p] # r /\ HasIds(r) /\ room' = [room EXCEPT ![p] = r]
        /\ UNCHANGED <<online, hates, credit>>
    BY <1>3 DEF Walk
  <2>2. PICK F \in SUBSET {c \in In(room[p]) : p \in hates[c]} :
            /\ at' = [c \in Clones |-> IF c \in F \cup Returning(r) THEN r ELSE at[c]]
            /\ perm' = LeavesPost(F) \cup Returning(r)
            /\ \/ wait' = wait
               \/ wait' = markPermanentCreatureRespawn /\ F \cap perm # {}
    BY <1>3 DEF Walk
  <2>3. /\ Returning(r) \subseteq Free /\ (r # Home => Returning(r) = {})
        /\ Cardinality(perm \cup Returning(r)) + Cardinality(Waiting) <= Slots
    BY <2>1, ReturningFits
  <2>4. F \subseteq Live /\ \A c \in F : at[c] = room[p]
    BY <2>2 DEF In
  <2>5. Live' = Live \cup Returning(r) /\ \A c \in Live \ F : at'[c] = at[c]
    <3>1. r # Gone
      BY MonstersAssumption
    <3> QED BY <2>2, <2>3, <2>4, <3>1 DEF TypeOK, Live, Free
  <2>6. CASE r = Home
    <3>1. F \cap perm = {}
      BY <2>1, <2>4, <2>6 DEF PermAtHome
    <3>2. perm' = perm \cup Returning(r) /\ wait' = wait
      BY <2>2, <3>1 DEF LeavesPost
    <3>3. RespawnWaits'
      BY <2>3, <3>2 DEF RespawnWaits, Waiting
    <3>4. PermAtHome'
      BY <2>2, <2>3, <2>6, <3>1, <3>2 DEF PermAtHome, TypeOK, Live, Free
    <3>5. TypeOK'
      BY <1>1, <2>1, <2>2, <2>5, <3>2 DEF TypeOK, Rooms
    <3> QED BY <1>1, <2>1, <2>5, <3>3, <3>4, <3>5 DEF TurnIsFresh, CreditIsCurrent, HasActed
  <2>7. CASE r # Home
    <3>1. perm' = perm \ F
      BY <2>2, <2>3, <2>7 DEF LeavesPost
    <3>2. RespawnWaits' /\ wait' \in [1 .. Slots -> -1 .. Interval]
      BY <2>2, <3>1, FewerTagged
    <3>3. PermAtHome'
      BY <2>2, <2>3, <2>7, <3>1 DEF PermAtHome, TypeOK, Live
    <3>4. TypeOK'
      BY <1>1, <2>1, <2>2, <2>5, <3>1, <3>2 DEF TypeOK, Rooms
    <3> QED BY <1>1, <2>1, <2>5, <3>2, <3>3, <3>4 DEF TurnIsFresh, CreditIsCurrent, HasActed
  <2> QED BY <2>6, <2>7
<1>4. ASSUME NEW p \in Players, Purge(p) PROVE Inv'
  <2>1. /\ at' = [c \in Clones |-> IF c \in In(room[p]) THEN Gone ELSE at[c]]
        /\ perm' = perm \ In(room[p]) /\ credit' = credit \ In(room[p])
        /\ UNCHANGED <<hates, room, online, wait>>
    BY <1>4 DEF Purge, DestroyCreatures
  <2>2. Live' = Live \ In(room[p]) /\ \A c \in Live' : at'[c] = at[c]
    BY <2>1 DEF TypeOK, Live
  <2>3. RespawnWaits' /\ wait' \in [1 .. Slots -> -1 .. Interval]
    BY <2>1, FewerTagged
  <2>4. TypeOK'
    BY <1>1, <2>1, <2>2 DEF TypeOK
  <2> QED
    BY <1>1, <2>1, <2>2, <2>3, <2>4
    DEF TurnIsFresh, CreditIsCurrent, PermAtHome, HasActed, TypeOK
<1>5. ASSUME NEW p \in Players, Login(p) \/ Logout(p) PROVE Inv'
  <2>1. online' \subseteq Players /\ UNCHANGED <<room, at, perm, hates, credit, wait>>
    BY <1>5 DEF Login, Logout, TypeOK
  <2> QED
    BY <1>1, <2>1
    DEF TypeOK, TurnIsFresh, RespawnWaits, CreditIsCurrent, PermAtHome, HasActed, Live
<1>6. ASSUME NEW r \in Rooms, UpdateRandomSpawns(r) PROVE Inv'
  <2>1. /\ Live # Clones /\ at' = [c \in Clones |-> IF c \in Fresh(1) THEN r ELSE at[c]]
        /\ UNCHANGED <<room, online, perm, hates, credit, wait>>
    BY <1>6 DEF UpdateRandomSpawns
  <2>2. Cardinality(Free) \in Nat /\ Cardinality(Free) # 0
    BY <2>1, FiniteIds, FS_EmptySet DEF Free, Live
  <2>3. Fresh(1) \in SUBSET Free
    BY <2>2, FreshIds
  <2> QED BY <1>1, <2>1, <2>3, ArrivalKeeps DEF TypeOK
<1> QED BY <1>2, <1>3, <1>4, <1>5, <1>6

\* The invariant holds in the loaded world.
LEMMA InitInv == Init => Inv
<1> SUFFICES ASSUME Init PROVE Inv
  OBVIOUS
<1>1. Live = {} /\ Waiting = {}
  BY DEF Init, Live, Waiting
<1>2. Cardinality({}) = 0
  BY FS_EmptySet
<1>3. -1 \in -1 .. Interval
  BY MonstersAssumption
<1>4. RespawnWaits
  <2>1. RespawnWaits <=> Cardinality(perm) + Cardinality(Waiting) <= Slots
    BY DEF RespawnWaits, Waiting
  <2> QED BY <1>1, <1>2, <2>1, MonstersAssumption DEF Init
<1>5. TypeOK
  BY <1>1, <1>2, <1>3 DEF Init, TypeOK
<1> QED
  BY <1>1, <1>4, <1>5 DEF Init, Inv, TurnIsFresh, CreditIsCurrent, PermAtHome, HasActed

\* Every step keeps the invariant.
LEMMA StepInv == Inv /\ [Next]_vars => Inv'
<1> SUFFICES ASSUME Inv, [Next]_vars PROVE Inv'
  OBVIOUS
<1>1. CASE Second
  <2>1. /\ duel = {} /\ turn' = {<<c, at[c]>> : c \in {d \in Live : Holds(at[d])}}
        /\ wait' = [s \in 1 .. Slots |-> IF wait[s] = -1 THEN -1 ELSE wait[s] - 1]
        /\ UNCHANGED <<room, online, at, perm, hates, credit, duel>>
    BY <1>1 DEF Second
  <2>2. RespawnWaits' /\ wait' \in [1 .. Slots -> -1 .. Interval]
    BY <2>1, SecondsPass DEF Inv
  <2>3. \A c \in Live : at[c] \in Rooms
    BY DEF Inv, TypeOK, Live
  <2>4. TypeOK'
    BY <2>1, <2>2, <2>3 DEF Inv, TypeOK, Live
  <2> QED
    BY <2>1, <2>2, <2>4 DEF Inv, TurnIsFresh, CreditIsCurrent, PermAtHome, HasActed, Live
<1>2. CASE UNCHANGED vars
  BY <1>2
  DEF vars, Inv, TypeOK, TurnIsFresh, RespawnWaits, CreditIsCurrent, PermAtHome, HasActed, Live
<1> QED BY <1>1, <1>2, TurnKeeps, RetaliationKeeps, CommandsKeep DEF Next

\* The inductive invariant behind the theorems on monsters.
THEOREM MonstersInvariant == Spec => []Inv
<1> QED BY InitInv, StepInv, PTL DEF Spec

\* A pass acts on monsters where its copy has them, although every turn before may
\* have moved or killed a player, filled a room, or killed the monster that acted.
THEOREM CopiesStayFresh == Spec => []TurnIsFresh
<1>1. Inv => TurnIsFresh
  BY DEF Inv
<1> QED BY <1>1, MonstersInvariant, PTL

\* Tags, debts and duels are those of monsters that exist.
THEOREM MonsterTypes == Spec => []TypeOK
<1>1. Inv => TypeOK
  BY DEF Inv
<1> QED BY <1>1, MonstersInvariant, PTL

\* A permanent slot is not filled again before its time, whoever comes and goes.
THEOREM SlotsAreNotFilledTwice == Spec => []RespawnWaits
<1>1. Inv => RespawnWaits
  BY DEF Inv
<1> QED BY <1>1, MonstersInvariant, PTL

\* No monster inherits the damage an earlier one with its id has taken.
THEOREM LedgersAreCurrent == Spec => []CreditIsCurrent
<1>1. Inv => CreditIsCurrent
  BY DEF Inv
<1> QED BY <1>1, MonstersInvariant, PTL

-----------------------------------------------------------------------------
(* The reward *)

\* Multiplying keeps the order of naturals.
LEMMA TimesMonotonic ==
    ASSUME NEW a \in Nat, NEW b \in Nat, NEW f \in Nat, a <= b
    PROVE  a * f \in Nat /\ b * f \in Nat /\ a * f <= b * f
<1>1. PICK d \in Nat : b = a + d
  BY b - a \in Nat
<1>2. b * f = a * f + d * f
  BY <1>1
<1>3. a * f \in Nat /\ d * f \in Nat
  OBVIOUS
<1> QED BY <1>2, <1>3

\* What a group adds never lifts the gain above twice the experience.
LEMMA BonusIsBounded ==
    ASSUME NEW exp \in Nat, NEW gain \in 0 .. exp, NEW leads \in BOOLEAN, NEW followers \in Nat
    PROVE  gain + monsterDeathGroupBonus(exp, gain, leads, followers) <= 2 * exp
<1> DEFINE q == IF leads THEN gain \div 2 ELSE gain \div 3
<1>1. CASE followers = 0 \/ gain \in {0, exp}
  BY <1>1 DEF monsterDeathGroupBonus
<1>2. CASE ~(followers = 0 \/ gain \in {0, exp}) /\ gain + q * followers > 2 * exp
  BY <1>2 DEF monsterDeathGroupBonus
<1>3. CASE ~(followers = 0 \/ gain \in {0, exp}) /\ ~(gain + q * followers > 2 * exp) /\ leads
  <2>1. /\ gain \div 5 \in Nat /\ gain \div 2 \in Nat /\ 2 * (gain \div 5) <= gain \div 2
    OBVIOUS
  <2>2. (gain \div 5) * (followers + 1) <= (2 * (gain \div 5)) * followers
    <3> DEFINE g == gain \div 5
    <3>1. g \in Nat /\ followers \in Nat /\ followers >= 1
      BY <1>3, <2>1
    <3> HIDE DEF g
    <3>2. (2 * g) * followers = g * (2 * followers)
      BY <3>1
    <3>3. (followers + 1) * g <= (2 * followers) * g
      BY <3>1, TimesMonotonic
    <3> QED BY <3>1, <3>2, <3>3 DEF g
  <2>3. (2 * (gain \div 5)) * followers <= (gain \div 2) * followers
    BY <2>1, TimesMonotonic
  <2>4. monsterDeathGroupBonus(exp, gain, leads, followers) = (gain \div 5) * (followers + 1)
    BY <1>3 DEF monsterDeathGroupBonus
  <2>5. gain + (gain \div 2) * followers <= 2 * exp
    BY <1>3
  <2> DEFINE five == (gain \div 5) * (followers + 1)
             twice == (2 * (gain \div 5)) * followers
             half == (gain \div 2) * followers
  <2>6. five \in Nat /\ twice \in Nat /\ half \in Nat /\ gain \in Nat
    BY <2>1
  <2>7. five <= twice /\ twice <= half /\ gain + half <= 2 * exp
    BY <2>2, <2>3, <2>5
  <2>8. gain + five <= 2 * exp
    <3> HIDE DEF five, twice, half
    <3> QED BY <2>6, <2>7
  <2> QED BY <2>4, <2>8
<1>4. CASE ~(followers = 0 \/ gain \in {0, exp}) /\ ~(gain + q * followers > 2 * exp) /\ ~leads
  <2>1. gain \div 4 \in Nat /\ gain \div 3 \in Nat /\ gain \div 4 <= gain \div 3
    OBVIOUS
  <2>2. (gain \div 4) * followers <= (gain \div 3) * followers
    BY <2>1, TimesMonotonic
  <2>3. monsterDeathGroupBonus(exp, gain, leads, followers) = (gain \div 4) * followers
    BY <1>4 DEF monsterDeathGroupBonus
  <2> QED BY <1>4, <2>1, <2>2, <2>3
<1> QED BY <1>1, <1>2, <1>3, <1>4

\* A death is never worth more than twice the monster's experience to anyone,
\* whatever the ledger says and however many follow.
THEOREM RewardsAreBounded == Spec => []RewardIsBounded
<1>1. RewardIsBounded
  <2>1. ASSUME NEW exp \in Nat, NEW damage \in Nat
        PROVE  expGain(exp, damage, HpMax) \in 0 .. exp
    <3> DEFINE product == exp * damage
               share == product \div HpMax
    <3>1. product \in Nat
      OBVIOUS
    <3>2. share \in Nat
      <4> HIDE DEF product
      <4> QED BY <3>1, MonstersAssumption
    <3>3. expGain(exp, damage, HpMax) = IF share > exp THEN exp ELSE share
      BY DEF expGain
    <3> HIDE DEF share
    <3> QED BY <3>2, <3>3
  <2>2. ASSUME NEW exp \in Exps, NEW damage \in 0 .. HpMax + 1, NEW leads \in BOOLEAN,
               NEW followers \in Groups
        PROVE  LET gain == expGain(exp, damage, HpMax) IN
               gain + monsterDeathGroupBonus(exp, gain, leads, followers) <= 2 * exp
    <3>1. exp \in Nat /\ damage \in Nat /\ followers \in Nat
      BY MonstersAssumption
    <3> QED BY <2>1, <3>1, BonusIsBounded
  <2> QED BY <2>2 DEF RewardIsBounded
<1> QED BY <1>1, PTL
=============================================================================
