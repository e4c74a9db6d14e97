--------------------------- MODULE PlacementProofs ---------------------------
(***************************************************************************)
(* That the object graph of Placement stays consistent, for any sets of    *)
(* rooms, creatures, banks and objects; and, at the end, what the restarts *)
(* of Restore leave of it, which is Placement composed with the files.     *)
(***************************************************************************)
EXTENDS Restore, FiniteSetTheorems, WellFoundedInduction, TLAPS

\* What a wandering monster left behind is in no list, so no mutator can find
\* it again.
StraysAreLost ==
    \A o \in strayed : loc[o].in \in Monsters /\ \A h \in Holders : o \notin list[h]

Inv == TypeOK /\ HoldersAgree /\ EquipmentIsWorn /\ NoCycles /\ StraysAreLost

\* A location is Nowhere exactly when its holder is None, for the locations
\* before a step and after it.
LEMMA LocationFacts ==
    ASSUME NEW l \in Locations \cup {Nowhere}
    PROVE  /\ l # Nowhere <=> l.in \in Holders
           /\ l.in \in Holders \cup {None}
           /\ l.slot \in Slots \cup {Unworn}
BY PlacementAssumption DEF Locations, Nowhere, At

\* At and Worn make locations.
LEMMA LocationForms ==
    /\ \A h \in Holders : At(h) \in Locations /\ At(h).in = h /\ At(h) # Nowhere
    /\ \A h \in Holders, s \in Slots :
          Worn(h, s) \in Locations /\ Worn(h, s).in = h /\ Worn(h, s) # Nowhere
BY PlacementAssumption DEF Locations, Nowhere, At, Worn

\* The players, rooms, banks, monsters and objects are different things.
LEMMA HolderFacts ==
    /\ Rooms \subseteq Holders /\ Players \subseteq Holders /\ Monsters \subseteq Holders
    /\ Banks \subseteq Holders /\ Objects \subseteq Holders
    /\ None \notin Holders /\ None \notin Objects
    /\ \A h \in Rooms : h \notin Players /\ h \notin Monsters /\ h \notin Banks /\ h \notin Objects
    /\ \A h \in Players : h \notin Monsters /\ h \notin Banks /\ h \notin Objects
    /\ \A h \in Monsters : h \notin Banks /\ h \notin Objects
    /\ \A h \in Banks : h \notin Objects
BY PlacementAssumption DEF Holders, Creatures

-----------------------------------------------------------------------------
(* Trees. *)

\* A tree is closed under contents, and all of it but its root is listed by
\* something in it.
LEMMA TreeClosed ==
    ASSUME list \in [Holders -> SUBSET Objects], NEW o \in Objects
    PROVE  /\ Tree(o) \subseteq Objects /\ o \in Tree(o)
           /\ \A y \in Tree(o) : list[y] \subseteq Tree(o)
           /\ \A x \in Tree(o) : x # o => \E y \in Tree(o) : x \in list[y]
<1>1. Tree(o) \subseteq Objects /\ o \in Tree(o)
  BY DEF Tree
<1>2. ASSUME NEW y \in Tree(o), NEW x \in list[y] PROVE x \in Tree(o)
  <2>1. x \in Objects
    BY <1>1, <1>2, HolderFacts
  <2>2. ASSUME NEW S \in SUBSET Objects, o \in S, \A z \in S : list[z] \subseteq S
        PROVE  x \in S
    <3>1. y \in S
      BY <2>2 DEF Tree
    <3> QED BY <3>1, <2>2, <1>2
  <2> QED BY <2>1, <2>2 DEF Tree
<1>3. ASSUME NEW x \in Tree(o), x # o PROVE \E y \in Tree(o) : x \in list[y]
  <2> DEFINE S == Tree(o) \ {x}
  <2>1. S \in SUBSET Objects /\ o \in S /\ x \notin S
    BY <1>1, <1>3
  <2>2. ~ \A y \in S : list[y] \subseteq S
    BY <2>1, <1>3 DEF Tree
  <2>3. PICK y \in S : ~(list[y] \subseteq S)
    BY <2>2
  <2>4. PICK z \in list[y] : z \notin S
    BY <2>3
  <2>5. z \in Tree(o)
    BY <2>4, <1>2
  <2> QED BY <2>3, <2>4, <2>5
<1> QED BY <1>1, <1>2, <1>3

\* The same in a typed state.
LEMMA TreeFacts ==
    ASSUME TypeOK, NEW o \in Objects
    PROVE  /\ Tree(o) \subseteq Objects /\ o \in Tree(o)
           /\ \A y \in Tree(o) : list[y] \subseteq Tree(o)
           /\ \A x \in Tree(o) : x # o => \E y \in Tree(o) : x \in list[y]
BY TreeClosed DEF TypeOK

\* A tree of a listed object consists of objects of the world, and all but the
\* root are located in objects of the tree.
LEMMA TreeIsLive ==
    ASSUME Inv, NEW o \in live
    PROVE  /\ Tree(o) \subseteq live
           /\ \A x \in Tree(o) : x # o => loc[x].in \in Tree(o) /\ x \notin strayed
<1>1. o \in Objects
  BY DEF live
<1>2. \A x \in Tree(o) : x # o => \E y \in Tree(o) : x \in list[y]
  BY <1>1, TreeFacts DEF Inv
<1>3. \A y \in Tree(o) : \A x \in list[y] : x \in live /\ loc[x].in = y /\ x \notin strayed
  BY <1>1, TreeFacts, HolderFacts DEF Inv, HoldersAgree, StraysAreLost
<1> QED BY <1>2, <1>3

-----------------------------------------------------------------------------
(* Cycles. *)

\* A step that leaves objects where they are or moves them out of all objects
\* makes no cycle.
LEMMA NoNewCycles ==
    ASSUME TypeOK, NoCycles,
           \A x \in live' : loc'[x].in \in Objects => x \in live /\ loc'[x].in = loc[x].in
    PROVE  NoCycles'
<1> SUFFICES ASSUME NEW S \in SUBSET live', S # {}, \A x \in S : loc'[x].in \in S
             PROVE  FALSE
  BY DEF NoCycles
<1>1. S \subseteq Objects
  BY DEF live
<1>2. \A x \in S : x \in live /\ loc[x].in \in S
  BY <1>1
<1> QED BY <1>2 DEF NoCycles

\* No object comes to lie in itself when o moves into a container that is not
\* inside it.
LEMMA MoveMakesNoCycle ==
    ASSUME TypeOK, NoCycles, NEW o \in live, NEW l \in Locations,
           l.in \in Objects => ~Inside(l.in, o),
           loc' = [loc EXCEPT ![o] = l]
    PROVE  NoCycles'
<1>1. loc \in [Objects -> Locations \cup {Nowhere}] /\ o \in Objects
  BY DEF TypeOK, live
<1>2. \A x \in Objects : x # o => loc'[x] = loc[x]
  BY <1>1
<1>3. loc'[o] = l
  BY <1>1
<1>4. CASE l.in \notin Objects
  <2>1. \A x \in live' : loc'[x].in \in Objects => x \in live /\ loc'[x].in = loc[x].in
    BY <1>2, <1>3, <1>4 DEF live
  <2> QED BY <2>1, NoNewCycles
<1>5. CASE l.in \in Objects
  <2>1. PICK T \in SUBSET Objects :
            /\ l.in \in T /\ o \notin T
            /\ \A x \in T : loc[x].in \in Objects => loc[x].in \in T
    BY <1>5 DEF Inside
  <2> SUFFICES ASSUME NEW S \in SUBSET live', S # {}, \A x \in S : loc'[x].in \in S
               PROVE  FALSE
    BY DEF NoCycles
  <2>2. S \subseteq Objects /\ S \subseteq live
    BY <1>1, <1>2 DEF live
  <2>3. CASE o \notin S
    BY <1>2, <2>2, <2>3 DEF NoCycles
  <2>4. CASE o \in S
    <3> DEFINE U == T \cap S
    <3>1. U # {} /\ U \subseteq live
      BY <1>3, <2>1, <2>2, <2>4
    <3>2. \A x \in U : loc[x].in \in U
      BY <1>2, <2>1, <2>2
    <3> QED BY <3>1, <3>2 DEF NoCycles
  <2> QED BY <2>3, <2>4
<1> QED BY <1>4, <1>5

-----------------------------------------------------------------------------
(* The shared mutators. *)

\* removeObjectFromHolderLocked and addObjectToHolderLocked keep everything in
\* step when the destination exists and is not inside the object.
LEMMA MoveInv ==
    ASSUME Inv, NEW o \in Objects, Found(o), NEW l \in Locations,
           l.in \in Rooms \cup Players \cup live,
           l.slot = Unworn \/ l.in \in Players,
           l.in \in Objects => ~Inside(l.in, o),
           Move(o, l)
    PROVE  Inv'
<1> USE DEF Inv
<1>1. /\ loc \in [Objects -> Locations \cup {Nowhere}]
      /\ list \in [Holders -> SUBSET Objects]
      /\ equip \in [Players -> [Slots -> Objects \cup {None}]]
      /\ UNCHANGED <<alive, scavenged, strayed>>
  BY DEF TypeOK, Move
<1>2. o \in live /\ o \in list[loc[o].in] /\ loc[o].in \in Holders /\ l.in \in Holders
  BY <1>1, LocationFacts, HolderFacts DEF Found, live
<1>3. o \notin strayed
  BY <1>2 DEF StraysAreLost
<1>4. \A x \in Objects : loc'[x] = IF x = o THEN l ELSE loc[x]
  BY <1>1 DEF Move
<1>5. l # Nowhere /\ live' = live
  BY <1>2, <1>4, LocationFacts DEF live
<1>6. \A h \in Holders : list'[h] = IF h = l.in THEN (list[h] \ {o}) \cup {o}
                                    ELSE IF h = loc[o].in THEN list[h] \ {o} ELSE list[h]
  <2>1. CASE loc[o].in = l.in
    BY <1>1, <1>2, <2>1 DEF Move, Relist
  <2>2. CASE loc[o].in # l.in
    BY <1>1, <1>2, <2>2 DEF Move, Relist
  <2> QED BY <2>1, <2>2
<1>7. \A p \in Players, s \in Slots :
         equip'[p][s] = IF p = l.in /\ s = l.slot THEN o
                        ELSE IF p = loc[o].in /\ equip[p][s] = o THEN None ELSE equip[p][s]
  BY <1>1 DEF Move, Reequip, Unequip, TakeOff
<1>8. loc' \in [Objects -> Locations \cup {Nowhere}] /\ list' \in [Holders -> SUBSET Objects]
      /\ equip' \in [Players -> [Slots -> Objects \cup {None}]]
  BY <1>1 DEF Move, Relist, Reequip, Unequip, TakeOff
<1>9. TypeOK'
  <2>1. ASSUME NEW x \in live' \ strayed' PROVE Exists(loc[x].in)'
    <3>1. x \in live \ strayed /\ x \in Objects
      BY <1>1, <1>5, <2>1 DEF live
    <3>2. Exists(loc[x].in)
      BY <3>1 DEF TypeOK
    <3> QED BY <1>1, <1>4, <1>5, <3>1, <3>2 DEF Exists
  <2> QED BY <1>1, <1>5, <1>8, <2>1 DEF TypeOK
<1>10. HoldersAgree'
  <2>1. ASSUME NEW h \in Holders, NEW x \in list'[h] PROVE x \in live' /\ loc'[x].in = h
    <3>1. x \in Objects
      BY <1>8, <2>1
    <3>2. CASE x = o
      <4>1. h = l.in
        BY <1>2, <1>6, <2>1, <3>2 DEF HoldersAgree
      <4> QED BY <1>2, <1>4, <1>5, <3>2, <4>1
    <3>3. CASE x # o
      <4>1. x \in list[h]
        BY <1>6, <2>1, <3>3
      <4>2. x \in live /\ loc[x].in = h
        BY <4>1 DEF HoldersAgree
      <4> QED BY <1>4, <1>5, <3>1, <3>3, <4>2
    <3> QED BY <3>2, <3>3
  <2>2. ASSUME NEW x \in live' \ strayed' PROVE x \in list'[loc'[x].in]
    <3>1. x \in live \ strayed /\ x \in Objects /\ x \in list[loc[x].in] /\ loc[x].in \in Holders
      BY <1>1, <1>5, <2>2, LocationFacts DEF HoldersAgree, live
    <3> QED BY <1>2, <1>4, <1>6, <3>1
  <2> QED BY <2>1, <2>2 DEF HoldersAgree
<1>11. EquipmentIsWorn'
  <2> SUFFICES ASSUME NEW p \in Players, NEW s \in Slots, equip'[p][s] # None
               PROVE  loc'[equip'[p][s]] = Worn(p, s)
    BY DEF EquipmentIsWorn
  <2>1. CASE p = l.in /\ s = l.slot
    BY <1>4, <1>7, <2>1 DEF Worn, Locations
  <2>2. CASE ~(p = l.in /\ s = l.slot)
    <3>1. equip'[p][s] = equip[p][s] /\ (p = loc[o].in => equip[p][s] # o)
      BY <1>7, <2>2
    <3>2. loc[equip[p][s]] = Worn(p, s) /\ equip[p][s] \in Objects
      BY <1>1, <3>1 DEF EquipmentIsWorn
    <3>3. equip[p][s] # o
      BY <3>1, <3>2 DEF Worn
    <3> QED BY <1>4, <3>1, <3>2, <3>3
  <2> QED BY <2>1, <2>2
<1>12. NoCycles'
  BY <1>2, MoveMakesNoCycle DEF Move
<1>13. StraysAreLost'
  <2>1. ASSUME NEW x \in strayed
        PROVE  loc'[x].in \in Monsters /\ \A h \in Holders : x \notin list'[h]
    <3>1. x # o /\ x \in Objects
      BY <1>3 DEF TypeOK, live
    <3>2. loc[x].in \in Monsters /\ \A h \in Holders : x \notin list[h]
      BY DEF StraysAreLost
    <3> QED BY <1>4, <1>6, <3>1, <3>2
  <2> QED BY <1>1, <2>1 DEF StraysAreLost
<1> QED BY <1>9, <1>10, <1>11, <1>12, <1>13

\* The objects gone are deleted with all that they hold, while new objects M
\* appear in room r.
Deletion(gone, M, r) ==
    /\ gone \subseteq live /\ gone \cap strayed = {}
    /\ \A y \in gone : list[y] \subseteq gone
    /\ M \subseteq Objects /\ M \cap (live \ gone) = {} /\ (M # {} => r \in Rooms)
    /\ loc' \in [Objects -> Locations \cup {Nowhere}]
    /\ \A x \in Objects : loc'[x] = IF x \in M THEN At(r)
                                    ELSE IF x \in gone THEN Nowhere ELSE loc[x]
    /\ list' \in [Holders -> SUBSET Objects]
    /\ \A h \in Holders : list'[h] = (list[h] \ gone) \cup {x \in M : h = r}
    /\ equip' = [p \in Players |->
                    [s \in Slots |-> IF equip[p][s] \in gone THEN None ELSE equip[p][s]]]
    /\ alive' \subseteq alive /\ scavenged' \subseteq alive' /\ strayed' = strayed
    /\ \A x \in live \ (gone \cup strayed) : loc[x].in \notin alive \ alive'

\* Deleting whole trees, perhaps with new objects in their place.
LEMMA DeletionInv ==
    ASSUME Inv, NEW gone, NEW M, NEW r, Deletion(gone, M, r)
    PROVE  Inv'
<1> USE DEF Inv, Deletion
<1>1. /\ loc \in [Objects -> Locations \cup {Nowhere}]
      /\ list \in [Holders -> SUBSET Objects]
      /\ equip \in [Players -> [Slots -> Objects \cup {None}]]
      /\ alive \subseteq Monsters /\ strayed \subseteq live
  BY DEF TypeOK
<1>0. \A x \in M : /\ loc'[x] = At(r) /\ At(r) \in Locations /\ At(r) # Nowhere
                   /\ loc'[x].in = r /\ r \in Rooms /\ r \in Holders /\ r \notin Objects
  BY LocationForms, HolderFacts
<1>2. live' = (live \ gone) \cup M
  BY <1>0, <1>1 DEF live
<1>3. \A x \in live' \ M : x \in Objects /\ loc'[x] = loc[x] /\ x \in live /\ x \notin gone
  BY <1>2 DEF live
<1>4. \A x \in live \ strayed : x \in list[loc[x].in] /\ loc[x].in \in Holders /\ Exists(loc[x].in)
  BY <1>1, LocationFacts DEF HoldersAgree, TypeOK, live
<1>5. \A x \in live' \ (strayed' \cup M) : loc[x].in \notin gone
  BY <1>3, <1>4
<1>6. TypeOK'
  <2>1. equip' \in [Players -> [Slots -> Objects \cup {None}]]
    BY <1>1
  <2>2. strayed' \subseteq live'
    BY <1>1, <1>2
  <2>3. ASSUME NEW x \in live' \ strayed' PROVE Exists(loc[x].in)'
    <3>1. CASE x \in M
      BY <1>0, <3>1 DEF Exists
    <3>2. CASE x \notin M
      <4>1. x \in live \ (gone \cup strayed) /\ loc'[x] = loc[x]
        BY <1>3, <2>3, <3>2
      <4>2. Exists(loc[x].in) /\ loc[x].in \notin gone /\ loc[x].in \notin alive \ alive'
        BY <1>4, <1>5, <2>3, <3>2, <4>1
      <4> QED BY <1>2, <4>1, <4>2 DEF Exists
    <3> QED BY <3>1, <3>2
  <2> QED BY <1>1, <2>1, <2>2, <2>3 DEF TypeOK
<1>7. HoldersAgree'
  <2>1. ASSUME NEW h \in Holders, NEW x \in list'[h] PROVE x \in live' /\ loc'[x].in = h
    <3>1. CASE x \in M /\ h = r
      BY <1>0, <1>2, <3>1
    <3>2. CASE x \in list[h] /\ x \notin gone
      <4>1. x \in live /\ loc[x].in = h /\ x \notin M
        BY <3>2 DEF HoldersAgree
      <4> QED BY <1>2, <1>3, <3>2, <4>1
    <3> QED BY <2>1, <3>1, <3>2
  <2>2. ASSUME NEW x \in live' \ strayed' PROVE x \in list'[loc'[x].in]
    <3>1. CASE x \in M
      BY <1>0, <3>1
    <3>2. CASE x \notin M
      BY <1>3, <1>4, <2>2, <3>2
    <3> QED BY <3>1, <3>2
  <2> QED BY <2>1, <2>2 DEF HoldersAgree
<1>8. EquipmentIsWorn'
  <2> SUFFICES ASSUME NEW p \in Players, NEW s \in Slots, equip'[p][s] # None
               PROVE  loc'[equip'[p][s]] = Worn(p, s)
    BY DEF EquipmentIsWorn
  <2>1. equip'[p][s] = equip[p][s] /\ equip[p][s] \notin gone /\ equip[p][s] \in Objects
    BY <1>1
  <2>2. loc[equip[p][s]] = Worn(p, s) /\ equip[p][s] \in live
    BY <2>1, LocationForms, HolderFacts DEF EquipmentIsWorn, live
  <2> QED BY <2>1, <2>2
<1>9. NoCycles'
  BY <1>0, <1>3, NoNewCycles
<1>10. StraysAreLost'
  <2>1. ASSUME NEW x \in strayed
        PROVE  loc'[x].in \in Monsters /\ \A h \in Holders : x \notin list'[h]
    <3>1. x \in Objects /\ x \in live /\ x \notin gone /\ x \notin M
      BY <1>1 DEF live
    <3> QED BY <3>1 DEF StraysAreLost
  <2> QED BY <2>1 DEF StraysAreLost
<1> QED BY <1>6, <1>7, <1>8, <1>9, <1>10

\* Deleting without creating.
LEMMA PlainDeletionInv ==
    ASSUME Inv, NEW gone \in SUBSET live, gone \cap strayed = {},
           \A y \in gone : list[y] \subseteq gone,
           loc' = [x \in Objects |-> IF x \in gone THEN Nowhere ELSE loc[x]],
           list' = [h \in Holders |-> list[h] \ gone],
           equip' = [p \in Players |->
                        [s \in Slots |-> IF equip[p][s] \in gone THEN None ELSE equip[p][s]]],
           alive' \subseteq alive, scavenged' \subseteq alive', strayed' = strayed,
           \A x \in live \ (gone \cup strayed) : loc[x].in \notin alive \ alive'
    PROVE  Inv'
<1>1. /\ loc \in [Objects -> Locations \cup {Nowhere}]
      /\ list \in [Holders -> SUBSET Objects]
  BY DEF Inv, TypeOK
<1>2. /\ loc' \in [Objects -> Locations \cup {Nowhere}]
      /\ \A x \in Objects : loc'[x] = IF x \in {} THEN At(None)
                                     ELSE IF x \in gone THEN Nowhere ELSE loc[x]
  BY <1>1
<1>3. /\ list' \in [Holders -> SUBSET Objects]
      /\ \A h \in Holders : list'[h] = (list[h] \ gone) \cup {x \in {} : h = None}
  BY <1>1
<1>4. Deletion(gone, {}, None)
  BY <1>2, <1>3 DEF Deletion
<1> QED BY <1>4, DeletionInv

\* What does not exist lists nothing.
LEMMA TheDeadHoldNothing ==
    ASSUME Inv, NEW h \in (Objects \ live) \cup (Monsters \ alive)
    PROVE  list[h] = {}
<1> USE DEF Inv
<1>1. h \in Holders /\ ~Exists(h)
  BY HolderFacts, PlacementAssumption DEF Exists, live, TypeOK
<1>2. \A x \in list[h] : x \in live \ strayed /\ loc[x].in = h
  BY <1>1 DEF HoldersAgree, StraysAreLost
<1> QED BY <1>1, <1>2 DEF TypeOK

\* New objects N, in things that exist or in one another without a cycle.
LEMMA CreationInv ==
    ASSUME Inv, NEW N \in SUBSET (Objects \ live),
           loc' \in [Objects -> Locations \cup {Nowhere}],
           \A x \in Objects \ N : loc'[x] = loc[x],
           \A x \in N : /\ loc'[x] \in Locations
                        /\ loc'[x].in \in Rooms \cup Players \cup Banks \cup alive' \cup N,
           \A S \in SUBSET N : S # {} => \E x \in S : loc'[x].in \notin S,
           list' = [h \in Holders |-> list[h] \cup {x \in N : loc'[x].in = h}],
           alive \subseteq alive', alive' \subseteq Monsters,
           UNCHANGED <<equip, scavenged, strayed>>
    PROVE  Inv'
<1> USE DEF Inv
<1>1. /\ loc \in [Objects -> Locations \cup {Nowhere}]
      /\ list \in [Holders -> SUBSET Objects]
      /\ equip \in [Players -> [Slots -> Objects \cup {None}]]
      /\ scavenged \subseteq alive /\ strayed \subseteq live
  BY DEF TypeOK
<1>2. \A x \in N : x \in Objects /\ loc'[x] # Nowhere /\ loc'[x].in \in Holders
  BY LocationFacts, PlacementAssumption, HolderFacts DEF Locations, Nowhere, At
<1>3. live' = live \cup N
  BY <1>2 DEF live
<1>4. \A x \in live : x \in Objects /\ x \notin N /\ loc'[x] = loc[x]
  BY DEF live
<1>5. \A x \in live \ strayed : x \in list[loc[x].in] /\ loc[x].in \in Holders /\ Exists(loc[x].in)
  BY <1>1, LocationFacts DEF HoldersAgree, TypeOK, live
<1>6. TypeOK'
  <2>1. list' \in [Holders -> SUBSET Objects]
    BY <1>1, <1>2
  <2>2. ASSUME NEW x \in live' \ strayed' PROVE Exists(loc[x].in)'
    <3>1. CASE x \in N
      BY <1>3, <3>1 DEF Exists
    <3>2. CASE x \in live
      BY <1>3, <1>4, <1>5, <2>2, <3>2 DEF Exists
    <3> QED BY <1>3, <2>2, <3>1, <3>2
  <2> QED BY <1>1, <1>3, <2>1, <2>2 DEF TypeOK
<1>7. HoldersAgree'
  <2>1. ASSUME NEW h \in Holders, NEW x \in list'[h] PROVE x \in live' /\ loc'[x].in = h
    <3>1. CASE x \in list[h]
      BY <1>3, <1>4, <3>1 DEF HoldersAgree
    <3>2. CASE x \in N /\ loc'[x].in = h
      BY <1>3, <3>2
    <3> QED BY <2>1, <3>1, <3>2
  <2>2. ASSUME NEW x \in live' \ strayed' PROVE x \in list'[loc'[x].in]
    <3>1. CASE x \in N
      BY <1>2, <3>1
    <3>2. CASE x \in live
      BY <1>4, <1>5, <2>2, <3>2
    <3> QED BY <1>3, <2>2, <3>1, <3>2
  <2> QED BY <2>1, <2>2 DEF HoldersAgree
<1>8. EquipmentIsWorn'
  <2> SUFFICES ASSUME NEW p \in Players, NEW s \in Slots, equip[p][s] # None
               PROVE  loc'[equip[p][s]] = Worn(p, s)
    BY DEF EquipmentIsWorn
  <2>1. equip[p][s] \in Objects /\ loc[equip[p][s]] = Worn(p, s)
    BY <1>1 DEF EquipmentIsWorn
  <2>2. equip[p][s] \in live
    BY <2>1, LocationForms, HolderFacts DEF live
  <2> QED BY <1>4, <2>1, <2>2
<1>9. NoCycles'
  <2> SUFFICES ASSUME NEW S \in SUBSET live', S # {}, \A x \in S : loc'[x].in \in S
               PROVE  FALSE
    BY DEF NoCycles
  <2> DEFINE U == S \cap live
  <2>1. \A x \in U : loc[x].in \in U
    <3> SUFFICES ASSUME NEW x \in U PROVE loc[x].in \in U
      OBVIOUS
    <3>1. loc[x].in \in S /\ loc[x].in \in Objects
      BY <1>2, <1>3, <1>4
    <3>2. x \notin strayed
      BY <3>1, HolderFacts DEF StraysAreLost
    <3>3. Exists(loc[x].in)
      BY <1>5, <3>2
    <3>4. loc[x].in \in live
      BY <3>1, <3>3, HolderFacts DEF Exists, TypeOK
    <3> QED BY <3>1, <3>4
  <2>2. U = {}
    BY <2>1 DEF NoCycles
  <2>3. S \in SUBSET N
    BY <1>3, <2>2
  <2> QED BY <2>3
<1>10. StraysAreLost'
  <2>1. ASSUME NEW x \in strayed
        PROVE  loc'[x].in \in Monsters /\ \A h \in Holders : x \notin list'[h]
    BY <1>1, <1>4 DEF StraysAreLost
  <2> QED BY <2>1 DEF StraysAreLost
<1> QED BY <1>6, <1>7, <1>8, <1>9, <1>10

\* Objects W, listed or new, that go to rooms, players and monsters.
LEMMA RelocationInv ==
    ASSUME Inv, NEW W \in SUBSET (Objects \ strayed),
           loc' \in [Objects -> Locations \cup {Nowhere}],
           \A x \in Objects \ W : loc'[x] = loc[x],
           \A x \in W : /\ loc'[x] \in Locations
                        /\ loc'[x].in \in Rooms \cup Players \cup alive',
           list' = [h \in Holders |-> (list[h] \ W) \cup {x \in W : loc'[x].in = h}],
           equip' \in [Players -> [Slots -> Objects \cup {None}]],
           EquipmentIsWorn',
           alive' \subseteq alive, scavenged' \subseteq alive', strayed' = strayed,
           \A x \in live \ (W \cup strayed) : loc[x].in \notin alive \ alive'
    PROVE  Inv'
<1> USE DEF Inv
<1>1. /\ loc \in [Objects -> Locations \cup {Nowhere}]
      /\ list \in [Holders -> SUBSET Objects]
      /\ alive \subseteq Monsters /\ strayed \subseteq live
  BY DEF TypeOK
<1>2. \A x \in W : x \in Objects /\ loc'[x] # Nowhere /\ loc'[x].in \in Holders
                   /\ loc'[x].in \notin Objects
  BY <1>1, HolderFacts, LocationFacts, PlacementAssumption DEF live, Locations, Nowhere, At
<1>3. live' = live \cup W
  BY <1>2 DEF live
<1>4. \A x \in live \ strayed : x \in Objects /\ x \in list[loc[x].in] /\ loc[x].in \in Holders
                                /\ Exists(loc[x].in)
  BY <1>1, LocationFacts DEF HoldersAgree, TypeOK, live
<1>5. TypeOK'
  <2>1. list' \in [Holders -> SUBSET Objects]
    BY <1>1, <1>2
  <2>2. ASSUME NEW x \in live' \ strayed' PROVE Exists(loc[x].in)'
    <3>1. CASE x \in W
      BY <1>3, <3>1 DEF Exists
    <3>2. CASE x \notin W
      BY <1>3, <1>4, <2>2, <3>2 DEF Exists
    <3> QED BY <3>1, <3>2
  <2> QED BY <1>1, <1>3, <2>1, <2>2 DEF TypeOK
<1>6. HoldersAgree'
  <2>1. ASSUME NEW h \in Holders, NEW x \in list'[h] PROVE x \in live' /\ loc'[x].in = h
    <3>1. CASE x \in list[h] /\ x \notin W
      BY <1>3, <3>1 DEF HoldersAgree, live
    <3>2. CASE x \in W /\ loc'[x].in = h
      BY <1>3, <3>2
    <3> QED BY <2>1, <3>1, <3>2
  <2>2. ASSUME NEW x \in live' \ strayed' PROVE x \in list'[loc'[x].in]
    BY <1>2, <1>3, <1>4, <2>2
  <2> QED BY <2>1, <2>2 DEF HoldersAgree
<1>7. NoCycles'
  BY <1>2, <1>3, NoNewCycles DEF live
<1>8. StraysAreLost'
  <2>1. ASSUME NEW x \in strayed
        PROVE  loc'[x].in \in Monsters /\ \A h \in Holders : x \notin list'[h]
    BY <1>1 DEF StraysAreLost, live
  <2> QED BY <2>1 DEF StraysAreLost
<1> QED BY <1>5, <1>6, <1>7, <1>8

\* A listed object did not stray and is located where it is listed.
LEMMA ListedFacts ==
    ASSUME Inv, NEW h \in Holders, NEW o \in list[h]
    PROVE  /\ o \in Objects /\ o \in live /\ o \notin strayed /\ loc[o].in = h
           /\ \A k \in Holders : o \in list[k] => k = h
BY DEF Inv, TypeOK, HoldersAgree, StraysAreLost

\* What a player wears is in the inventory.
LEMMA EquipmentFacts ==
    ASSUME Inv, NEW p \in Players, NEW s \in Slots, equip[p][s] # None
    PROVE  /\ equip[p][s] \in Objects /\ loc[equip[p][s]] = Worn(p, s)
           /\ equip[p][s] \in live \ strayed /\ equip[p][s] \in list[p]
<1>1. equip[p][s] \in Objects /\ loc[equip[p][s]] = Worn(p, s)
  BY DEF Inv, TypeOK, EquipmentIsWorn
<1>2. loc[equip[p][s]].in = p /\ equip[p][s] \in live
  BY <1>1, LocationForms, HolderFacts DEF live
<1>3. equip[p][s] \notin strayed
  BY <1>2, HolderFacts DEF Inv, StraysAreLost
<1> QED BY <1>1, <1>2, <1>3 DEF Inv, HoldersAgree

\* Removing one object that holds nothing.
LEMMA DeleteInv ==
    ASSUME Inv, NEW h \in Holders, NEW o \in list[h], list[o] = {}, Delete(o)
    PROVE  Inv'
<1>1. /\ loc \in [Objects -> Locations \cup {Nowhere}]
      /\ list \in [Holders -> SUBSET Objects]
      /\ equip \in [Players -> [Slots -> Objects \cup {None}]]
      /\ scavenged \subseteq alive
  BY DEF Inv, TypeOK
<1>2. o \in Objects /\ o \in live /\ o \notin strayed /\ loc[o].in = h
      /\ \A k \in Holders : o \in list[k] => k = h
  BY ListedFacts
<1>3. loc' = [x \in Objects |-> IF x \in {o} THEN Nowhere ELSE loc[x]]
  BY <1>1 DEF Delete
<1>4. list' = [k \in Holders |-> list[k] \ {o}]
  BY <1>1, <1>2 DEF Delete
<1>5. equip' = [p \in Players |->
                  [s \in Slots |-> IF equip[p][s] \in {o} THEN None ELSE equip[p][s]]]
  <2>1. \A p \in Players, s \in Slots : equip[p][s] = o => p = h
    BY <1>2, LocationForms, HolderFacts DEF Inv, EquipmentIsWorn
  <2>2. equip' = [p \in Players |-> IF p = h THEN TakeOff(p, o) ELSE equip[p]]
    BY <1>2 DEF Delete, Unequip
  <2>3. \A p \in Players : equip'[p] =
            [s \in Slots |-> IF equip[p][s] \in {o} THEN None ELSE equip[p][s]]
    <3> SUFFICES ASSUME NEW p \in Players
                 PROVE  equip'[p] =
                          [s \in Slots |-> IF equip[p][s] \in {o} THEN None ELSE equip[p][s]]
      OBVIOUS
    <3>1. CASE p = h
      BY <2>2, <3>1 DEF TakeOff
    <3>2. CASE p # h
      BY <1>1, <2>1, <2>2, <3>2
    <3> QED BY <3>1, <3>2
  <2> QED BY <2>2, <2>3
<1>6. UNCHANGED <<alive, scavenged, strayed>>
  BY DEF Delete
<1>7. \A y \in {o} : list[y] \subseteq {o}
  OBVIOUS
<1>8. {o} \in SUBSET live /\ {o} \cap strayed = {}
  BY <1>2
<1> QED BY <1>1, <1>3, <1>4, <1>5, <1>6, <1>7, <1>8, PlainDeletionInv

\* One new object in something that exists.
LEMMA CreateInv ==
    ASSUME Inv, NEW o \in Objects, NEW h \in Rooms \cup Players \cup Banks, Create(o, h)
    PROVE  Inv'
<1>1. /\ loc \in [Objects -> Locations \cup {Nowhere}]
      /\ list \in [Holders -> SUBSET Objects]
      /\ alive \subseteq Monsters
  BY DEF Inv, TypeOK
<1>2. h \in Holders /\ h \notin Objects
  BY HolderFacts
<1>3. At(h) \in Locations /\ At(h).in = h
  BY <1>2, LocationForms
<1>4. loc' = [loc EXCEPT ![o] = At(h)]
  BY DEF Create
<1>5. /\ loc' \in [Objects -> Locations \cup {Nowhere}]
      /\ \A x \in Objects \ {o} : loc'[x] = loc[x]
      /\ loc'[o] = At(h)
  BY <1>1, <1>3, <1>4
<1>6. list' = [k \in Holders |-> list[k] \cup {x \in {o} : loc'[x].in = k}]
  <2>1. list' = [list EXCEPT ![h] = @ \cup {o}]
    BY DEF Create
  <2>2. \A k \in Holders : list'[k] = list[k] \cup {x \in {o} : loc'[x].in = k}
    BY <1>1, <1>2, <1>3, <1>5, <2>1
  <2> QED BY <1>1, <2>1, <2>2
<1>7. \A S \in SUBSET {o} : S # {} => \E x \in S : loc'[x].in \notin S
  BY <1>2, <1>3, <1>5
<1>8. {o} \in SUBSET (Objects \ live)
  BY DEF Create
<1>9. UNCHANGED <<equip, alive, scavenged, strayed>>
  BY DEF Create
<1>10. \A x \in {o} : /\ loc'[x] \in Locations
                     /\ loc'[x].in \in Rooms \cup Players \cup Banks \cup alive' \cup {o}
  BY <1>3, <1>5
<1>11. alive \subseteq alive' /\ alive' \subseteq Monsters
  BY <1>1, <1>9
<1> QED BY <1>5, <1>6, <1>7, <1>8, <1>9, <1>10, <1>11, CreationInv

\* The lists do not change when objects W of p stay with p.
LEMMA StayingPut ==
    ASSUME Inv, NEW p \in Players, NEW W \in SUBSET list[p], list' = list,
           \A x \in W : loc'[x].in = p
    PROVE  list' = [h \in Holders |-> (list[h] \ W) \cup {x \in W : loc'[x].in = h}]
<1>1. p \in Holders
  BY HolderFacts
<1>2. \A x \in W, h \in Holders : x \in list[h] => h = p
  BY <1>1, ListedFacts
<1>3. \A h \in Holders : list[h] = (list[h] \ W) \cup {x \in W : loc'[x].in = h}
  BY <1>2
<1>4. list \in [Holders -> SUBSET Objects]
  BY DEF Inv, TypeOK
<1> QED BY <1>3, <1>4

-----------------------------------------------------------------------------
(* The actions. *)

\* A loaded world satisfies the invariant.
LEMMA InitInv == Init => Inv
<1> SUFFICES ASSUME Init PROVE Inv
  OBVIOUS
<1>1. \A o \in Objects : \E h \in Rooms \cup Players \cup Banks \cup {None} : loc[o] = At(h)
  BY DEF Init
<1>2. \A o \in Objects : /\ loc[o] \in Locations \cup {Nowhere}
                         /\ loc[o].in \in Rooms \cup Players \cup Banks \cup {None}
                         /\ loc[o] # Nowhere => loc[o].in # None
  <2> SUFFICES ASSUME NEW o \in Objects
               PROVE  /\ loc[o] \in Locations \cup {Nowhere}
                      /\ loc[o].in \in Rooms \cup Players \cup Banks \cup {None}
                      /\ loc[o] # Nowhere => loc[o].in # None
    OBVIOUS
  <2>1. PICK h \in Rooms \cup Players \cup Banks \cup {None} : loc[o] = At(h)
    BY <1>1
  <2>2. CASE h = None
    BY <2>1, <2>2 DEF At, Nowhere
  <2>3. CASE h # None
    BY <2>1, <2>3, LocationForms, HolderFacts
  <2> QED BY <2>2, <2>3
<1>3. TypeOK
  BY <1>2 DEF Init, TypeOK, live, Exists
<1>4. HoldersAgree
  BY <1>2, HolderFacts, LocationFacts DEF Init, HoldersAgree, live
<1>5. EquipmentIsWorn /\ StraysAreLost
  BY DEF Init, EquipmentIsWorn, StraysAreLost
<1>6. NoCycles
  BY <1>2, HolderFacts DEF NoCycles, live
<1> QED BY <1>3, <1>4, <1>5, <1>6 DEF Inv

\* So does the world after an object was moved,
LEMMA MovingInv == Inv /\ Moving => Inv'
<1> SUFFICES ASSUME Inv, Moving PROVE Inv'
  OBVIOUS
<1>1. \A o \in Objects, c \in Creatures : Held(o, c) => Found(o)
  BY LocationForms DEF Held, Found, live, Holders
<1>2. \A p \in Players : p \in Holders /\ p \notin Objects
  BY HolderFacts
<1>3. ASSUME NEW o \in Objects, NEW h \in Holders, MoveObject(o, h) PROVE Inv'
  <2>1. At(h) \in Locations /\ At(h).in = h /\ At(h).slot = Unworn
    BY LocationForms DEF At
  <2> QED BY <1>3, <2>1, MoveInv DEF MoveObject
<1>4. ASSUME NEW m \in Monsters, NEW o \in Objects, Scavenge(m, o) PROVE Inv'
  <2>1. /\ loc \in [Objects -> Locations \cup {Nowhere}]
        /\ list \in [Holders -> SUBSET Objects]
        /\ equip \in [Players -> [Slots -> Objects \cup {None}]]
        /\ m \in Holders /\ loc[o].in \in Holders /\ loc[o].in # m
    BY <1>4, HolderFacts DEF Inv, TypeOK, Scavenge
  <2>2. /\ o \in live \ strayed /\ loc[o].in \in Rooms
        /\ \A k \in Holders : o \in list[k] => k = loc[o].in
    BY <1>4, <2>1, ListedFacts DEF Scavenge, Found
  <2>3. loc' = [loc EXCEPT ![o] = At(m)] /\ At(m) \in Locations /\ At(m).in = m
    BY <1>4, <2>1, LocationForms DEF Scavenge
  <2>4. /\ loc' \in [Objects -> Locations \cup {Nowhere}]
        /\ \A x \in Objects \ {o} : loc'[x] = loc[x]
        /\ loc'[o] = At(m)
    BY <2>1, <2>3
  <2>5. list' = [k \in Holders |-> (list[k] \ {o}) \cup {x \in {o} : loc'[x].in = k}]
    <3>1. list' = [list EXCEPT ![loc[o].in] = @ \ {o}, ![m] = @ \cup {o}]
      BY <1>4 DEF Scavenge, Relist
    <3>2. \A k \in Holders : list'[k] = (list[k] \ {o}) \cup {x \in {o} : loc'[x].in = k}
      BY <2>1, <2>2, <2>3, <2>4, <3>1
    <3> QED BY <2>1, <3>1, <3>2
  <2>6. UNCHANGED <<equip, alive, strayed>> /\ scavenged' \subseteq alive'
    BY <1>4 DEF Scavenge, Inv, TypeOK
  <2>7. EquipmentIsWorn'
    <3> SUFFICES ASSUME NEW p \in Players, NEW s \in Slots, equip[p][s] # None
                 PROVE  loc'[equip[p][s]] = Worn(p, s)
      BY <2>6 DEF EquipmentIsWorn
    <3>1. equip[p][s] # o
      BY <2>2, EquipmentFacts, LocationForms, HolderFacts
    <3> QED BY <2>4, <3>1, EquipmentFacts
  <2>8. \A x \in {o} : loc'[x] \in Locations /\ loc'[x].in \in Rooms \cup Players \cup alive'
    BY <1>4, <2>3, <2>4, <2>6 DEF Scavenge
  <2>9. {o} \in SUBSET (Objects \ strayed)
    BY <2>2 DEF live
  <2> QED BY <2>1, <2>4, <2>5, <2>6, <2>7, <2>8, <2>9, RelocationInv
<1>5. ASSUME NEW o \in Objects, NEW l \in {At(p) : p \in Players}, Found(o), Move(o, l) PROVE Inv'
  <2>1. l \in Locations /\ l.in \in Players /\ l.slot = Unworn
    BY <1>2, LocationForms DEF At
  <2> QED BY <1>2, <1>5, <2>1, MoveInv
<1>6. ASSUME NEW o \in Objects, NEW c \in Creatures, NEW p \in Players, Steal(o, c, p) PROVE Inv'
  BY <1>1, <1>5, <1>6 DEF Steal
<1>7. ASSUME NEW p \in Players, NEW o \in Objects, NEW k \in Objects, Store(p, o, k) PROVE Inv'
  <2>1. At(k) \in Locations /\ At(k).in = k /\ At(k).slot = Unworn
    BY HolderFacts, LocationForms DEF At
  <2>2. Found(o)
    BY <1>1, <1>7 DEF Store, Creatures
  <2> QED BY <1>7, <2>1, <2>2, MoveInv DEF Store
<1>8. ASSUME NEW p \in Players, NEW o \in Objects, NEW k \in Objects, Take(o, k, p) PROVE Inv'
  BY <1>5, <1>8 DEF Take
<1> QED BY <1>3, <1>4, <1>6, <1>7, <1>8 DEF Moving

\* after one was worn, readied or removed,
LEMMA EquippingInv == Inv /\ Equipping => Inv'
<1> SUFFICES ASSUME Inv, Equipping PROVE Inv'
  OBVIOUS
<1>1. /\ loc \in [Objects -> Locations \cup {Nowhere}]
      /\ list \in [Holders -> SUBSET Objects]
      /\ equip \in [Players -> [Slots -> Objects \cup {None}]]
      /\ scavenged \subseteq alive
  BY DEF Inv, TypeOK
<1>2. \A p \in Players : p \in Holders /\ p \notin Objects
  BY HolderFacts
<1>3. \A o \in Objects, p \in Players :
         Held(o, p) => Found(o) /\ o \in live \ strayed /\ o \in list[p] /\ loc[o] = At(p)
  BY <1>2, ListedFacts, LocationForms DEF Held, Found
<1>4. \A p \in Players, s \in Slots : At(p) # Worn(p, s)
  BY PlacementAssumption DEF At, Worn
<1>5. ASSUME NEW p \in Players, NEW W \in SUBSET list[p], list' = list,
             loc' \in [Objects -> Locations \cup {Nowhere}],
             \A x \in Objects \ W : loc'[x] = loc[x],
             \A x \in W : loc'[x] \in Locations /\ loc'[x].in = p,
             equip' \in [Players -> [Slots -> Objects \cup {None}]],
             \A q \in Players \ {p} : equip'[q] = equip[q],
             \A s \in Slots : equip'[p][s] # None => loc'[equip'[p][s]] = Worn(p, s),
             UNCHANGED <<alive, scavenged, strayed>>
      PROVE  Inv'
  <2>1. W \in SUBSET (Objects \ strayed) /\ \A x \in W : loc[x].in = p
    BY <1>2, ListedFacts
  <2>2. EquipmentIsWorn'
    <3> SUFFICES ASSUME NEW q \in Players, NEW s \in Slots, equip'[q][s] # None
                 PROVE  loc'[equip'[q][s]] = Worn(q, s)
      BY DEF EquipmentIsWorn
    <3>1. CASE q = p
      BY <1>5, <3>1
    <3>2. CASE q # p
      <4>1. equip'[q][s] = equip[q][s]
        BY <1>5, <3>2
      <4>2. equip[q][s] \in Objects /\ loc[equip[q][s]] = Worn(q, s) /\ loc[equip[q][s]].in = q
        BY <1>2, <4>1, EquipmentFacts, LocationForms
      <4>3. equip[q][s] \notin W
        BY <2>1, <3>2, <4>2
      <4> QED BY <1>5, <4>1, <4>2, <4>3
    <3> QED BY <3>1, <3>2
  <2>3. list' = [h \in Holders |-> (list[h] \ W) \cup {x \in W : loc'[x].in = h}]
    BY <1>5, StayingPut
  <2>4. \A x \in W : loc'[x] \in Locations /\ loc'[x].in \in Rooms \cup Players \cup alive'
    BY <1>5
  <2> QED BY <1>1, <1>5, <2>1, <2>2, <2>3, <2>4, RelocationInv
<1>6. ASSUME NEW p \in Players, NEW o \in Objects, NEW s \in Slots, Wear(p, o, s) PROVE Inv'
  <2>1. Worn(p, s) \in Locations /\ Worn(p, s).in = p
    BY <1>2, LocationForms
  <2> QED BY <1>2, <1>3, <1>6, <2>1, MoveInv DEF Wear
<1>7. ASSUME NEW p \in Players, NEW o \in Objects, Ready(p, o) PROVE Inv'
  <2> DEFINE old == {x \in Objects : x = equip[p][Wield]}
  <2> DEFINE W == {o} \cup old
  <2>1. Wield \in Slots /\ Worn(p, Wield) \in Locations /\ At(p) \in Locations
        /\ Worn(p, Wield).in = p /\ At(p).in = p
    BY <1>2, PlacementAssumption, LocationForms
  <2>2. o \in list[p] /\ loc[o] = At(p)
    BY <1>3, <1>7 DEF Ready
  <2>3. \A x \in old : x \in list[p] /\ loc[x] = Worn(p, Wield)
    BY <2>1, EquipmentFacts, HolderFacts
  <2>4. W \in SUBSET list[p] /\ o \notin old
    BY <1>4, <2>1, <2>2, <2>3
  <2>5. loc' = [x \in Objects |-> IF x = o THEN Worn(p, Wield)
                                  ELSE IF x = equip[p][Wield] THEN At(p) ELSE loc[x]]
    BY <1>7 DEF Ready
  <2>6. /\ loc' \in [Objects -> Locations \cup {Nowhere}]
        /\ \A x \in Objects \ W : loc'[x] = loc[x]
        /\ \A x \in W : loc'[x] \in Locations /\ loc'[x].in = p
    BY <1>1, <2>1, <2>5
  <2>7. /\ equip' \in [Players -> [Slots -> Objects \cup {None}]]
        /\ \A q \in Players \ {p} : equip'[q] = equip[q]
        /\ \A s \in Slots : equip'[p][s] = IF s = Wield THEN o ELSE equip[p][s]
    BY <1>1, <1>7, <2>1 DEF Ready
  <2>8. ASSUME NEW s \in Slots, equip'[p][s] # None PROVE loc'[equip'[p][s]] = Worn(p, s)
    <3>1. CASE s = Wield
      BY <2>5, <2>7, <3>1
    <3>2. CASE s # Wield
      <4>1. equip'[p][s] = equip[p][s] /\ equip[p][s] # None
        BY <2>7, <2>8, <3>2
      <4>2. equip[p][s] \in Objects /\ loc[equip[p][s]] = Worn(p, s)
        BY <4>1, EquipmentFacts
      <4>3. equip[p][s] \notin W
        BY <1>4, <2>1, <2>2, <2>3, <3>2, <4>2 DEF Worn
      <4> QED BY <2>6, <4>1, <4>2, <4>3
    <3> QED BY <3>1, <3>2
  <2>9. UNCHANGED <<list, alive, scavenged, strayed>>
    BY <1>7 DEF Ready
  <2> QED BY <1>5, <2>4, <2>6, <2>7, <2>8, <2>9
<1>8. ASSUME NEW p \in Players, NEW W \in SUBSET Objects, WearAll(p, W) PROVE Inv'
  <2>1. \A x \in W : x \in list[p] /\ loc[x] = At(p) /\ WearSlot[x] \in Slots
    BY <1>3, <1>8 DEF WearAll
  <2>2. loc' = [x \in Objects |-> IF x \in W THEN Worn(p, WearSlot[x]) ELSE loc[x]]
    BY <1>8 DEF WearAll
  <2>3. /\ loc' \in [Objects -> Locations \cup {Nowhere}]
        /\ \A x \in Objects \ W : loc'[x] = loc[x]
        /\ \A x \in W : loc'[x] \in Locations /\ loc'[x].in = p
    BY <1>1, <1>2, <2>1, <2>2, LocationForms
  <2>4. PICK last \in [{WearSlot[x] : x \in W} -> W] :
           /\ \A s \in DOMAIN last : WearSlot[last[s]] = s
           /\ equip' = [equip EXCEPT ![p] =
                          [s \in Slots |-> IF s \in DOMAIN last THEN last[s] ELSE equip[p][s]]]
    BY <1>8 DEF WearAll
  <2>5. /\ equip' \in [Players -> [Slots -> Objects \cup {None}]]
        /\ \A q \in Players \ {p} : equip'[q] = equip[q]
        /\ \A s \in Slots : equip'[p][s] = IF s \in DOMAIN last THEN last[s] ELSE equip[p][s]
    BY <1>1, <2>4
  <2>6. ASSUME NEW s \in Slots, equip'[p][s] # None PROVE loc'[equip'[p][s]] = Worn(p, s)
    <3>1. CASE s \in DOMAIN last
      BY <2>2, <2>4, <2>5, <3>1
    <3>2. CASE s \notin DOMAIN last
      <4>1. equip[p][s] \in Objects /\ loc[equip[p][s]] = Worn(p, s)
        BY <2>5, <2>6, <3>2, EquipmentFacts
      <4>2. equip[p][s] \notin W
        BY <1>4, <2>1, <4>1
      <4> QED BY <2>3, <2>5, <3>2, <4>1, <4>2
    <3> QED BY <3>1, <3>2
  <2>7. UNCHANGED <<list, alive, scavenged, strayed>>
    BY <1>8 DEF WearAll
  <2>8. W \in SUBSET list[p]
    BY <2>1
  <2> QED BY <1>5, <2>3, <2>5, <2>6, <2>7, <2>8
<1>9. ASSUME NEW p \in Players, NEW s \in Slots, Remove(p, s) PROVE Inv'
  <2>1. equip[p][s] \in Objects /\ equip[p][s] \in live /\ equip[p][s] \in list[p]
        /\ loc[equip[p][s]].in = p
    BY <1>2, <1>9, EquipmentFacts, LocationForms DEF Remove
  <2>2. At(p) \in Locations /\ At(p).in = p /\ At(p).slot = Unworn
    BY <1>2, LocationForms DEF At
  <2> QED BY <1>2, <1>9, <2>1, <2>2, MoveInv DEF Remove, Found
<1> QED BY <1>6, <1>7, <1>8, <1>9 DEF Equipping

\* A copy of a tree has the shape of the tree, so no cycle either.
LEMMA CloneInv ==
    ASSUME Inv, NEW o \in Objects, NEW p \in Players,
           NEW f \in [Tree(o) -> Objects \ live], CloneObject(o, p, f)
    PROVE  Inv'
<1> DEFINE copies == {f[x] : x \in Tree(o)}
           original == [c \in copies |-> CHOOSE x \in Tree(o) : f[x] = c]
<1>1. /\ loc \in [Objects -> Locations \cup {Nowhere}]
      /\ list \in [Holders -> SUBSET Objects]
      /\ alive \subseteq Monsters /\ p \in Holders /\ p \notin Objects
  BY HolderFacts DEF Inv, TypeOK
<1>2. /\ o \in live /\ o \in Tree(o) /\ Tree(o) \subseteq live /\ Tree(o) \subseteq Objects
      /\ \A x \in Tree(o) : x # o => loc[x].in \in Tree(o)
      /\ \A y \in Tree(o) : list[y] \subseteq Tree(o)
  BY TreeFacts, TreeIsLive DEF CloneObject, Found, Inv
<1>3. copies \in SUBSET (Objects \ live) /\ \A x \in Tree(o) : f[x] \in copies
  OBVIOUS
<1>4. \A c \in copies : original[c] \in Tree(o) /\ f[original[c]] = c
  <2> SUFFICES ASSUME NEW c \in copies
               PROVE  original[c] \in Tree(o) /\ f[original[c]] = c
    OBVIOUS
  <2>1. \E x \in Tree(o) : f[x] = c
    OBVIOUS
  <2>2. original[c] = CHOOSE x \in Tree(o) : f[x] = c
    OBVIOUS
  <2> QED BY <2>1, <2>2
<1>5. \A x, y \in Tree(o) : f[x] = f[y] => x = y
  BY DEF CloneObject
<1>6. \A x \in Tree(o) : original[f[x]] = x
  BY <1>3, <1>4, <1>5
<1>7. /\ loc' = [c \in Objects |->
                   IF c \notin copies THEN loc[c]
                   ELSE IF original[c] = o THEN At(p) ELSE At(f[loc[original[c]].in])]
      /\ list' = [h \in Holders |->
                   IF h \in copies THEN {f[x] : x \in list[original[h]]}
                   ELSE IF h = p THEN list[p] \cup {f[o]} ELSE list[h]]
      /\ UNCHANGED <<equip, alive, scavenged, strayed>>
  BY DEF CloneObject
<1> HIDE DEF original, copies
<1>8. ASSUME NEW c \in copies
      PROVE  /\ c \in Objects /\ loc'[c] \in Locations
             /\ original[c] = o => loc'[c].in = p
             /\ original[c] # o => /\ loc[original[c]].in \in Tree(o)
                                   /\ loc'[c].in = f[loc[original[c]].in]
                                   /\ loc'[c].in \in copies
  <2>1. c \in Objects /\ original[c] \in Tree(o)
    BY <1>3, <1>4
  <2>2. CASE original[c] = o
    BY <1>1, <1>7, <2>1, <2>2, LocationForms
  <2>3. CASE original[c] # o
    <3>1. loc[original[c]].in \in Tree(o)
      BY <1>2, <2>1, <2>3
    <3>2. f[loc[original[c]].in] \in copies /\ f[loc[original[c]].in] \in Holders
      BY <1>3, <3>1, HolderFacts
    <3> QED BY <1>7, <2>1, <2>3, <3>1, <3>2, LocationForms
  <2> QED BY <2>1, <2>2, <2>3
<1>9. /\ loc' \in [Objects -> Locations \cup {Nowhere}]
      /\ \A x \in Objects \ copies : loc'[x] = loc[x]
  BY <1>1, <1>7, <1>8
<1>10. \A c \in copies : /\ loc'[c] \in Locations
                         /\ loc'[c].in \in Rooms \cup Players \cup Banks \cup alive' \cup copies
  BY <1>8
<1>11. ASSUME NEW S \in SUBSET copies, S # {} PROVE \E c \in S : loc'[c].in \notin S
  <2> SUFFICES ASSUME \A c \in S : loc'[c].in \in S PROVE FALSE
    OBVIOUS
  <2> DEFINE U == {original[c] : c \in S}
  <2>1. U # {} /\ U \subseteq live
    <3>1. \A c \in S : original[c] \in live
      BY <1>2, <1>4
    <3> QED BY <1>11, <3>1
  <2>2. \A c \in S : original[c] # o
    BY <1>1, <1>3, <1>8
  <2>3. \A x \in U : loc[x].in \in U
    <3> SUFFICES ASSUME NEW c \in S PROVE loc[original[c]].in \in U
      OBVIOUS
    <3>1. loc[original[c]].in \in Tree(o) /\ f[loc[original[c]].in] \in S
      BY <1>8, <2>2
    <3> QED BY <1>6, <3>1
  <2> QED BY <2>1, <2>3 DEF Inv, NoCycles
<1>12. ASSUME NEW h \in Holders
       PROVE  list'[h] = list[h] \cup {c \in copies : loc'[c].in = h}
  <2>1. CASE h \in copies
    <3>1. list[h] = {}
      BY <1>3, <2>1, TheDeadHoldNothing
    <3>2. original[h] \in Tree(o) /\ f[original[h]] = h /\ original[h] \in Holders
      BY <1>2, <1>4, <2>1, HolderFacts
    <3>3. ASSUME NEW x \in list[original[h]]
          PROVE  f[x] \in copies /\ loc'[f[x]].in = h
      <4>1. x \in Tree(o) /\ loc[x].in = original[h]
        <5>1. x \in Tree(o)
          BY <1>2, <3>2, <3>3
        <5> QED BY <3>2, <3>3, <5>1 DEF Inv, HoldersAgree
      <4>2. f[x] \in copies /\ original[f[x]] = x
        BY <1>3, <1>6, <4>1
      <4>3. x # o
        <5> SUFFICES ASSUME x = o PROVE FALSE
          OBVIOUS
        <5>1. \A y \in Tree(o) : loc[y].in \in Tree(o)
          BY <1>2, <3>2, <4>1
        <5> QED BY <1>2, <5>1 DEF Inv, NoCycles
      <4> QED BY <1>8, <3>2, <4>1, <4>2, <4>3
    <3>4. ASSUME NEW c \in copies, loc'[c].in = h PROVE \E x \in list[original[h]] : c = f[x]
      <4>1. original[c] # o
        BY <1>1, <1>3, <1>8, <2>1, <3>4
      <4>2. loc[original[c]].in \in Tree(o) /\ f[loc[original[c]].in] = h
        BY <1>8, <3>4, <4>1
      <4>3. loc[original[c]].in = original[h] /\ original[c] \in Tree(o) /\ f[original[c]] = c
        BY <1>4, <1>6, <4>2
      <4>4. original[c] \in live \ strayed
        BY <1>2, <1>4, <3>2, <4>1, <4>3, TreeIsLive
      <4> QED BY <4>3, <4>4 DEF Inv, HoldersAgree
    <3>5. list'[h] = {f[x] : x \in list[original[h]]}
      BY <1>7, <2>1
    <3>6. {f[x] : x \in list[original[h]]} = {c \in copies : loc'[c].in = h}
      BY <3>3, <3>4
    <3> QED BY <3>1, <3>5, <3>6
  <2>2. CASE h = p
    <3>1. h \notin copies /\ list'[h] = list[p] \cup {f[o]}
      BY <1>1, <1>3, <1>7, <2>2
    <3>2. \A c \in copies : loc'[c].in = h <=> c = f[o]
      BY <1>2, <1>3, <1>4, <1>6, <1>8, <2>2, <3>1
    <3>3. f[o] \in copies
      BY <1>2, <1>3
    <3> QED BY <2>2, <3>1, <3>2, <3>3
  <2>3. CASE h \notin copies /\ h # p
    <3>1. \A c \in copies : loc'[c].in # h
      BY <1>8, <2>3
    <3> QED BY <1>7, <2>3, <3>1
  <2> QED BY <2>1, <2>2, <2>3
<1>13. list' = [h \in Holders |-> list[h] \cup {c \in copies : loc'[c].in = h}]
  BY <1>7, <1>12
<1>14. alive \subseteq alive' /\ alive' \subseteq Monsters /\ UNCHANGED <<equip, scavenged, strayed>>
  BY <1>1, <1>7
<1> QED BY <1>3, <1>9, <1>10, <1>11, <1>13, <1>14, CreationInv

\* after objects were created or copied,
LEMMA MakingInv == Inv /\ Making => Inv'
<1> SUFFICES ASSUME Inv, Making PROVE Inv'
  OBVIOUS
<1>1. ASSUME NEW o \in Objects, NEW h \in Holders, CreateObject(o, h) PROVE Inv'
  BY <1>1, CreateInv DEF CreateObject
<1>2. ASSUME NEW o \in Objects, NEW h \in Holders, EnsureBankRoot(o, h) PROVE Inv'
  BY <1>2, CreateInv DEF EnsureBankRoot
<1> QED BY <1>1, <1>2, CloneInv DEF Making

\* after objects were sold, used up or destroyed,
LEMMA UnmakingInv == Inv /\ Unmaking => Inv'
<1> SUFFICES ASSUME Inv, Unmaking PROVE Inv'
  OBVIOUS
<1>1. \A o \in Objects : Found(o) => loc[o].in \in Holders
  BY LocationFacts DEF Found, live, Inv, TypeOK
<1>2. ASSUME NEW p \in Players, NEW o \in Objects, Sell(p, o) PROVE Inv'
  <2>1. p \in Holders
    BY HolderFacts
  <2> QED BY <1>2, <2>1, DeleteInv DEF Sell
<1>3. ASSUME NEW o \in Objects, UseUp(o) PROVE Inv'
  BY <1>1, <1>3, DeleteInv DEF UseUp, Found
<1>4. ASSUME NEW o \in Objects, DestroyObject(o) PROVE Inv'
  <2> DEFINE gone == Tree(o)
  <2>1. gone = Doomed({o})
    BY DEF Doomed
  <2>2. o \in live /\ o \notin strayed
    BY <1>1, <1>4, ListedFacts DEF DestroyObject, Found
  <2>3. gone \in SUBSET live /\ gone \cap strayed = {} /\ \A y \in gone : list[y] \subseteq gone
    BY <2>2, TreeFacts, TreeIsLive DEF Inv
  <2> HIDE DEF gone
  <2>4. /\ loc' = [x \in Objects |-> IF x \in gone THEN Nowhere ELSE loc[x]]
        /\ list' = [h \in Holders |-> IF h \in gone THEN {} ELSE list[h] \ gone]
        /\ equip' = [p \in Players |->
                        [s \in Slots |-> IF equip[p][s] \in gone THEN None ELSE equip[p][s]]]
        /\ UNCHANGED <<alive, scavenged, strayed>>
    BY <1>4, <2>1 DEF DestroyObject
  <2>5. list' = [h \in Holders |-> list[h] \ gone]
    <3>1. \A h \in Holders : (IF h \in gone THEN {} ELSE list[h] \ gone) = list[h] \ gone
      BY <2>3
    <3> QED BY <2>4, <3>1
  <2>6. scavenged' \subseteq alive'
    BY <2>4 DEF Inv, TypeOK
  <2> QED BY <2>3, <2>4, <2>5, <2>6, PlainDeletionInv
<1> QED BY <1>2, <1>3, <1>4 DEF Unmaking

\* after a creature came, left or died,
LEMMA CreatingInv == Inv /\ Creating => Inv'
<1> SUFFICES ASSUME Inv, Creating PROVE Inv'
  OBVIOUS
<1>1. /\ loc \in [Objects -> Locations \cup {Nowhere}]
      /\ list \in [Holders -> SUBSET Objects]
      /\ equip \in [Players -> [Slots -> Objects \cup {None}]]
      /\ alive \subseteq Monsters /\ scavenged \subseteq alive
  BY DEF Inv, TypeOK
<1>2. \A m \in Monsters : m \in Holders /\ m \notin Objects /\ m \notin Rooms /\ m \notin Players
  BY HolderFacts
<1>3. \A h \in Holders : \A o \in list[h] :
         o \in Objects /\ o \in live \ strayed /\ loc[o].in = h
  BY ListedFacts
<1>4. \A o \in live \ strayed : o \in list[loc[o].in]
  BY DEF Inv, HoldersAgree
<1>5. ASSUME NEW m \in Monsters, NEW N \in SUBSET Objects, Spawn(m, N) PROVE Inv'
  <2>1. At(m) \in Locations /\ At(m).in = m
    BY <1>2, LocationForms
  <2>2. list[m] = {} /\ m \in Holders
    BY <1>2, <1>5, TheDeadHoldNothing DEF Spawn
  <2>3. loc' = [x \in Objects |-> IF x \in N THEN At(m) ELSE loc[x]]
    BY <1>5 DEF Spawn
  <2>4. /\ loc' \in [Objects -> Locations \cup {Nowhere}]
        /\ \A x \in Objects \ N : loc'[x] = loc[x]
        /\ \A x \in N : loc'[x] = At(m)
    BY <1>1, <2>1, <2>3
  <2>5. list' = [h \in Holders |-> list[h] \cup {x \in N : loc'[x].in = h}]
    <3>1. list' = [list EXCEPT ![m] = N]
      BY <1>5 DEF Spawn
    <3>2. \A h \in Holders : list'[h] = list[h] \cup {x \in N : loc'[x].in = h}
      BY <1>1, <2>1, <2>2, <2>4, <3>1
    <3> QED BY <1>1, <3>1, <3>2
  <2>6. \A S \in SUBSET N : S # {} => \E x \in S : loc'[x].in \notin S
    BY <1>2, <2>1, <2>4
  <2>7. /\ N \in SUBSET (Objects \ live)
        /\ UNCHANGED <<equip, scavenged, strayed>> /\ alive' = alive \cup {m}
    BY <1>5 DEF Spawn
  <2>8. alive \subseteq alive' /\ alive' \subseteq Monsters
    BY <1>1, <2>7
  <2>9. \A x \in N : /\ loc'[x] \in Locations
                     /\ loc'[x].in \in Rooms \cup Players \cup Banks \cup alive' \cup N
    BY <2>1, <2>4, <2>7
  <2> QED BY <2>4, <2>5, <2>6, <2>7, <2>8, <2>9, CreationInv
<1>6. ASSUME NEW m \in Monsters, NEW r \in Rooms, NEW purse \in Purses, MonsterDeath(m, r, purse)
      PROVE  Inv'
  <2> DEFINE W == list[m] \cup purse
  <2>0. purse \subseteq Objects /\ purse \cap live = {}
    BY <1>6 DEF MonsterDeath, Purses
  <2>1. At(r) \in Locations /\ At(r).in = r /\ r \in Holders /\ r # m
    BY <1>2, HolderFacts, LocationForms
  <2>2. /\ loc' = [x \in Objects |-> IF x \in W THEN At(r) ELSE loc[x]]
        /\ list' = [list EXCEPT ![m] = {}, ![r] = @ \cup W]
        /\ alive' = alive \ {m} /\ scavenged' = scavenged \ {m}
        /\ UNCHANGED <<equip, strayed>>
    BY <1>6 DEF MonsterDeath
  <2>3. /\ W \in SUBSET (Objects \ strayed)
        /\ \A x \in list[m] : x \in Objects /\ x \in live /\ loc[x].in = m
    BY <1>2, <1>3, <2>0 DEF Inv, TypeOK
  <2>4. /\ loc' \in [Objects -> Locations \cup {Nowhere}]
        /\ \A x \in Objects \ W : loc'[x] = loc[x]
        /\ \A x \in W : loc'[x] = At(r)
    BY <1>1, <2>1, <2>2, <2>3
  <2>5. list' = [h \in Holders |-> (list[h] \ W) \cup {x \in W : loc'[x].in = h}]
    <3>1. \A h \in Holders : h # m => list[h] \ W = list[h]
      <4>1. ASSUME NEW h \in Holders, h # m, NEW x \in list[h] PROVE x \notin W
        BY <1>2, <1>3, <2>0, <4>1
      <4> QED BY <4>1
    <3>2. \A h \in Holders : list'[h] = (list[h] \ W) \cup {x \in W : loc'[x].in = h}
      BY <1>1, <1>2, <2>1, <2>2, <2>4, <3>1
    <3> QED BY <1>1, <2>2, <3>2
  <2>6. EquipmentIsWorn'
    <3> SUFFICES ASSUME NEW p \in Players, NEW s \in Slots, equip[p][s] # None
                 PROVE  loc'[equip[p][s]] = Worn(p, s)
      BY <2>2 DEF EquipmentIsWorn
    <3>1. equip[p][s] \in Objects /\ loc[equip[p][s]] = Worn(p, s) /\ loc[equip[p][s]].in = p
      BY EquipmentFacts, LocationForms, HolderFacts
    <3>2. equip[p][s] \notin W
      BY <1>2, <2>0, <2>3, <3>1, EquipmentFacts
    <3> QED BY <2>4, <3>1, <3>2
  <2>7. \A x \in live \ (W \cup strayed) : loc[x].in \notin alive \ alive'
    BY <1>4, <2>2
  <2>8. \A x \in W : loc'[x] \in Locations /\ loc'[x].in \in Rooms \cup Players \cup alive'
    BY <2>1, <2>4
  <2>9. alive' \subseteq alive /\ scavenged' \subseteq alive'
    BY <1>1, <2>2
  <2> HIDE DEF W
  <2> QED BY <1>1, <2>2, <2>3, <2>4, <2>5, <2>6, <2>7, <2>8, <2>9, RelocationInv
<1>7. ASSUME NEW m \in Monsters, NEW r \in Rooms, NEW purse \in Purses, CreatureGone(m, r, purse)
      PROVE  Inv'
  <2> DEFINE gone == Doomed(list[m])
  <2>1. \A o \in list[m] : /\ o \in live \ strayed /\ loc[o].in = m
                           /\ Tree(o) \subseteq live /\ o \in Tree(o)
                           /\ \A y \in Tree(o) : list[y] \subseteq Tree(o)
                           /\ \A x \in Tree(o) : x # o => loc[x].in \in Tree(o) /\ x \notin strayed
    BY <1>2, <1>3, TreeFacts, TreeIsLive DEF Inv
  <2>2. \A x : x \in gone <=> \E o \in list[m] : x \in Tree(o)
    BY DEF Doomed
  <2> HIDE DEF gone
  <2>3. /\ gone \in SUBSET live /\ gone \cap strayed = {} /\ list[m] \subseteq gone
        /\ \A y \in gone : list[y] \subseteq gone
        /\ \A x \in gone : loc[x].in = m \/ loc[x].in \in gone
    BY <2>1, <2>2
  <2>4. /\ loc' = [x \in Objects |-> IF x \in purse THEN At(r)
                                     ELSE IF x \in gone THEN Nowhere ELSE loc[x]]
        /\ list' = [h \in Holders |-> IF h = m \/ h \in gone THEN {}
                                      ELSE (list[h] \ gone) \cup (IF h = r THEN purse ELSE {})]
        /\ purse \in SUBSET Objects /\ purse \cap (live \ gone) = {}
        /\ alive' = alive \ {m} /\ scavenged' = scavenged \ {m}
        /\ UNCHANGED <<equip, strayed>>
    BY <1>7 DEF CreatureGone, gone, Purses
  <2>5. /\ loc' \in [Objects -> Locations \cup {Nowhere}]
        /\ \A x \in Objects : loc'[x] = IF x \in purse THEN At(r)
                                       ELSE IF x \in gone THEN Nowhere ELSE loc[x]
        /\ list' \in [Holders -> SUBSET Objects]
        /\ \A h \in Holders : list'[h] = (list[h] \ gone) \cup {x \in purse : h = r}
    <3>1. r # m /\ r \notin gone /\ At(r) \in Locations
      BY <1>2, <2>3, HolderFacts, LocationForms DEF live
    <3>2. \A x \in Objects : loc'[x] \in Locations \cup {Nowhere}
      BY <1>1, <2>4, <3>1
    <3>3. ASSUME NEW h \in Holders
          PROVE  list'[h] = (list[h] \ gone) \cup {x \in purse : h = r}
      <4>1. CASE h = m \/ h \in gone
        BY <2>3, <2>4, <3>1, <4>1
      <4>2. CASE ~(h = m \/ h \in gone)
        BY <2>4, <4>2
      <4> QED BY <4>1, <4>2
    <3> QED BY <1>1, <2>4, <3>2, <3>3
  <2>6. equip' = [p \in Players |->
                    [s \in Slots |-> IF equip[p][s] \in gone THEN None ELSE equip[p][s]]]
    <3>1. ASSUME NEW p \in Players, NEW s \in Slots PROVE equip[p][s] \notin gone
      <4> SUFFICES ASSUME equip[p][s] \in gone PROVE FALSE
        OBVIOUS
      <4>1. equip[p][s] # None
        BY <2>3, HolderFacts DEF live
      <4>2. loc[equip[p][s]].in = p
        BY <4>1, EquipmentFacts, LocationForms, HolderFacts
      <4>3. p # m /\ p \notin gone
        BY <1>2, <2>3, HolderFacts DEF live
      <4> QED BY <2>3, <4>2, <4>3
    <3> QED BY <1>1, <2>4, <3>1
  <2>7. \A x \in live \ (gone \cup strayed) : loc[x].in \notin alive \ alive'
    BY <1>4, <2>3, <2>4
  <2>8. alive' \subseteq alive /\ scavenged' \subseteq alive'
    BY <1>1, <2>4
  <2>9. Deletion(gone, purse, r)
    BY <2>3, <2>4, <2>5, <2>6, <2>7, <2>8 DEF Deletion
  <2> QED BY <2>9, DeletionInv
<1>8. ASSUME NEW m \in Monsters, Wander(m) PROVE Inv'
  <2>1. /\ strayed' = strayed \cup list[m] /\ list' = [list EXCEPT ![m] = {}]
        /\ alive' = alive \ {m} /\ m \in alive \ scavenged
        /\ UNCHANGED <<loc, equip, scavenged>>
    BY <1>8 DEF Wander
  <2>2. /\ live' = live /\ m \in Holders
        /\ \A h \in Holders : list'[h] = IF h = m THEN {} ELSE list[h]
    BY <1>1, <1>2, <2>1 DEF live
  <2>3. TypeOK'
    <3>1. strayed' \subseteq live' /\ list' \in [Holders -> SUBSET Objects]
          /\ alive' \subseteq Monsters /\ scavenged' \subseteq alive'
      BY <1>1, <1>3, <2>1, <2>2 DEF Inv, TypeOK
    <3>2. ASSUME NEW x \in live' \ strayed' PROVE Exists(loc[x].in)'
      <4>1. x \in live \ strayed /\ loc[x].in # m
        BY <1>4, <2>1, <2>2, <3>2
      <4> QED BY <2>1, <2>2, <4>1 DEF Inv, TypeOK, Exists
    <3> QED BY <1>1, <2>1, <3>1, <3>2 DEF TypeOK
  <2>4. HoldersAgree'
    <3>1. \A h \in Holders : \A o \in list'[h] : o \in live' /\ loc'[o].in = h
      BY <1>3, <2>1, <2>2
    <3>2. ASSUME NEW x \in live' \ strayed' PROVE x \in list'[loc'[x].in]
      <4>1. x \in list[loc[x].in] /\ loc[x].in # m
        BY <1>4, <2>1, <2>2, <3>2
      <4>2. loc[x].in \in Holders
        BY <1>1, <2>2, <3>2, LocationFacts DEF live
      <4> QED BY <2>1, <2>2, <4>1, <4>2
    <3> QED BY <3>1, <3>2 DEF HoldersAgree
  <2>5. EquipmentIsWorn' /\ NoCycles'
    BY <2>1, <2>2 DEF Inv, EquipmentIsWorn, NoCycles
  <2>6. StraysAreLost'
    <3>1. ASSUME NEW x \in list[m]
          PROVE  loc[x].in \in Monsters /\ \A h \in Holders : x \notin list'[h]
      BY <1>3, <2>2
    <3>2. ASSUME NEW x \in strayed
          PROVE  loc[x].in \in Monsters /\ \A h \in Holders : x \notin list'[h]
      BY <2>2 DEF Inv, StraysAreLost
    <3> QED BY <2>1, <3>1, <3>2 DEF StraysAreLost
  <2> QED BY <2>3, <2>4, <2>5, <2>6 DEF Inv
<1>9. ASSUME NEW p \in Players, NEW r \in Rooms, NEW S \in SUBSET Slots,
             NEW byPlayer \in BOOLEAN, PlayerDeath(p, r, S, byPlayer)
      PROVE  Inv'
  <2> DEFINE W == {equip[p][s] : s \in S}
             floor == {equip[p][s] : s \in {s \in S : s = Wield \/ byPlayer}}
  <2>1. /\ loc' = [x \in Objects |-> IF x \in floor THEN At(r)
                                     ELSE IF x \in W THEN At(p) ELSE loc[x]]
        /\ list' = [list EXCEPT ![p] = @ \ floor, ![r] = @ \cup floor]
        /\ equip' = [equip EXCEPT ![p] = [s \in Slots |-> IF s \in S THEN None ELSE equip[p][s]]]
        /\ UNCHANGED <<alive, scavenged, strayed>>
        /\ \A s \in S : s \in Slots /\ equip[p][s] # None
    BY <1>9 DEF PlayerDeath
  <2>2. /\ p \in Holders /\ r \in Holders /\ p # r
        /\ At(p) \in Locations /\ At(p).in = p /\ At(r) \in Locations /\ At(r).in = r
    BY HolderFacts, LocationForms
  <2>3. W \in SUBSET (Objects \ strayed) /\ floor \subseteq W
        /\ \A x \in W : x \in Objects /\ x \in list[p]
    BY <2>1, EquipmentFacts
  <2>4. ASSUME NEW q \in Players, NEW s \in Slots, equip'[q][s] # None
        PROVE  /\ equip'[q][s] = equip[q][s] /\ equip[q][s] \in Objects \ W
               /\ loc[equip[q][s]] = Worn(q, s)
    <3>1. equip'[q][s] = equip[q][s] /\ (q = p => s \notin S)
      BY <1>1, <2>1, <2>4
    <3>2. equip[q][s] \in Objects /\ loc[equip[q][s]] = Worn(q, s)
      BY <2>4, <3>1, EquipmentFacts
    <3>3. ASSUME NEW t \in S, equip[q][s] = equip[p][t] PROVE FALSE
      <4>1. loc[equip[p][t]] = Worn(p, t)
        BY <2>1, EquipmentFacts
      <4> QED BY <3>1, <3>2, <3>3, <4>1 DEF Worn
    <3> QED BY <3>1, <3>2, <3>3
  <2> HIDE DEF W, floor
  <2>5. /\ loc' \in [Objects -> Locations \cup {Nowhere}]
        /\ \A x \in Objects \ W : loc'[x] = loc[x]
        /\ \A x \in floor : loc'[x] = At(r)
        /\ \A x \in W \ floor : loc'[x] = At(p)
    BY <1>1, <2>1, <2>2, <2>3
  <2>6. list' = [h \in Holders |-> (list[h] \ W) \cup {x \in W : loc'[x].in = h}]
    <3>1. /\ {x \in W : loc'[x].in = r} = floor
          /\ {x \in W : loc'[x].in = p} = W \ floor
          /\ \A h \in Holders : h # r /\ h # p => {x \in W : loc'[x].in = h} = {}
      BY <2>2, <2>3, <2>5
    <3>2. \A h \in Holders : h # p => list[h] \ W = list[h]
      BY <1>3, <2>2, <2>3
    <3>3. (list[p] \ W) \cup (W \ floor) = list[p] \ floor
      BY <2>3
    <3>4. \A h \in Holders : list'[h] = IF h = r THEN list[h] \cup floor
                                        ELSE IF h = p THEN list[h] \ floor ELSE list[h]
      BY <1>1, <2>1, <2>2
    <3>5. \A h \in Holders : list'[h] = (list[h] \ W) \cup {x \in W : loc'[x].in = h}
      <4> SUFFICES ASSUME NEW h \in Holders
                   PROVE  list'[h] = (list[h] \ W) \cup {x \in W : loc'[x].in = h}
        OBVIOUS
      <4>1. CASE h = r
        BY <2>2, <3>1, <3>2, <3>4, <4>1
      <4>2. CASE h = p
        BY <2>2, <3>1, <3>3, <3>4, <4>2
      <4>3. CASE h # r /\ h # p
        BY <3>1, <3>2, <3>4, <4>3
      <4> QED BY <4>1, <4>2, <4>3
    <3> QED BY <1>1, <2>1, <3>5
  <2>7. equip' \in [Players -> [Slots -> Objects \cup {None}]]
    BY <1>1, <2>1
  <2>8. EquipmentIsWorn'
    BY <2>4, <2>5 DEF EquipmentIsWorn
  <2>9. \A x \in W : loc'[x] \in Locations /\ loc'[x].in \in Rooms \cup Players \cup alive'
    BY <2>2, <2>5
  <2> QED BY <1>1, <2>1, <2>3, <2>5, <2>6, <2>7, <2>8, <2>9, RelocationInv
<1> QED BY <1>5, <1>6, <1>7, <1>8, <1>9 DEF Creating

\* and when nothing happens.
LEMMA StutterInv == Inv /\ UNCHANGED vars => Inv'
BY DEF Inv, vars, TypeOK, HoldersAgree, EquipmentIsWorn, NoCycles, StraysAreLost, live, Exists

\* The world stays consistent through any sequence of commands, updates and
\* deaths: the inductive invariant of Placement.
THEOREM PlacementInvariant == Spec => []Inv
<1>1. Inv /\ [Next]_vars => Inv'
  BY MovingInv, EquippingInv, MakingInv, UnmakingInv, CreatingInv, StutterInv DEF Next
<1> QED BY InitInv, <1>1, PTL DEF Spec

\* The types, and no dangling location.
THEOREM Typing == Spec => []TypeOK
BY PlacementInvariant, PTL DEF Inv

\* The reference lists and the locations agree (room.go:302), for any world.
THEOREM ListsAndLocationsAgree == Spec => []HoldersAgree
BY PlacementInvariant, PTL DEF Inv

\* An equipment slot names an object that is worn there, for any world.
THEOREM SlotsNameWornObjects == Spec => []EquipmentIsWorn
BY PlacementInvariant, PTL DEF Inv

\* No object ever holds itself, for any number of objects and any nesting: the
\* ancestor check of MoveObject is enough, and copies keep the shape.
THEOREM NothingHoldsItself == Spec => []NoCycles
BY PlacementInvariant, PTL DEF Inv

-----------------------------------------------------------------------------
(* Restarts: the world w = [loc, list] of Restore, and the files.             *)

\* Nothing is worn here.
Places == {At(h) : h \in Holders}

IsWorld(w) ==
    /\ w.loc \in [Objects -> Places \cup {Nowhere}]
    /\ w.list \in [Holders -> SUBSET Objects]
In(w) == {o \in Objects : w.loc[o] # Nowhere}

\* HoldersAgree.
Agreed(w) ==
    /\ \A h \in Holders : \A o \in w.list[h] : o \in In(w) /\ w.loc[o].in = h
    /\ \A o \in In(w) : o \in w.list[w.loc[o].in]

Listed(w) == \A h \in Holders : w.list[h] \subseteq In(w)
FloorListsTrue(w) == \A r \in Rooms : \A o \in w.list[r] : Static[o] = None => w.loc[o] = At(r)
FloorsListed(w) == \A o \in Objects : w.loc[o].in \in Rooms => o \in w.list[w.loc[o].in]
OnlyBase(w) == \A r \in Rooms : \A o \in w.list[r] : Static[o] # None
NoneDangles(w) == \A o \in In(w) : w.loc[o].in \in Rooms \cup Players \cup Banks \cup In(w)

\* What any file is like, and the file of a world whose lists agree: it holds
\* all that is inside what it names, and nothing in it is located outside it.
PlainFile(f) ==
    /\ DOMAIN f.records \subseteq Objects /\ f.ids \subseteq DOMAIN f.records
    /\ f.records \in [DOMAIN f.records -> [loc : Places, list : SUBSET DOMAIN f.records]]
Sound(x, f) ==
    LET D == DOMAIN f.records IN
    /\ \A o \in D : f.records[o].loc.in \in {x} \cup D
    /\ \A k \in D : f.records[k].list = {o \in D : f.records[o].loc.in = k}

RInv ==
    /\ IsWorld(World) /\ Listed(World) /\ FloorListsTrue(World)
    /\ todo \cap Players # {} => OnlyBase(World)
    /\ alive = {} /\ strayed = {}
    /\ DOMAIN disk = Owners /\ \A x \in Owners : PlainFile(disk[x])
    /\ marked \subseteq Rooms /\ todo \subseteq Players \cup Rooms
    /\ ~mixed => /\ NoneDangles(World) /\ FloorsListed(World)
                 /\ \A x \in Owners : Sound(x, disk[x])

\* What the flush has listed, and that the process is not restarting meanwhile.
FlushTypes ==
    /\ stage \in Stages /\ (stage # "none" => running)
    /\ due \subseteq Owners /\ (due # {} => stage # "none") /\ dirtyRooms \subseteq Rooms

\* Places are told apart by their holders.
LEMMA PlaceFacts ==
    /\ \A l \in Places : l.in \in Holders /\ l = At(l.in) /\ l # Nowhere /\ l \in Locations
    /\ \A h \in Holders : At(h) \in Places /\ At(h).in = h
    /\ Nowhere.in = None /\ Nowhere \notin Places
    /\ \A h \in Owners : h \in Holders /\ h \notin Objects
<1>1. Nowhere.in = None /\ \A h \in Holders : At(h).in = h /\ At(h) \in Locations
  BY DEF At, Nowhere, Locations
<1>2. None \notin Holders
  BY HolderFacts
<1>3. \A l \in Places : \E h \in Holders : l = At(h)
  BY DEF Places
<1>4. \A h \in Holders : At(h) \in Places
  BY DEF Places
<1>5. \A h \in Owners : h \in Holders /\ h \notin Objects
  BY HolderFacts DEF Owners
<1> QED BY <1>1, <1>2, <1>3, <1>4, <1>5

\* What the agreement of the lists implies.
LEMMA AgreedFacts ==
    ASSUME NEW w, IsWorld(w), Agreed(w)
    PROVE  Listed(w) /\ FloorListsTrue(w) /\ FloorsListed(w)
<1>1. \A o \in Objects : w.loc[o] \in Places \cup {Nowhere}
  BY DEF IsWorld
<1>2. Listed(w)
  BY DEF Agreed, Listed
<1>3. FloorListsTrue(w)
  BY <1>1, PlaceFacts, HolderFacts DEF Agreed, FloorListsTrue, In
<1>4. FloorsListed(w)
  BY <1>1, PlaceFacts, HolderFacts DEF Agreed, FloorsListed, In
<1> QED BY <1>2, <1>3, <1>4

\* A moved object leaves the agreement as it was.
LEMMA MoveAgrees ==
    ASSUME NEW w, IsWorld(w), Agreed(w), NEW o \in In(w), NEW h \in Holders, NEW v,
           v.loc = [w.loc EXCEPT ![o] = At(h)],
           v.list = [w.list EXCEPT ![w.loc[o].in] = @ \ {o}, ![h] = @ \cup {o}]
    PROVE  /\ IsWorld(v) /\ Agreed(v)
           /\ NoneDangles(w) /\ h \in Rooms \cup Players \cup Banks \cup In(w) => NoneDangles(v)
<1>1. /\ o \in Objects /\ w.loc[o] \in Places /\ w.loc[o].in \in Holders
      /\ w.loc \in [Objects -> Places \cup {Nowhere}] /\ w.list \in [Holders -> SUBSET Objects]
  BY PlaceFacts DEF In, IsWorld
<1>2. /\ v.loc \in [Objects -> Places \cup {Nowhere}] /\ v.list \in [Holders -> SUBSET Objects]
      /\ v.loc[o] = At(h) /\ \A c \in Objects \ {o} : v.loc[c] = w.loc[c]
  BY <1>1, PlaceFacts
<1>3. \A k \in Holders : v.list[k] = IF k = h THEN w.list[k] \cup {o} ELSE w.list[k] \ {o}
  <2>1. \A k \in Holders : k # w.loc[o].in => o \notin w.list[k]
    BY DEF Agreed
  <2> QED BY <1>1, <2>1
<1>4. In(v) = In(w)
  BY <1>1, <1>2, PlaceFacts DEF In
<1>5. Agreed(v)
  <2>1. ASSUME NEW k \in Holders, NEW c \in v.list[k] PROVE c \in In(v) /\ v.loc[c].in = k
    BY <1>2, <1>3, <1>4, <2>1, PlaceFacts DEF Agreed, In
  <2>2. ASSUME NEW c \in In(v) PROVE c \in v.list[v.loc[c].in]
    <3>1. c \in Objects /\ (c # o => w.loc[c].in \in Holders)
      BY <1>1, <1>4, PlaceFacts DEF In
    <3> QED BY <1>2, <1>3, <1>4, <3>1, PlaceFacts DEF Agreed
  <2> QED BY <2>1, <2>2 DEF Agreed
<1>6. NoneDangles(w) /\ h \in Rooms \cup Players \cup Banks \cup In(w) => NoneDangles(v)
  BY <1>2, <1>4, PlaceFacts DEF NoneDangles, In
<1> QED BY <1>2, <1>5, <1>6 DEF IsWorld

\* So does a new one.
LEMMA AddAgrees ==
    ASSUME NEW w, IsWorld(w), Agreed(w), NEW o \in Objects \ In(w), NEW h \in Holders, NEW v,
           v.loc = [w.loc EXCEPT ![o] = At(h)],
           v.list = [w.list EXCEPT ![h] = @ \cup {o}]
    PROVE  /\ IsWorld(v) /\ Agreed(v)
           /\ NoneDangles(w) /\ h \in Rooms \cup Players \cup Banks => NoneDangles(v)
<1>1. /\ w.loc \in [Objects -> Places \cup {Nowhere}] /\ w.list \in [Holders -> SUBSET Objects]
      /\ \A k \in Holders : o \notin w.list[k]
  BY DEF IsWorld, Agreed
<1>2. /\ v.loc \in [Objects -> Places \cup {Nowhere}] /\ v.list \in [Holders -> SUBSET Objects]
      /\ v.loc[o] = At(h) /\ \A c \in Objects \ {o} : v.loc[c] = w.loc[c]
      /\ \A k \in Holders : v.list[k] = IF k = h THEN w.list[k] \cup {o} ELSE w.list[k]
  <2>1. o \in Objects /\ At(h) \in Places
    BY PlaceFacts
  <2> QED BY <1>1, <2>1
<1>3. In(v) = In(w) \cup {o}
  BY <1>1, <1>2, PlaceFacts DEF In
<1>4. Agreed(v)
  <2>1. ASSUME NEW k \in Holders, NEW c \in v.list[k] PROVE c \in In(v) /\ v.loc[c].in = k
    BY <1>1, <1>2, <1>3, <2>1, PlaceFacts DEF Agreed, In
  <2>2. ASSUME NEW c \in In(v) PROVE c \in v.list[v.loc[c].in]
    <3>1. c \in Objects /\ (c # o => w.loc[c].in \in Holders)
      BY <1>1, <1>3, PlaceFacts DEF In
    <3> QED BY <1>2, <1>3, <3>1, PlaceFacts DEF Agreed
  <2> QED BY <2>1, <2>2 DEF Agreed
<1>5. NoneDangles(w) /\ h \in Rooms \cup Players \cup Banks => NoneDangles(v)
  BY <1>2, <1>3, PlaceFacts DEF NoneDangles, In
<1> QED BY <1>2, <1>4, <1>5 DEF IsWorld

\* And a tree that goes.
LEMMA DropAgrees ==
    ASSUME NEW w, IsWorld(w), Agreed(w), NEW gone \in SUBSET Objects,
           \A y \in gone : w.list[y] \subseteq gone, NEW v,
           v.loc = [x \in Objects |-> IF x \in gone THEN Nowhere ELSE w.loc[x]],
           v.list = [h \in Holders |-> IF h \in gone THEN {} ELSE w.list[h] \ gone]
    PROVE  IsWorld(v) /\ Agreed(v) /\ (NoneDangles(w) => NoneDangles(v))
<1>1. w.loc \in [Objects -> Places \cup {Nowhere}] /\ w.list \in [Holders -> SUBSET Objects]
  BY DEF IsWorld
<1>2. IsWorld(v)
  BY <1>1 DEF IsWorld
<1>3. In(v) = In(w) \ gone
  BY DEF In
<1>4. \A c \in In(v) : /\ c \in In(w) /\ c \notin gone /\ v.loc[c] = w.loc[c] /\ w.loc[c].in \in Holders
                       /\ c \in w.list[w.loc[c].in] /\ w.loc[c].in \notin gone
  BY <1>1, <1>3, PlaceFacts DEF In, Agreed
<1>5. Agreed(v)
  <2>1. ASSUME NEW k \in Holders, NEW c \in v.list[k] PROVE c \in In(v) /\ v.loc[c].in = k
    <3>1. c \in w.list[k] /\ c \notin gone
      BY <2>1
    <3>2. c \in In(w) /\ w.loc[c].in = k
      BY <3>1 DEF Agreed
    <3> QED BY <1>3, <1>4, <3>1, <3>2
  <2> QED BY <1>4, <2>1 DEF Agreed
<1>6. NoneDangles(w) => NoneDangles(v)
  BY <1>3, <1>4 DEF NoneDangles
<1> QED BY <1>2, <1>5, <1>6

\* HoldersAgree when nothing strays.
LEMMA AgreedWorld ==
    ASSUME strayed = {}
    PROVE  HoldersAgree <=> Agreed(World)
<1>1. World.loc = loc /\ World.list = list /\ In(World) = live
  BY DEF World, In, live
<1> QED BY <1>1 DEF HoldersAgree, Agreed

\* The base load.
LEMMA BaseFacts ==
    /\ IsWorld(Base) /\ Listed(Base) /\ FloorListsTrue(Base) /\ OnlyBase(Base)
    /\ NoneDangles(Base) /\ FloorsListed(Base)
<1> DEFINE l == [o \in Objects |-> At(Static[o])]
           b == [h \in Holders |-> {o \in Objects : l[o].in = h}]
<1>1. Base.loc = l /\ Base.list = b
  BY DEF Base
<1>2. \A o \in Objects : /\ l[o] = At(Static[o]) /\ l[o].in = Static[o] /\ Static[o] \in Rooms \cup {None}
                         /\ l[o] # Nowhere <=> Static[o] # None
  BY RestoreAssumption DEF At, Nowhere
<1>3. l \in [Objects -> Places \cup {Nowhere}]
  BY <1>2, PlaceFacts, HolderFacts DEF Nowhere
<1>4. b \in [Holders -> SUBSET Objects] /\ \A h \in Holders : b[h] = {o \in Objects : Static[o] = h}
  BY <1>2
<1> HIDE DEF l, b
<1>5. IsWorld(Base)
  BY <1>1, <1>3, <1>4 DEF IsWorld
<1>6. \A h \in Holders : h # None
  BY HolderFacts
<1>7. Listed(Base) /\ FloorListsTrue(Base) /\ OnlyBase(Base)
  BY <1>1, <1>2, <1>4, <1>6, HolderFacts DEF Listed, FloorListsTrue, OnlyBase, In
<1>8. NoneDangles(Base) /\ FloorsListed(Base)
  BY <1>1, <1>2, <1>4, <1>6, HolderFacts DEF NoneDangles, FloorsListed, In
<1> QED BY <1>5, <1>7, <1>8

\* A file holds all that is inside what it names; one of a world whose lists
\* agree is sound.
LEMMA SnapshotFile ==
    ASSUME IsWorld(World), Listed(World), NEW x \in Owners
    PROVE  PlainFile(Snapshot(x)) /\ (Agreed(World) => Sound(x, Snapshot(x)))
<1> DEFINE roots == IF x \in Rooms THEN {o \in Objects : loc[o].in = x} ELSE list[x]
           D == Closure(roots) \cap live
           f == Snapshot(x)
<1>1. /\ loc \in [Objects -> Places \cup {Nowhere}] /\ list \in [Holders -> SUBSET Objects]
      /\ \A h \in Holders : list[h] \subseteq live
      /\ x \in Holders /\ x \notin Objects /\ live \subseteq Objects
  BY PlaceFacts DEF World, IsWorld, Listed, In, live
<1>2. /\ f.ids = (IF x \in Rooms THEN {} ELSE list[x])
      /\ f.records = [o \in D |-> [loc |-> loc[o], list |-> list[o]]]
  BY DEF Snapshot
<1>3. roots \subseteq live
  <2>1. x # None
    BY <1>1, HolderFacts
  <2> QED BY <1>1, <2>1, PlaceFacts DEF live
<1>4. D \subseteq Objects /\ D \subseteq live /\ \A o \in D : \E q \in roots : o \in Tree(q)
  BY <1>1 DEF Closure, Doomed
<1>5. \A q \in roots : Tree(q) \subseteq D
  <2> SUFFICES ASSUME NEW q \in roots, NEW o \in Tree(q) PROVE o \in live
    BY DEF Closure, Doomed
  <2>1. q \in Objects /\ q \in live
    BY <1>1, <1>3
  <2>2. CASE o = q
    BY <2>1, <2>2
  <2>3. CASE o # q
    <3>1. PICK y \in Tree(q) : o \in list[y]
      BY <1>1, <2>1, <2>3, TreeClosed
    <3>2. y \in Holders
      BY <1>1, <2>1, TreeClosed, HolderFacts
    <3> QED BY <1>1, <3>1, <3>2
  <2> QED BY <2>2, <2>3
<1>6. \A o \in D : list[o] \subseteq D
  <2> SUFFICES ASSUME NEW o \in D PROVE list[o] \subseteq D
    OBVIOUS
  <2>1. PICK q \in roots : o \in Tree(q)
    BY <1>4
  <2>2. q \in Objects
    BY <1>1, <1>3
  <2>3. list[o] \subseteq Tree(q)
    BY <1>1, <2>1, <2>2, TreeClosed
  <2> QED BY <1>5, <2>3
<1>7. roots \subseteq D
  BY <1>1, <1>3, <1>5, TreeClosed
<1>8. \A o \in D : loc[o] \in Places
  BY <1>1, <1>4 DEF live
<1>9. DOMAIN f.records = D /\ \A o \in D : f.records[o].loc = loc[o] /\ f.records[o].list = list[o]
  BY <1>2
<1> HIDE DEF D
<1>10. PlainFile(f)
  <2>1. f.records \in [D -> [loc : Places, list : SUBSET D]]
    BY <1>2, <1>6, <1>8
  <2>2. f.ids \subseteq D
    BY <1>2, <1>7
  <2> QED BY <1>4, <1>9, <2>1, <2>2 DEF PlainFile
<1>11. ASSUME Agreed(World) PROVE Sound(x, f)
  <2>1. /\ \A h \in Holders : \A o \in list[h] : o \in live /\ loc[o].in = h
        /\ \A o \in live : o \in list[loc[o].in]
    BY <1>11 DEF Agreed, World, In, live
  <2>2. ASSUME NEW o \in D PROVE loc[o].in \in {x} \cup D
    <3>1. PICK q \in roots : o \in Tree(q)
      BY <1>4
    <3>2. q \in Objects
      BY <1>1, <1>3
    <3>3. CASE o = q
      <4>1. CASE x \in Rooms
        BY <3>3, <4>1
      <4>2. CASE x \notin Rooms
        BY <1>1, <2>1, <3>3, <4>2
      <4> QED BY <4>1, <4>2
    <3>4. CASE o # q
      <4>1. PICK y \in Tree(q) : o \in list[y]
        BY <1>1, <3>1, <3>2, <3>4, TreeClosed
      <4>2. y \in D /\ y \in Holders
        BY <1>4, <1>5, <4>1, HolderFacts
      <4> QED BY <2>1, <4>1, <4>2
    <3> QED BY <3>3, <3>4
  <2>3. ASSUME NEW k \in D PROVE list[k] = {o \in D : loc[o].in = k}
    BY <1>4, <1>6, <2>1, HolderFacts
  <2> QED BY <1>9, <2>2, <2>3 DEF Sound
<1> QED BY <1>10, <1>11

\* A player's or a bank's file over a world.
LEMMA OverwriteKeeps ==
    ASSUME NEW w, IsWorld(w), Listed(w), OnlyBase(w), NEW x \in Players \cup Banks, PlainFile(disk[x])
    PROVE  LET v == Overwrite(w, x) IN
           /\ IsWorld(v) /\ Listed(v) /\ OnlyBase(v)
           /\ Sound(x, disk[x]) /\ NoneDangles(w) /\ FloorsListed(w)
                => NoneDangles(v) /\ FloorsListed(v)
<1> DEFINE v == Overwrite(w, x)
           f == disk[x]
           D == DOMAIN f.records
<1>1. /\ D \subseteq Objects /\ f.ids \subseteq D
      /\ \A o \in D : f.records[o].loc \in Places /\ f.records[o].list \subseteq D
      /\ w.loc \in [Objects -> Places \cup {Nowhere}] /\ w.list \in [Holders -> SUBSET Objects]
      /\ x \in Holders /\ x \notin Objects /\ x \notin Rooms
  BY PlaceFacts, HolderFacts DEF PlainFile, IsWorld, Owners
<1>2. /\ v.loc = [o \in Objects |-> IF o \in D THEN f.records[o].loc ELSE w.loc[o]]
      /\ v.list = [h \in Holders |-> IF h = x THEN f.ids
                                     ELSE IF h \in D THEN f.records[h].list ELSE w.list[h]]
  BY DEF Overwrite
<1> HIDE DEF v, D
<1>3. v.loc \in [Objects -> Places \cup {Nowhere}] /\ v.list \in [Holders -> SUBSET Objects]
  BY <1>1, <1>2
<1>4. In(v) = In(w) \cup D
  BY <1>1, <1>2, PlaceFacts DEF In
<1>5. \A h \in Holders : v.list[h] \subseteq In(w) \cup D
  BY <1>1, <1>2 DEF Listed
<1>6. \A r \in Rooms : v.list[r] = w.list[r]
  BY <1>1, <1>2, HolderFacts
<1>7. ASSUME Sound(x, f), NoneDangles(w), FloorsListed(w) PROVE NoneDangles(v) /\ FloorsListed(v)
  <2>1. \A o \in D : v.loc[o] = f.records[o].loc /\ v.loc[o].in \in {x} \cup D
    BY <1>1, <1>2, <1>7 DEF Sound, D
  <2>2. \A o \in Objects \ D : v.loc[o] = w.loc[o]
    BY <1>2
  <2>3. NoneDangles(v)
    BY <1>4, <1>7, <2>1, <2>2 DEF NoneDangles, In
  <2>4. FloorsListed(v)
    BY <1>1, <1>6, <1>7, <2>1, <2>2, HolderFacts DEF FloorsListed
  <2> QED BY <2>3, <2>4
<1>8. IsWorld(v) /\ Listed(v) /\ OnlyBase(v)
  BY <1>3, <1>4, <1>5, <1>6 DEF IsWorld, Listed, OnlyBase
<1> QED BY <1>7, <1>8 DEF v

-----------------------------------------------------------------------------
(* The objects of a room's file, one after the other.                         *)

\* A set of naturals has a least member.
LEMMA LeastNatural ==
    ASSUME NEW T \in SUBSET Nat, T # {}
    PROVE  \E x \in T : \A y \in T : x <= y
<1>1. IsWellFoundedOn(OpToRel(<, Nat), Nat)
  BY NatLessThanWellFounded
<1>2. PICK x \in T : \A y \in T : ~(<<y, x>> \in OpToRel(<, Nat))
  BY <1>1, WFMin
<1>3. \A y \in T : ~(y < x)
  BY <1>2 DEF OpToRel
<1> QED BY <1>3

\* A finite set of naturals has a last member.
LEMMA LastExists ==
    ASSUME NEW S \in SUBSET Nat, IsFiniteSet(S), S # {}
    PROVE  Last(S) \in S
<1> DEFINE Fails(T) == /\ IsFiniteSet(T) /\ T # {}
                       /\ ~\E o \in T : \A c \in T : c <= o
           Sizes == {n \in Nat : \E T \in SUBSET Nat : Fails(T) /\ Cardinality(T) = n}
<1>1. Sizes = {}
  <2> SUFFICES ASSUME Sizes # {} PROVE FALSE
    OBVIOUS
  <2>1. PICK n \in Sizes : \A m \in Sizes : n <= m
    <3>1. Sizes \in SUBSET Nat
      OBVIOUS
    <3> HIDE DEF Sizes
    <3> QED BY <3>1, LeastNatural
  <2>2. PICK T \in SUBSET Nat : Fails(T) /\ Cardinality(T) = n
    OBVIOUS
  <2>3. PICK x \in T : TRUE
    BY <2>2
  <2>4. /\ IsFiniteSet(T \ {x}) /\ Cardinality(T \ {x}) = n - 1
        /\ Cardinality(T \ {x}) \in Nat
    BY <2>2, <2>3, FS_RemoveElement, FS_CardinalityType
  <2>5. n - 1 \notin Sizes
    BY <2>1, <2>4
  <2>6. T \ {x} = {} \/ \E o \in T \ {x} : \A c \in T \ {x} : c <= o
    BY <2>4, <2>5
  <2>7. CASE T \ {x} = {}
    <3>1. \A c \in T : c = x /\ x \in Nat
      BY <2>3, <2>7
    <3>2. \A c \in T : c <= x
      BY <3>1
    <3> QED BY <2>2, <2>3, <3>2
  <2>8. ASSUME NEW o \in T \ {x}, \A c \in T \ {x} : c <= o PROVE FALSE
    <3>1. x \in Nat /\ o \in Nat /\ \A c \in T : c \in Nat
      BY <2>3
    <3>2. CASE x <= o
      <4>1. \A c \in T : c <= o
        BY <2>8, <3>2
      <4> QED BY <2>2, <4>1
    <3>3. CASE o <= x
      <4>1. \A c \in T : c <= x
        BY <2>8, <3>1, <3>3
      <4> QED BY <2>2, <2>3, <4>1
    <3> QED BY <3>1, <3>2, <3>3
  <2> QED BY <2>6, <2>7, <2>8
<1>2. \E o \in S : \A c \in S : c <= o
  <2>1. Cardinality(S) \in Nat
    BY FS_CardinalityType
  <2> QED BY <1>1, <2>1
<1> QED BY <1>2 DEF Last

\* What holds of the empty set, and of a set if it holds without its last
\* member, holds of every subset of a finite set of naturals.
LEMMA SubsetInduction ==
    ASSUME NEW D \in SUBSET Nat, IsFiniteSet(D), NEW Good \in SUBSET SUBSET D, {} \in Good,
           \A S \in SUBSET D : S # {} /\ S \ {Last(S)} \in Good => S \in Good
    PROVE  \A S \in SUBSET D : S \in Good
<1> DEFINE Sizes == {n \in Nat : \E S \in SUBSET D : S \notin Good /\ Cardinality(S) = n}
<1>1. Sizes = {}
  <2> SUFFICES ASSUME Sizes # {} PROVE FALSE
    OBVIOUS
  <2>1. PICK n \in Sizes : \A m \in Sizes : n <= m
    <3>1. Sizes \in SUBSET Nat
      OBVIOUS
    <3> HIDE DEF Sizes
    <3> QED BY <3>1, LeastNatural
  <2>2. PICK S \in SUBSET D : S \notin Good /\ Cardinality(S) = n
    OBVIOUS
  <2>3. S # {} /\ IsFiniteSet(S) /\ S \in SUBSET Nat
    BY <2>2, FS_Subset
  <2>4. Last(S) \in S
    BY <2>3, LastExists
  <2>5. Cardinality(S \ {Last(S)}) = n - 1 /\ Cardinality(S \ {Last(S)}) \in Nat
    BY <2>2, <2>3, <2>4, FS_RemoveElement, FS_CardinalityType
  <2>6. n - 1 \notin Sizes
    BY <2>1, <2>5
  <2>7. S \ {Last(S)} \in Good
    BY <2>5, <2>6
  <2> QED BY <2>2, <2>3, <2>7
<1>2. \A S \in SUBSET D : Cardinality(S) \in Nat
  BY FS_Subset, FS_CardinalityType
<1> QED BY <1>1, <1>2

\* One step of the recursion of Rehomed.
NextRehomed(g, S, w, records) ==
    IF S = {} THEN w ELSE Rehome(g[S \ {Last(S)}], Last(S), records[Last(S)])

\* The recursion defines a function.
LEMMA RehomedExists ==
    ASSUME NEW w, NEW records, NEW D \in SUBSET Nat, IsFiniteSet(D)
    PROVE  \E g : g = [S \in SUBSET D |-> NextRehomed(g, S, w, records)]
<1> DEFINE Upto(n, g) == \A S \in SUBSET D : Cardinality(S) <= n => g[S] = NextRehomed(g, S, w, records)
           Sizes == {n \in Nat : ~\E g : g = [S \in SUBSET D |-> g[S]] /\ Upto(n, g)}
<1>1. \A S \in SUBSET D : /\ IsFiniteSet(S) /\ Cardinality(S) \in Nat /\ (Cardinality(S) = 0 => S = {})
                          /\ S # {} => /\ Last(S) \in S
                                       /\ Cardinality(S \ {Last(S)}) = Cardinality(S) - 1
  BY FS_Subset, FS_CardinalityType, FS_EmptySet, LastExists, FS_RemoveElement
<1>2. Sizes = {}
  <2> SUFFICES ASSUME Sizes # {} PROVE FALSE
    OBVIOUS
  <2>1. PICK n \in Sizes : \A m \in Sizes : n <= m
    <3>1. Sizes \in SUBSET Nat
      OBVIOUS
    <3> HIDE DEF Sizes
    <3> QED BY <3>1, LeastNatural
  <2>0. n \in Nat
    OBVIOUS
  <2>2. CASE n = 0
    <3> DEFINE g == [S \in SUBSET D |-> w]
    <3>1. g = [S \in SUBSET D |-> g[S]] /\ \A S \in SUBSET D : g[S] = w
      OBVIOUS
    <3>4. \A S \in SUBSET D : Cardinality(S) <= 0 => S = {}
      <4>1. \A k \in Nat : k <= 0 => k = 0
        OBVIOUS
      <4> QED BY <1>1, <4>1
    <3>2. Upto(0, g)
      BY <3>1, <3>4 DEF NextRehomed
    <3> HIDE DEF g
    <3> QED BY <2>2, <3>1, <3>2
  <2>3. CASE n # 0
    <3>1. n - 1 \in Nat /\ n - 1 \notin Sizes
      <4>1. n - 1 \in Nat /\ ~(n <= n - 1)
        BY <2>0, <2>3
      <4> HIDE DEF Sizes
      <4> QED BY <2>1, <4>1
    <3>2. PICK g : g = [S \in SUBSET D |-> g[S]] /\ Upto(n - 1, g)
      BY <3>1
    <3> DEFINE h == [S \in SUBSET D |-> IF Cardinality(S) = n THEN NextRehomed(g, S, w, records) ELSE g[S]]
    <3>3. \A S \in SUBSET D : /\ Cardinality(S) = n => h[S] = NextRehomed(g, S, w, records)
                              /\ Cardinality(S) # n => h[S] = g[S]
      OBVIOUS
    <3>4. h = [S \in SUBSET D |-> h[S]]
      OBVIOUS
    <3> HIDE DEF h
    <3>5. \A S \in SUBSET D : Cardinality(S) <= n => NextRehomed(h, S, w, records) = NextRehomed(g, S, w, records)
      <4> SUFFICES ASSUME NEW S \in SUBSET D, Cardinality(S) <= n, S # {}
                   PROVE  h[S \ {Last(S)}] = g[S \ {Last(S)}]
        BY DEF NextRehomed
      <4>1. Cardinality(S \ {Last(S)}) # n /\ S \ {Last(S)} \in SUBSET D
        BY <1>1
      <4> QED BY <3>3, <4>1
    <3>6. Upto(n, h)
      <4> SUFFICES ASSUME NEW S \in SUBSET D, Cardinality(S) <= n PROVE h[S] = NextRehomed(h, S, w, records)
        OBVIOUS
      <4>1. CASE Cardinality(S) = n
        BY <3>3, <3>5, <4>1
      <4>2. CASE Cardinality(S) # n
        <5>1. Cardinality(S) <= n - 1
          <6>1. Cardinality(S) \in Nat
            BY <1>1
          <6> QED BY <2>0, <4>2, <6>1
        <5> QED BY <3>2, <3>3, <3>5, <4>2, <5>1
      <4> QED BY <4>1, <4>2
    <3> HIDE DEF Upto
    <3> QED BY <3>4, <3>6
  <2> QED BY <2>2, <2>3
<1>3. Cardinality(D) \in Nat /\ \A S \in SUBSET D : Cardinality(S) <= Cardinality(D)
  BY FS_CardinalityType, FS_Subset
<1>4. PICK g : g = [S \in SUBSET D |-> g[S]] /\ Upto(Cardinality(D), g)
  BY <1>2, <1>3
<1>5. \A S \in SUBSET D : g[S] = NextRehomed(g, S, w, records)
  BY <1>3, <1>4
<1>6. g = [S \in SUBSET D |-> NextRehomed(g, S, w, records)]
  BY <1>4, <1>5
<1> QED BY <1>6

\* Its value, one object at a time.
Unfolds(g, w, records) ==
    /\ g[{}] = w
    /\ \A S \in SUBSET DOMAIN records :
          S # {} => /\ Last(S) \in S
                    /\ g[S] = Rehome(g[S \ {Last(S)}], Last(S), records[Last(S)])

\* Rehomed is such a function's value at the whole file.
LEMMA RehomedUnfolds ==
    ASSUME NEW w, NEW records, DOMAIN records \in SUBSET Objects
    PROVE  \E g : Rehomed(w, records) = g[DOMAIN records] /\ Unfolds(g, w, records)
<1> DEFINE D == DOMAIN records
           g == CHOOSE g : g = [S \in SUBSET D |-> NextRehomed(g, S, w, records)]
<1>1. D \in SUBSET Nat /\ IsFiniteSet(D)
  BY RestoreAssumption, FS_Subset
<1>2. Rehomed(w, records) = g[D]
  BY DEF Rehomed, NextRehomed
<1>3. g = [S \in SUBSET D |-> NextRehomed(g, S, w, records)]
  <2> HIDE DEF D
  <2> QED BY <1>1, RehomedExists
<1>4. \A S \in SUBSET D : S # {} => Last(S) \in S
  BY <1>1, FS_Subset, LastExists
<1> HIDE DEF g, D
<1>5. \A S \in SUBSET D : g[S] = NextRehomed(g, S, w, records)
  BY <1>3
<1>6. g[{}] = w /\ \A S \in SUBSET D : S # {} => g[S] = Rehome(g[S \ {Last(S)}], Last(S), records[Last(S)])
  BY <1>5 DEF NextRehomed
<1> QED BY <1>2, <1>4, <1>6 DEF D, Unfolds

\* One object of a room's file put in its place.
LEMMA RehomeFacts ==
    ASSUME NEW w, IsWorld(w), NEW o \in Objects, NEW rec, rec.loc \in Places, rec.list \subseteq Objects
    PROVE  LET v == Rehome(w, o, rec)
               left(h) == IF h = w.loc[o].in /\ w.loc[o] # rec.loc THEN w.list[h] \ {o} ELSE w.list[h]
           IN /\ IsWorld(v)
              /\ v.loc = [w.loc EXCEPT ![o] = rec.loc]
              /\ \A h \in Holders : \A c \in v.list[h] :
                    \/ h = o /\ c \in rec.list
                    \/ h # o /\ c \in left(h)
                    \/ c \in {o} \cup rec.list /\ v.loc[c] # Nowhere /\ v.loc[c].in = h
              /\ \A h \in Holders : (IF h = o THEN rec.list ELSE left(h)) \subseteq v.list[h]
              /\ o \in v.list[rec.loc.in]
<1> DEFINE v == Rehome(w, o, rec)
           l == [w.loc EXCEPT ![o] = rec.loc]
           wired == {o} \cup {c \in rec.list : l[c] # Nowhere}
           left(h) == IF h = w.loc[o].in /\ w.loc[o] # rec.loc THEN w.list[h] \ {o} ELSE w.list[h]
           gone == Leave(w, o, rec.loc)
<1>1. /\ w.loc \in [Objects -> Places \cup {Nowhere}] /\ w.list \in [Holders -> SUBSET Objects]
      /\ rec.loc.in \in Holders /\ rec.loc # Nowhere
  BY PlaceFacts DEF IsWorld
<1>2. gone \in [Holders -> SUBSET Objects] /\ \A h \in Holders : gone[h] = left(h)
  <2>1. CASE w.loc[o] \in {rec.loc, Nowhere}
    <3>1. gone = w.list
      BY <2>1 DEF Leave
    <3>2. \A h \in Holders : left(h) = w.list[h]
      BY <1>1, <2>1, PlaceFacts, HolderFacts
    <3> QED BY <1>1, <3>1, <3>2
  <2>2. CASE w.loc[o] \notin {rec.loc, Nowhere}
    <3>1. gone = [w.list EXCEPT ![w.loc[o].in] = @ \ {o}]
      BY <2>2 DEF Leave
    <3> QED BY <1>1, <2>2, <3>1
  <2> QED BY <2>1, <2>2
<1>3. /\ v.loc = l
      /\ v.list = [h \in Holders |->
                     (IF h = o THEN rec.list ELSE gone[h]) \cup {c \in wired : l[c].in = h}]
  BY DEF Rehome
<1>4. /\ l \in [Objects -> Places \cup {Nowhere}] /\ l[o] = rec.loc /\ l[o] # Nowhere
      /\ wired \subseteq Objects /\ o \in wired
  BY <1>1
<1> HIDE DEF v, l, gone, wired
<1>5. \A h \in Holders : v.list[h] = (IF h = o THEN rec.list ELSE left(h)) \cup {c \in wired : l[c].in = h}
  BY <1>2, <1>3
<1>6. v.list \in [Holders -> SUBSET Objects]
  BY <1>2, <1>3, <1>4
<1>7. \A c \in wired : c \in {o} \cup rec.list /\ l[c] # Nowhere
  BY <1>4 DEF wired
<1>8. o \in v.list[rec.loc.in]
  BY <1>1, <1>4, <1>5
<1> HIDE DEF left
<1>9. \A h \in Holders : \A c \in v.list[h] :
         \/ h = o /\ c \in rec.list
         \/ h # o /\ c \in left(h)
         \/ c \in {o} \cup rec.list /\ v.loc[c] # Nowhere /\ v.loc[c].in = h
  BY <1>3, <1>5, <1>7
<1>10. \A h \in Holders : (IF h = o THEN rec.list ELSE left(h)) \subseteq v.list[h]
  BY <1>5
<1> QED BY <1>3, <1>4, <1>6, <1>8, <1>9, <1>10 DEF v, l, left, IsWorld

\* What each object that is put in its place keeps of the world.
LEMMA RehomeKeeps ==
    ASSUME NEW D \in SUBSET Objects, NEW w, IsWorld(w), NEW o \in D, NEW rec,
           rec.loc \in Places, rec.list \subseteq D,
           \A h \in Holders : w.list[h] \subseteq In(w) \cup D, FloorListsTrue(w)
    PROVE  LET v == Rehome(w, o, rec) IN
           /\ \A h \in Holders : v.list[h] \subseteq In(v) \cup D
           /\ FloorListsTrue(v)
           /\ FloorsListed(w) => FloorsListed(v)
<1> DEFINE v == Rehome(w, o, rec)
           left(h) == IF h = w.loc[o].in /\ w.loc[o] # rec.loc THEN w.list[h] \ {o} ELSE w.list[h]
<1>1. /\ o \in Objects /\ rec.list \subseteq Objects
      /\ w.loc \in [Objects -> Places \cup {Nowhere}] /\ w.list \in [Holders -> SUBSET Objects]
      /\ rec.loc # Nowhere /\ rec.loc.in \in Holders
  BY PlaceFacts DEF IsWorld
<1>2. /\ IsWorld(v) /\ v.loc = [w.loc EXCEPT ![o] = rec.loc]
      /\ \A h \in Holders : \A c \in v.list[h] :
            \/ h = o /\ c \in rec.list
            \/ h # o /\ c \in left(h)
            \/ c \in {o} \cup rec.list /\ v.loc[c] # Nowhere /\ v.loc[c].in = h
      /\ \A h \in Holders : (IF h = o THEN rec.list ELSE left(h)) \subseteq v.list[h]
      /\ o \in v.list[rec.loc.in]
  BY <1>1, RehomeFacts
<1> HIDE DEF v
<1>3. v.loc[o] = rec.loc /\ \A c \in Objects \ {o} : v.loc[c] = w.loc[c]
  BY <1>1, <1>2
<1>4. In(w) \subseteq In(v)
  BY <1>1, <1>3 DEF In
<1>5. \A h \in Holders : v.list[h] \subseteq In(v) \cup D
  <2> SUFFICES ASSUME NEW h \in Holders, NEW c \in v.list[h] PROVE c \in In(v) \cup D
    OBVIOUS
  <2>1. c \in rec.list \/ c \in w.list[h] \/ c = o
    BY <1>2
  <2> QED BY <1>4, <2>1
<1>6. FloorListsTrue(v)
  <2> SUFFICES ASSUME NEW r \in Rooms, NEW c \in v.list[r], Static[c] = None PROVE v.loc[c] = At(r)
    BY DEF FloorListsTrue
  <2>1. r \in Holders /\ r # o
    BY <1>1, HolderFacts
  <2>2. CASE v.loc[c] # Nowhere /\ v.loc[c].in = r /\ c \in {o} \cup rec.list
    <3>1. v.loc[c] \in Places
      BY <1>1, <1>2, <2>2 DEF IsWorld
    <3> QED BY <2>2, <3>1, PlaceFacts
  <2>3. CASE c \in left(r)
    <3>1. c \in w.list[r] /\ w.loc[c] = At(r) /\ c \in Objects
      BY <1>1, <2>1, <2>3 DEF FloorListsTrue
    <3>2. c = o => w.loc[o] = rec.loc
      BY <2>1, <2>3, <3>1, PlaceFacts
    <3> QED BY <1>3, <3>1, <3>2
  <2> QED BY <1>2, <2>1, <2>2, <2>3
<1>7. ASSUME FloorsListed(w) PROVE FloorsListed(v)
  <2> SUFFICES ASSUME NEW c \in Objects, v.loc[c].in \in Rooms PROVE c \in v.list[v.loc[c].in]
    BY DEF FloorsListed
  <2>1. CASE c = o
    BY <1>2, <1>3, <2>1
  <2>2. CASE c # o
    <3>1. w.loc[c] = v.loc[c] /\ c \in w.list[v.loc[c].in] /\ v.loc[c].in # o /\ v.loc[c].in \in Holders
      BY <1>1, <1>3, <1>7, <2>2, HolderFacts DEF FloorsListed
    <3>2. c \in left(v.loc[c].in)
      BY <2>2, <3>1
    <3> QED BY <1>2, <3>1, <3>2
  <2> QED BY <2>1, <2>2
<1> QED BY <1>5, <1>6, <1>7 DEF v

\* The whole file.
LEMMA RehomedKeeps ==
    ASSUME NEW w, IsWorld(w), Listed(w), FloorListsTrue(w), NEW f, PlainFile(f)
    PROVE  LET v == Rehomed(w, f.records) IN
           /\ IsWorld(v) /\ Listed(v) /\ FloorListsTrue(v)
           /\ FloorsListed(w) => FloorsListed(v)
           /\ v.loc = [o \in Objects |-> IF o \in DOMAIN f.records THEN f.records[o].loc ELSE w.loc[o]]
<1> DEFINE D == DOMAIN f.records
           rec(o) == f.records[o]
<1>1. /\ D \in SUBSET Objects /\ D \in SUBSET Nat /\ IsFiniteSet(D)
      /\ \A o \in D : rec(o).loc \in Places /\ rec(o).list \subseteq D
      /\ w.loc \in [Objects -> Places \cup {Nowhere}]
  BY RestoreAssumption, FS_Subset DEF PlainFile, IsWorld
<1>2. PICK g : /\ Rehomed(w, f.records) = g[D]
               /\ g[{}] = w
               /\ \A S \in SUBSET D :
                     S # {} => Last(S) \in S /\ g[S] = Rehome(g[S \ {Last(S)}], Last(S), rec(Last(S)))
  <2>1. PICK g : Rehomed(w, f.records) = g[D] /\ Unfolds(g, w, f.records)
    BY <1>1, RehomedUnfolds
  <2> QED BY <2>1 DEF Unfolds
<1> DEFINE Locs(S) == [o \in Objects |-> IF o \in S THEN rec(o).loc ELSE w.loc[o]]
           Good == {S \in SUBSET D :
                      /\ IsWorld(g[S]) /\ g[S].loc = Locs(S)
                      /\ \A h \in Holders : g[S].list[h] \subseteq In(g[S]) \cup D
                      /\ FloorListsTrue(g[S]) /\ (FloorsListed(w) => FloorsListed(g[S]))}
<1> HIDE DEF D, rec
<1>3. {} \in Good
  BY <1>1, <1>2 DEF Listed
<1>4. ASSUME NEW S \in SUBSET D, S # {}, S \ {Last(S)} \in Good PROVE S \in Good
  <2> DEFINE o == Last(S)
             u == g[S \ {o}]
  <2>1. o \in S /\ o \in D /\ o \in Objects /\ g[S] = Rehome(u, o, rec(o))
    BY <1>1, <1>2, <1>4
  <2>2. /\ IsWorld(u) /\ u.loc = Locs(S \ {o}) /\ FloorListsTrue(u)
        /\ \A h \in Holders : u.list[h] \subseteq In(u) \cup D
        /\ FloorsListed(w) => FloorsListed(u)
    BY <1>4
  <2> HIDE DEF u, o
  <2>3. rec(o).loc \in Places /\ rec(o).list \subseteq D /\ rec(o).list \subseteq Objects
    BY <1>1, <2>1
  <2>4. IsWorld(g[S]) /\ g[S].loc = [u.loc EXCEPT ![o] = rec(o).loc]
    BY <2>1, <2>2, <2>3, RehomeFacts
  <2>5. /\ \A h \in Holders : g[S].list[h] \subseteq In(g[S]) \cup D
        /\ FloorListsTrue(g[S]) /\ (FloorsListed(u) => FloorsListed(g[S]))
    BY <1>1, <2>1, <2>2, <2>3, RehomeKeeps
  <2>6. g[S].loc = Locs(S)
    BY <2>1, <2>2, <2>4
  <2> QED BY <2>2, <2>4, <2>5, <2>6
<1>5. D \in Good
  <2>1. Good \in SUBSET SUBSET D
    OBVIOUS
  <2> HIDE DEF Good
  <2> QED BY <1>1, <1>3, <1>4, <2>1, SubsetInduction
<1>6. D \subseteq In(g[D])
  BY <1>1, <1>5, PlaceFacts DEF In
<1> QED BY <1>2, <1>5, <1>6 DEF Listed, D, rec

\* How far the objects S of a sound file are in place, in the world u that w has
\* become: they are where their records say, their holders list them, and their
\* own lists have what the records list and what is still to move out.
InPlace(S, u, w, f) ==
    /\ IsWorld(u)
    /\ u.loc = [o \in Objects |-> IF o \in S THEN f.records[o].loc ELSE w.loc[o]]
    /\ \A k \in S : f.records[k].list \subseteq u.list[k]
    /\ \A k \in S : \A c \in u.list[k] :
          c \in f.records[k].list \/ (c \in DOMAIN f.records \ S /\ w.loc[c].in = k)
    /\ \A c \in S : c \in u.list[f.records[c].loc.in]

\* One more object in place.
LEMMA RehomeWires ==
    ASSUME NEW w, IsWorld(w), NEW x, NEW f, PlainFile(f), Sound(x, f),
           NEW S \in SUBSET DOMAIN f.records, NEW o \in S, NEW u, InPlace(S \ {o}, u, w, f)
    PROVE  InPlace(S, Rehome(u, o, f.records[o]), w, f)
<1> DEFINE D == DOMAIN f.records
           at(c) == f.records[c].loc
           contents(c) == f.records[c].list
           v == Rehome(u, o, f.records[o])
           left(h) == IF h = u.loc[o].in /\ u.loc[o] # at(o) THEN u.list[h] \ {o} ELSE u.list[h]
<1>1. /\ D \subseteq Objects /\ o \in Objects /\ o \in D
      /\ \A c \in D : at(c) \in Places /\ contents(c) \subseteq D
      /\ \A k \in D : contents(k) = {c \in D : at(c).in = k}
      /\ contents(o) \subseteq Objects
  BY DEF PlainFile, Sound
<1>2. /\ IsWorld(u) /\ u.loc = [c \in Objects |-> IF c \in S \ {o} THEN at(c) ELSE w.loc[c]]
      /\ \A k \in S \ {o} : contents(k) \subseteq u.list[k]
      /\ \A k \in S \ {o} : \A c \in u.list[k] :
            c \in contents(k) \/ (c \in D \ (S \ {o}) /\ w.loc[c].in = k)
      /\ \A c \in S \ {o} : c \in u.list[at(c).in]
  BY DEF InPlace
<1>3. /\ IsWorld(v) /\ v.loc = [u.loc EXCEPT ![o] = at(o)]
      /\ \A h \in Holders : \A c \in v.list[h] :
            \/ h = o /\ c \in contents(o)
            \/ h # o /\ c \in left(h)
            \/ c \in {o} \cup contents(o) /\ v.loc[c] # Nowhere /\ v.loc[c].in = h
      /\ \A h \in Holders : (IF h = o THEN contents(o) ELSE left(h)) \subseteq v.list[h]
      /\ o \in v.list[at(o).in]
  BY <1>1, <1>2, RehomeFacts
<1>4. w.loc \in [Objects -> Places \cup {Nowhere}]
  BY DEF IsWorld
<1> HIDE DEF D, at, contents, v
<1>5. v.loc = [c \in Objects |-> IF c \in S THEN at(c) ELSE w.loc[c]]
  BY <1>1, <1>2, <1>3, <1>4
<1>6. u.loc[o] = w.loc[o] /\ \A c \in Objects : (c \in S => v.loc[c] = at(c)) /\ (c \notin S => v.loc[c] = w.loc[c])
  BY <1>1, <1>2, <1>4, <1>5
<1>7. S \subseteq D /\ S \subseteq Objects /\ \A k \in S : k \in Holders
  BY <1>1, HolderFacts DEF D
<1>8. ASSUME NEW k \in S PROVE contents(k) \subseteq v.list[k]
  <2>1. CASE k = o
    BY <1>3, <1>7, <2>1
  <2>2. CASE k # o
    <3>1. contents(k) \subseteq u.list[k]
      BY <1>2, <2>2
    <3>2. o \in contents(k) => at(o).in = k
      BY <1>1, <1>7
    <3>3. at(o).in = k /\ u.loc[o].in = k => u.loc[o] = at(o)
      BY <1>1, <1>4, <1>6, PlaceFacts, HolderFacts
    <3>4. contents(k) \subseteq left(k)
      BY <3>1, <3>2, <3>3
    <3> QED BY <1>3, <1>7, <2>2, <3>4
  <2> QED BY <2>1, <2>2
<1>9. ASSUME NEW k \in S, NEW c \in v.list[k] PROVE c \in contents(k) \/ (c \in D \ S /\ w.loc[c].in = k)
  <2>1. CASE c \in contents(o) /\ k = o
    BY <2>1
  <2>2. CASE k # o /\ c \in left(k)
    <3>1. c \in contents(k) \/ (c \in D \ (S \ {o}) /\ w.loc[c].in = k)
      BY <1>2, <2>2
    <3>2. CASE c = o /\ w.loc[c].in = k
      <4>1. u.loc[o] = at(o)
        BY <1>6, <2>2, <3>2
      <4> QED BY <1>1, <1>6, <1>7, <3>2, <4>1
    <3> QED BY <3>1, <3>2
  <2>3. CASE c \in {o} \cup contents(o) /\ v.loc[c].in = k
    <3>1. c \in D /\ c \in Objects
      BY <1>1, <2>3
    <3>2. CASE c \in S
      BY <1>1, <1>6, <1>7, <2>3, <3>1, <3>2
    <3>3. CASE c \notin S
      BY <1>6, <2>3, <3>1, <3>3
    <3> QED BY <3>2, <3>3
  <2> QED BY <1>3, <1>7, <2>1, <2>2, <2>3
<1>10. ASSUME NEW c \in S PROVE c \in v.list[at(c).in]
  <2>1. CASE c = o
    BY <1>3, <2>1
  <2>2. CASE c # o
    <3>1. c \in u.list[at(c).in] /\ at(c).in \in Holders /\ c \in D
      BY <1>1, <1>2, <1>7, <2>2, PlaceFacts
    <3>2. CASE at(c).in = o
      <4>1. c \in contents(o)
        BY <1>1, <3>1, <3>2
      <4> QED BY <1>3, <1>7, <3>2, <4>1
    <3>3. CASE at(c).in # o
      <4>1. c \in left(at(c).in)
        BY <2>2, <3>1
      <4> QED BY <1>3, <3>1, <3>3, <4>1
    <3> QED BY <3>2, <3>3
  <2> QED BY <2>1, <2>2
<1> QED BY <1>3, <1>5, <1>8, <1>9, <1>10 DEF InPlace, v, D, at, contents

\* After the whole file each of its objects is in place, and putting it there
\* once more changes nothing.
LEMMA RehomeAgain ==
    ASSUME NEW w, IsWorld(w), NEW x, NEW f, PlainFile(f), Sound(x, f),
           NEW u, InPlace(DOMAIN f.records, u, w, f), u = [loc |-> u.loc, list |-> u.list],
           NEW o \in DOMAIN f.records
    PROVE  Rehome(u, o, f.records[o]) = u
<1> DEFINE D == DOMAIN f.records
           rec == f.records[o]
           l == [u.loc EXCEPT ![o] = rec.loc]
           wired == {o} \cup {c \in rec.list : l[c] # Nowhere}
<1>1. /\ D \subseteq Objects /\ o \in Objects /\ rec.loc \in Places /\ rec.list \subseteq D
      /\ \A k \in D : f.records[k].list = {c \in D : f.records[c].loc.in = k}
  BY DEF PlainFile, Sound
<1>2. /\ u.loc \in [Objects -> Places \cup {Nowhere}] /\ u.list \in [Holders -> SUBSET Objects]
      /\ \A c \in D : u.loc[c] = f.records[c].loc
      /\ u.list[o] = rec.list /\ o \in u.list[rec.loc.in]
  <2>1. IsWorld(u) /\ u.loc = [c \in Objects |-> IF c \in D THEN f.records[c].loc ELSE w.loc[c]]
    BY DEF InPlace
  <2>2. rec.list \subseteq u.list[o] /\ o \in u.list[rec.loc.in]
    BY DEF InPlace
  <2>3. \A c \in u.list[o] : c \in rec.list
    BY DEF InPlace
  <2>4. \A c \in D : u.loc[c] = f.records[c].loc
    BY <1>1, <2>1
  <2>5. /\ u.loc \in [Objects -> Places \cup {Nowhere}]
        /\ u.list \in [Holders -> SUBSET Objects]
    BY <2>1 DEF IsWorld
  <2> HIDE DEF D, rec
  <2>6. u.list[o] = rec.list
    BY <2>2, <2>3
  <2> QED BY <2>2, <2>4, <2>5, <2>6
<1>3. l = u.loc /\ Leave(u, o, rec.loc) = u.list
  BY <1>1, <1>2 DEF Leave
<1>4. ASSUME NEW h \in Holders
      PROVE  (IF h = o THEN rec.list ELSE u.list[h]) \cup {c \in wired : u.loc[c].in = h} = u.list[h]
  <2>1. ASSUME NEW c \in wired, u.loc[c].in = h PROVE c \in u.list[h]
    <3>1. CASE c = o
      BY <1>1, <1>2, <2>1, <3>1
    <3>2. CASE c \in rec.list
      BY <1>1, <1>2, <2>1, <3>2
    <3> QED BY <3>1, <3>2
  <2> QED BY <1>2, <2>1
<1>5. Rehome(u, o, rec) = [loc |-> u.loc, list |-> [h \in Holders |-> u.list[h]]]
  <2>1. Rehome(u, o, rec) =
           [loc |-> l, list |-> [h \in Holders |-> (IF h = o THEN rec.list ELSE Leave(u, o, rec.loc)[h])
                                                  \cup {c \in wired : l[c].in = h}]]
    BY DEF Rehome
  <2> HIDE DEF wired, l, rec
  <2> QED BY <1>3, <1>4, <2>1
<1> QED BY <1>2, <1>5

\* A second merge of a sound file changes nothing.
LEMMA RehomedTwice ==
    ASSUME NEW w, IsWorld(w), NEW x, NEW f, PlainFile(f), Sound(x, f)
    PROVE  Rehomed(Rehomed(w, f.records), f.records) = Rehomed(w, f.records)
<1> DEFINE D == DOMAIN f.records
           m == Rehomed(w, f.records)
<1>1. D \in SUBSET Objects /\ D \in SUBSET Nat /\ IsFiniteSet(D)
  BY RestoreAssumption, FS_Subset DEF PlainFile
<1>2. PICK g : m = g[D] /\ Unfolds(g, w, f.records)
  BY <1>1, RehomedUnfolds
<1> HIDE DEF m
<1>3. PICK again : Rehomed(m, f.records) = again[D] /\ Unfolds(again, m, f.records)
  BY <1>1, RehomedUnfolds
<1>4. InPlace(D, m, w, f)
  <2> DEFINE Good == {S \in SUBSET D : InPlace(S, g[S], w, f)}
  <2>1. {} \in Good
    <3>1. g[{}] = w /\ w.loc = [o \in Objects |-> w.loc[o]]
      BY <1>2 DEF Unfolds, IsWorld
    <3> QED BY <3>1 DEF InPlace
  <2>2. ASSUME NEW S \in SUBSET D, S # {}, S \ {Last(S)} \in Good PROVE S \in Good
    <3>1. Last(S) \in S /\ g[S] = Rehome(g[S \ {Last(S)}], Last(S), f.records[Last(S)])
      BY <1>2, <2>2 DEF Unfolds
    <3>2. InPlace(S, g[S], w, f)
      BY <2>2, <3>1, RehomeWires
    <3> QED BY <3>2
  <2>3. Good \in SUBSET SUBSET D
    OBVIOUS
  <2> HIDE DEF Good
  <2>4. D \in Good
    BY <1>1, <2>1, <2>2, <2>3, SubsetInduction
  <2> QED BY <1>2, <2>4 DEF Good
<1>5. CASE D = {}
  <2>1. Rehomed(m, f.records) = m
    BY <1>3, <1>5 DEF Unfolds
  <2> QED BY <2>1 DEF m
<1>6. CASE D # {}
  <2>1. m = [loc |-> m.loc, list |-> m.list]
    <3>1. m = Rehome(g[D \ {Last(D)}], Last(D), f.records[Last(D)])
      BY <1>2, <1>6 DEF Unfolds
    <3> QED BY <3>1 DEF Rehome
  <2> DEFINE Good == {S \in SUBSET D : again[S] = m}
  <2>2. {} \in Good
    BY <1>3 DEF Unfolds
  <2>3. ASSUME NEW S \in SUBSET D, S # {}, S \ {Last(S)} \in Good PROVE S \in Good
    <3>1. Last(S) \in S /\ again[S] = Rehome(m, Last(S), f.records[Last(S)])
      BY <1>3, <2>3 DEF Unfolds
    <3> QED BY <1>4, <2>1, <3>1, RehomeAgain
  <2>4. Good \in SUBSET SUBSET D
    OBVIOUS
  <2> HIDE DEF Good
  <2>5. D \in Good
    BY <1>1, <2>2, <2>3, <2>4, SubsetInduction
  <2>6. Rehomed(m, f.records) = m
    BY <1>3, <2>5 DEF Good
  <2> QED BY <2>6 DEF m
<1> QED BY <1>5, <1>6 DEF m

-----------------------------------------------------------------------------
(* The steps.                                                                 *)

\* A command that keeps the agreement of the lists, and dangles nothing that
\* did not dangle before.
LEMMA PlayInv ==
    ASSUME RInv, NEW M, Play(M), IsWorld(World'), Agreed(World'),
           NoneDangles(World) => NoneDangles(World'), UNCHANGED <<alive, strayed>>
    PROVE  RInv'
<1>1. /\ todo' = {} /\ disk' = disk /\ mixed' = mixed /\ alive' = {} /\ strayed' = {}
      /\ marked' \subseteq Rooms
  BY DEF RInv, Play, running
<1>2. Listed(World') /\ FloorListsTrue(World') /\ FloorsListed(World')
  BY AgreedFacts
<1>3. DOMAIN disk' = Owners /\ \A x \in Owners : PlainFile(disk'[x])
  BY <1>1 DEF RInv
<1>4. ~mixed' => NoneDangles(World') /\ \A x \in Owners : Sound(x, disk'[x])
  BY <1>1 DEF RInv
<1> QED BY <1>1, <1>2, <1>3, <1>4 DEF RInv

\* What a command finds.
LEMMA PlayFacts ==
    ASSUME RInv, NEW M, Play(M)
    PROVE  /\ IsWorld(World) /\ Agreed(World) /\ In(World) = live
           /\ World.loc = loc /\ World.list = list /\ World'.loc = loc' /\ World'.list = list'
           /\ loc \in [Objects -> Places \cup {Nowhere}] /\ list \in [Holders -> SUBSET Objects]
           /\ live \subseteq Objects
<1>1. World.loc = loc /\ World.list = list /\ World'.loc = loc' /\ World'.list = list'
  BY DEF World
<1>2. IsWorld(World) /\ strayed = {} /\ HoldersAgree
  BY DEF RInv, Play
<1>3. Agreed(World)
  BY <1>2, AgreedWorld
<1>4. In(World) = live
  BY <1>1 DEF In, live
<1> QED BY <1>1, <1>2, <1>3, <1>4 DEF IsWorld, live

\* MoveObject, Store and Take.
LEMMA HandleInv == RInv /\ Handle => RInv'
<1> SUFFICES ASSUME RInv, Handle PROVE RInv'
  OBVIOUS
<1>1. ASSUME NEW o \in Objects, NEW h \in Rooms \cup Players \cup live, NEW M,
             o \in live, Move(o, At(h)), Play(M)
      PROVE  RInv'
  <2>1. /\ IsWorld(World) /\ Agreed(World) /\ In(World) = live
        /\ World.loc = loc /\ World.list = list /\ World'.loc = loc' /\ World'.list = list'
        /\ live \subseteq Objects
    BY <1>1, PlayFacts
  <2>2. h \in Holders /\ At(h).in = h
    BY <2>1, PlaceFacts, HolderFacts
  <2>3. /\ loc' = [loc EXCEPT ![o] = At(h)]
        /\ list' = [list EXCEPT ![loc[o].in] = @ \ {o}, ![h] = @ \cup {o}]
        /\ UNCHANGED <<alive, strayed>>
    BY <1>1, <2>2 DEF Move, Relist
  <2>4. /\ World'.loc = [World.loc EXCEPT ![o] = At(h)]
        /\ World'.list = [World.list EXCEPT ![World.loc[o].in] = @ \ {o}, ![h] = @ \cup {o}]
    BY <2>1, <2>3
  <2>5. o \in In(World)
    BY <1>1, <2>1
  <2>6. /\ IsWorld(World') /\ Agreed(World')
        /\ NoneDangles(World) /\ h \in Rooms \cup Players \cup Banks \cup In(World)
              => NoneDangles(World')
    BY <2>1, <2>2, <2>4, <2>5, MoveAgrees
  <2>7. h \in Rooms \cup Players \cup Banks \cup In(World)
    BY <1>1, <2>1
  <2> QED BY <1>1, <2>3, <2>6, <2>7, PlayInv
<1>2. PICK o, k \in Objects, p \in Players, h \in Holders :
          \/ MoveObject(o, h) /\ Play({loc[o].in, h})
          \/ Store(p, o, k) /\ Play({loc[k].in})
          \/ Take(o, k, p) /\ Play({loc[k].in})
  BY DEF Handle
<1>3. CASE MoveObject(o, h) /\ Play({loc[o].in, h})
  BY <1>1, <1>3 DEF MoveObject, Found
<1>4. CASE Store(p, o, k) /\ Play({loc[k].in})
  <2>1. At(p) # Nowhere
    BY PlaceFacts, HolderFacts
  <2>2. o \in live /\ k \in live /\ Move(o, At(k))
    BY <1>4, <2>1 DEF Store, Held, live
  <2> QED BY <1>1, <1>4, <2>2
<1>5. CASE Take(o, k, p) /\ Play({loc[k].in})
  BY <1>1, <1>5 DEF Take, Found
<1> QED BY <1>2, <1>3, <1>4, <1>5

\* CreateObject and EnsureBankRoot.
LEMMA AppearInv == RInv /\ Appear => RInv'
<1> SUFFICES ASSUME RInv, Appear PROVE RInv'
  OBVIOUS
<1>0. PICK o \in Objects, h \in Rooms \cup Players \cup Banks : Create(o, h) /\ \E M : Play(M)
  BY DEF Appear, CreateObject, EnsureBankRoot
<1>1. PICK M : Create(o, h) /\ Play(M)
  BY <1>0
<1>2. /\ IsWorld(World) /\ Agreed(World) /\ In(World) = live
      /\ World.loc = loc /\ World.list = list /\ World'.loc = loc' /\ World'.list = list'
  BY <1>1, PlayFacts
<1>3. h \in Holders /\ o \in Objects \ In(World)
  BY <1>1, <1>2, HolderFacts DEF Create
<1>4. /\ World'.loc = [World.loc EXCEPT ![o] = At(h)]
      /\ World'.list = [World.list EXCEPT ![h] = @ \cup {o}]
      /\ UNCHANGED <<alive, strayed>>
  BY <1>1, <1>2 DEF Create
<1>5. /\ IsWorld(World') /\ Agreed(World')
      /\ NoneDangles(World) /\ h \in Rooms \cup Players \cup Banks => NoneDangles(World')
  BY <1>2, <1>3, <1>4, AddAgrees
<1> QED BY <1>1, <1>4, <1>5, PlayInv

\* DestroyObject.
LEMMA DestroyInv == RInv /\ Destroy => RInv'
<1> SUFFICES ASSUME RInv, Destroy PROVE RInv'
  OBVIOUS
<1>1. PICK o \in Objects : DestroyObject(o) /\ Play(OuterRoom(o))
  BY DEF Destroy
<1>2. /\ IsWorld(World) /\ Agreed(World)
      /\ World.loc = loc /\ World.list = list /\ World'.loc = loc' /\ World'.list = list'
      /\ list \in [Holders -> SUBSET Objects]
  BY <1>1, PlayFacts
<1>3. Doomed({o}) = Tree(o)
  BY DEF Doomed
<1>4. Tree(o) \in SUBSET Objects /\ \A y \in Tree(o) : World.list[y] \subseteq Tree(o)
  BY <1>2, TreeClosed
<1>5. /\ World'.loc = [x \in Objects |-> IF x \in Tree(o) THEN Nowhere ELSE World.loc[x]]
      /\ World'.list = [h \in Holders |-> IF h \in Tree(o) THEN {} ELSE World.list[h] \ Tree(o)]
      /\ UNCHANGED <<alive, strayed>>
  <2> DEFINE gone == Doomed({o})
             T == Tree(o)
  <2>1. /\ loc' = [x \in Objects |-> IF x \in gone THEN Nowhere ELSE loc[x]]
        /\ list' = [h \in Holders |-> IF h \in gone THEN {} ELSE list[h] \ gone]
        /\ UNCHANGED <<alive, strayed>>
    BY <1>1 DEF DestroyObject
  <2>2. gone = T
    BY <1>3
  <2> HIDE DEF gone, T
  <2>3. /\ loc' = [x \in Objects |-> IF x \in T THEN Nowhere ELSE loc[x]]
        /\ list' = [h \in Holders |-> IF h \in T THEN {} ELSE list[h] \ T]
    BY <2>1, <2>2
  <2>4. /\ World'.loc = [x \in Objects |-> IF x \in T THEN Nowhere ELSE World.loc[x]]
        /\ World'.list = [h \in Holders |-> IF h \in T THEN {} ELSE World.list[h] \ T]
    BY <1>2, <2>3
  <2> QED BY <2>1, <2>4 DEF T
<1>6. IsWorld(World') /\ Agreed(World') /\ (NoneDangles(World) => NoneDangles(World'))
  BY <1>2, <1>4, <1>5, DropAgrees
<1> QED BY <1>1, <1>5, <1>6, PlayInv

\* A step that leaves the world as it is and writes files of it.
LEMMA WriteInv ==
    ASSUME RInv, UNCHANGED <<vars, todo>>, NEW W \in SUBSET Owners,
           disk' = [x \in Owners |-> IF x \in W THEN Snapshot(x) ELSE disk[x]],
           mixed' = (mixed \/ ~HoldersAgree), marked' \subseteq Rooms
    PROVE  RInv'
<1>1. World' = World /\ alive' = {} /\ strayed' = {} /\ strayed = {} /\ todo' = todo
  BY DEF RInv, World, vars
<1>2. IsWorld(World) /\ Listed(World) /\ \A x \in Owners : PlainFile(disk[x])
  BY DEF RInv
<1>3. ASSUME NEW x \in Owners PROVE PlainFile(disk'[x])
  BY <1>2, SnapshotFile
<1>4. ASSUME ~mixed', NEW x \in Owners PROVE Sound(x, disk'[x])
  <2>1. ~mixed /\ Agreed(World)
    BY <1>1, <1>4, AgreedWorld
  <2>2. Sound(x, disk[x])
    BY <2>1 DEF RInv
  <2> QED BY <1>2, <2>1, <2>2, SnapshotFile
<1>5. ~mixed' => NoneDangles(World') /\ FloorsListed(World')
  BY <1>1 DEF RInv
<1>6. /\ IsWorld(World') /\ Listed(World') /\ FloorListsTrue(World')
      /\ todo' \cap Players # {} => OnlyBase(World')
      /\ todo' \subseteq Players \cup Rooms
  BY <1>1 DEF RInv
<1>7. DOMAIN disk' = Owners
  OBVIOUS
<1> QED BY <1>1, <1>3, <1>4, <1>5, <1>6, <1>7 DEF RInv

\* One file is written.
LEMMA WrittenInv ==
    ASSUME RInv, NEW x \in Owners, Written(x), marked' \subseteq marked
    PROVE  RInv'
<1>1. disk' = [disk EXCEPT ![x] = Snapshot(x)]
  BY DEF Written
<1>2. DOMAIN disk = Owners
  BY DEF RInv
<1>3. DOMAIN disk' = Owners /\ \A y \in Owners : disk'[y] = IF y = x THEN Snapshot(x) ELSE disk[y]
  BY <1>1, <1>2
<1>4. disk' = [y \in DOMAIN disk' |-> disk'[y]]
  BY <1>1
<1>5. disk' = [y \in Owners |-> IF y \in {x} THEN Snapshot(y) ELSE disk[y]]
  BY <1>3, <1>4
<1>6. {x} \in SUBSET Owners /\ marked' \subseteq Rooms /\ UNCHANGED <<vars, todo>>
  BY DEF Written, RInv
<1> QED BY <1>5, <1>6, WriteInv DEF Written

\* SavePlayer, SaveBank and the rooms of FlushDirtyRoomObjects, and the files
\* of a full flush.
LEMMA SaveInv ==
    ASSUME RInv, NEW x \in Owners, Save(x) \/ FlushOne(x)
    PROVE  RInv'
<1>1. Written(x) /\ marked' \subseteq marked
  BY DEF Save, FlushOne
<1> QED BY <1>1, WrittenInv

\* The steps of a full flush that write no file.
LEMMA FlushInv ==
    ASSUME RInv, FlushActivePlayersAndBanks \/ FlushFloors \/ FlushDirtyRoomObjects \/ EndFlush
    PROVE  RInv'
<1>1. UNCHANGED <<vars, disk, todo, mixed>> /\ marked' \subseteq marked
  BY DEF FlushActivePlayersAndBanks, FlushFloors, FlushDirtyRoomObjects, EndFlush
<1>2. World' = World /\ UNCHANGED <<disk, todo, mixed, alive, strayed>>
  BY <1>1 DEF vars, World
<1> QED BY <1>1, <1>2 DEF RInv

\* What a flush has listed.
LEMMA FlushTypesStep ==
    ASSUME RInv, FlushTypes, [RestoreNext]_restoreVars
    PROVE  FlushTypes'
<1>1. Players \cup Banks \subseteq Owners /\ Rooms \subseteq Owners /\ roomIDsWithFloor \subseteq Rooms
  BY DEF Owners, roomIDsWithFloor
<1>2. marked \subseteq Rooms
  BY DEF RInv
<1>3. CASE UNCHANGED <<todo, stage, due, dirtyRooms>>
  BY <1>3 DEF FlushTypes, running
<1>4. CASE Handle \/ Appear \/ Destroy
  <2>1. \E M : Play(M)
    BY <1>4 DEF Handle, Appear, Destroy
  <2> QED BY <1>3, <2>1 DEF Play
<1>5. ASSUME NEW x \in Owners, Save(x) \/ FlushOne(x) PROVE FlushTypes'
  <2>1. UNCHANGED <<todo, stage, dirtyRooms>> /\ due' \subseteq due
    BY <1>5 DEF Save, FlushOne, Written
  <2> QED BY <2>1 DEF FlushTypes, running
<1>6. CASE FlushActivePlayersAndBanks
  BY <1>1, <1>6 DEF FlushActivePlayersAndBanks, FlushTypes, running, Stages
<1>7. CASE FlushFloors
  BY <1>1, <1>7 DEF FlushFloors, FlushTypes, running, Stages
<1>8. CASE FlushDirtyRoomObjects
  BY <1>1, <1>2, <1>8 DEF FlushDirtyRoomObjects, FlushTypes, running, Stages
<1>9. CASE EndFlush
  BY <1>9 DEF EndFlush, FlushTypes, running, Stages
<1>10. CASE Restart
  BY <1>10 DEF Restart, FlushTypes, Stages
<1>11. ASSUME NEW p \in Players, MergePlayer(p) PROVE FlushTypes'
  <2>1. UNCHANGED <<stage, due, dirtyRooms>> /\ todo # {}
    BY <1>11 DEF MergePlayer, flushVars
  <2> QED BY <2>1 DEF FlushTypes, running
<1>12. ASSUME NEW r \in Rooms, MergeRoom(r) PROVE FlushTypes'
  <2>1. UNCHANGED <<stage, due, dirtyRooms>> /\ todo # {}
    BY <1>12 DEF MergeRoom, flushVars
  <2> QED BY <2>1 DEF FlushTypes, running
<1>13. CASE UNCHANGED restoreVars
  BY <1>3, <1>13 DEF restoreVars, flushVars
<1> QED BY <1>4, <1>5, <1>6, <1>7, <1>8, <1>9, <1>10, <1>11, <1>12, <1>13 DEF RestoreNext

\* The base load takes the place of the world.
LEMMA RestartInv == RInv /\ Restart => RInv'
<1> SUFFICES ASSUME RInv, Restart PROVE RInv'
  OBVIOUS
<1>1. World' = Base
  BY DEF Restart, World, Base
<1>2. /\ alive' = {} /\ strayed' = {} /\ disk' = disk /\ mixed' = mixed /\ marked' = {}
      /\ todo' = Players \cup Rooms
  BY DEF Restart, RInv
<1>3. DOMAIN disk' = Owners /\ \A x \in Owners : PlainFile(disk'[x])
  BY <1>2 DEF RInv
<1>4. ~mixed' => \A x \in Owners : Sound(x, disk'[x])
  BY <1>2 DEF RInv
<1> QED BY <1>1, <1>2, <1>3, <1>4, BaseFacts DEF RInv

\* A merge: the world becomes v.
LEMMA MergeInv ==
    ASSUME RInv, NEW v, World' = v, IsWorld(v), Listed(v), FloorListsTrue(v),
           todo' \cap Players # {} => OnlyBase(v), todo' \subseteq todo,
           ~mixed => NoneDangles(v) /\ FloorsListed(v),
           UNCHANGED <<alive, strayed, disk, marked, mixed>>
    PROVE  RInv'
<1>1. alive' = {} /\ strayed' = {} /\ marked' \subseteq Rooms /\ todo' \subseteq Players \cup Rooms
  BY DEF RInv
<1>2. DOMAIN disk' = Owners /\ \A x \in Owners : PlainFile(disk'[x])
  BY DEF RInv
<1>3. ~mixed' => \A x \in Owners : Sound(x, disk'[x])
  BY DEF RInv
<1> QED BY <1>1, <1>2, <1>3 DEF RInv

\* A floor that only the base load has put things on is true.
LEMMA OnlyBaseIsTrue ==
    ASSUME NEW w, OnlyBase(w)
    PROVE  FloorListsTrue(w)
BY DEF OnlyBase, FloorListsTrue

\* MergePlayerSaveIntoWorld, and the bank.
LEMMA MergePlayerInv ==
    ASSUME RInv, NEW p \in Players, MergePlayer(p)
    PROVE  RInv'
<1> DEFINE player == Overwrite(World, p)
           v == IF BankOf[p] = None THEN player ELSE Overwrite(player, BankOf[p])
<1>1. /\ loc' = v.loc /\ list' = v.list /\ p \in todo /\ todo' = todo \ {p}
      /\ UNCHANGED <<alive, strayed, disk, marked, mixed>>
  BY DEF MergePlayer
<1>2. IsWorld(World) /\ Listed(World) /\ OnlyBase(World)
  BY <1>1 DEF RInv
<1>3. \A x \in Players \cup Banks : x \in Owners /\ PlainFile(disk[x])
  BY DEF RInv, Owners
<1>4. ~mixed => /\ NoneDangles(World) /\ FloorsListed(World)
                /\ \A x \in Players \cup Banks : Sound(x, disk[x])
  BY <1>3 DEF RInv
<1>5. /\ IsWorld(player) /\ Listed(player) /\ OnlyBase(player)
      /\ ~mixed => NoneDangles(player) /\ FloorsListed(player)
  BY <1>2, <1>3, <1>4, OverwriteKeeps
<1>6. World' = v
  <2>1. \A w, x : Overwrite(w, x) = [loc |-> Overwrite(w, x).loc, list |-> Overwrite(w, x).list]
    BY DEF Overwrite
  <2>2. v = [loc |-> v.loc, list |-> v.list]
    BY <2>1
  <2> HIDE DEF v
  <2> QED BY <1>1, <2>2 DEF World
<1>7. /\ IsWorld(v) /\ Listed(v) /\ OnlyBase(v)
      /\ ~mixed => NoneDangles(v) /\ FloorsListed(v)
  <2>1. CASE BankOf[p] = None
    BY <1>5, <2>1
  <2>2. CASE BankOf[p] # None
    <3>1. BankOf[p] \in Players \cup Banks
      BY <2>2, RestoreAssumption
    <3> DEFINE b == BankOf[p]
    <3> HIDE DEF player, b
    <3>2. b \in Players \cup Banks
      BY <3>1 DEF b
    <3>3. /\ IsWorld(Overwrite(player, b)) /\ Listed(Overwrite(player, b))
          /\ OnlyBase(Overwrite(player, b))
          /\ ~mixed => NoneDangles(Overwrite(player, b)) /\ FloorsListed(Overwrite(player, b))
      BY <1>3, <1>4, <1>5, <3>2, OverwriteKeeps
    <3> QED BY <2>2, <3>3 DEF b
  <2> QED BY <2>1, <2>2
<1> HIDE DEF v
<1>8. FloorListsTrue(v)
  BY <1>7, OnlyBaseIsTrue
<1> QED BY <1>1, <1>6, <1>7, <1>8, MergeInv

\* MergeRoomObjectsSaveIntoWorld.
LEMMA MergeRoomInv ==
    ASSUME RInv, NEW r \in Rooms, MergeRoom(r)
    PROVE  RInv'
<1> DEFINE f == disk[r]
           v == Rehomed(World, f.records)
           D == DOMAIN f.records
<1>1. /\ loc' = v.loc /\ list' = v.list /\ r \in todo /\ todo' = todo \ {r} /\ todo \cap Players = {}
      /\ UNCHANGED <<alive, strayed, disk, marked, mixed>>
  BY DEF MergeRoom
<1>2. /\ IsWorld(World) /\ Listed(World) /\ FloorListsTrue(World) /\ PlainFile(f)
      /\ ~mixed => NoneDangles(World) /\ FloorsListed(World) /\ Sound(r, f)
  BY DEF RInv, Owners
<1> HIDE DEF f
<1>3. /\ IsWorld(v) /\ Listed(v) /\ FloorListsTrue(v)
      /\ FloorsListed(World) => FloorsListed(v)
      /\ v.loc = [o \in Objects |-> IF o \in D THEN f.records[o].loc ELSE World.loc[o]]
  BY <1>2, RehomedKeeps
<1>4. v = [loc |-> v.loc, list |-> v.list]
  <2>1. D \in SUBSET Objects /\ D \in SUBSET Nat /\ IsFiniteSet(D)
    BY <1>2, RestoreAssumption, FS_Subset DEF PlainFile
  <2>2. PICK g : v = g[D] /\ Unfolds(g, World, f.records)
    BY <2>1, RehomedUnfolds
  <2> HIDE DEF v, D
  <2>3. CASE D = {}
    <3>1. v = World
      BY <2>2, <2>3 DEF Unfolds
    <3> QED BY <3>1 DEF World
  <2>4. CASE D # {}
    <3>1. v = Rehome(g[D \ {Last(D)}], Last(D), f.records[Last(D)])
      BY <2>2, <2>4 DEF Unfolds, D
    <3> QED BY <3>1 DEF Rehome
  <2> QED BY <2>3, <2>4
<1> HIDE DEF v
<1>5. World' = v
  BY <1>1, <1>4 DEF World
<1>6. ASSUME ~mixed PROVE NoneDangles(v)
  <2>1. D \subseteq Objects /\ \A o \in D : f.records[o].loc \in Places /\ f.records[o].loc.in \in {r} \cup D
    BY <1>2, <1>6 DEF PlainFile, Sound
  <2> HIDE DEF D
  <2>2. \A o \in Objects : v.loc[o] = IF o \in D THEN f.records[o].loc ELSE World.loc[o]
    BY <1>3
  <2>3. In(v) = In(World) \cup D
    BY <2>1, <2>2, PlaceFacts DEF In
  <2>4. \A o \in D : v.loc[o].in \in {r} \cup D
    BY <2>1, <2>2
  <2>5. \A o \in In(World) \ D : v.loc[o].in \in Rooms \cup Players \cup Banks \cup In(World)
    BY <1>2, <1>6, <2>2 DEF NoneDangles, In
  <2> QED BY <2>3, <2>4, <2>5 DEF NoneDangles
<1>7. ~mixed => NoneDangles(v) /\ FloorsListed(v)
  BY <1>2, <1>3, <1>6
<1>8. todo' \cap Players = {} /\ todo' \subseteq todo
  BY <1>1
<1> QED BY <1>1, <1>3, <1>5, <1>7, <1>8, MergeInv

\* The first start.
LEMMA RestoreInitInv == RestoreInit => RInv
<1> SUFFICES ASSUME RestoreInit PROVE RInv
  OBVIOUS
<1>1. /\ World = Base /\ alive = {} /\ strayed = {} /\ marked = {} /\ todo = {}
      /\ disk = [x \in Owners |-> NoFile]
  BY DEF RestoreInit, World, Base
<1>2. PlainFile(NoFile) /\ \A x : Sound(x, NoFile)
  <2>1. DOMAIN NoFile.records = {} /\ NoFile.ids = {} /\ NoFile.records = << >>
    BY DEF NoFile
  <2>2. NoFile.records = [o \in {} |-> At(o)]
    BY <2>1
  <2> QED BY <2>1, <2>2 DEF PlainFile, Sound
<1>3. DOMAIN disk = Owners /\ \A x \in Owners : PlainFile(disk[x]) /\ Sound(x, disk[x])
  BY <1>1, <1>2
<1> QED BY <1>1, <1>3, BaseFacts DEF RInv

\* Every step keeps the invariant.
LEMMA RestoreNextInv == RInv /\ [RestoreNext]_restoreVars => RInv'
<1> SUFFICES ASSUME RInv, [RestoreNext]_restoreVars PROVE RInv'
  OBVIOUS
<1>1. CASE UNCHANGED restoreVars
  <2>1. World' = World /\ UNCHANGED <<todo, alive, strayed, disk, marked, mixed>>
    BY <1>1 DEF restoreVars, vars, World
  <2> QED BY <2>1 DEF RInv
<1> QED BY <1>1, HandleInv, AppearInv, DestroyInv, FlushInv, RestartInv, SaveInv,
           MergePlayerInv, MergeRoomInv DEF RestoreNext

\* What the restarts and the merges keep of the world and of the files.
THEOREM RestoreInvariant == RestoreSpec => [](RInv /\ FlushTypes)
<1>1. RestoreInit => FlushTypes
  BY DEF RestoreInit, FlushTypes, Stages
<1>2. RInv /\ FlushTypes /\ [RestoreNext]_restoreVars => FlushTypes'
  BY FlushTypesStep
<1> QED BY <1>1, <1>2, RestoreInitInv, RestoreNextInv, PTL DEF RestoreSpec

\* Snapshots of any ages leave no location dangling, as long as every file was
\* written while the lists agreed (player_save.go:60-85).
THEOREM RestoredTypes == RestoreSpec => []RestoreTypeOK
<1>1. RInv /\ FlushTypes => RestoreTypeOK
  <2> SUFFICES ASSUME RInv, FlushTypes PROVE RestoreTypeOK
    OBVIOUS
  <2>1. /\ loc \in [Objects -> Places \cup {Nowhere}] /\ list \in [Holders -> SUBSET Objects]
        /\ \A h \in Holders : list[h] \subseteq live
        /\ In(World) = live
    BY DEF RInv, IsWorld, Listed, World, In, live
  <2>2. Places \subseteq Locations
    BY PlaceFacts
  <2>3. loc \in [Objects -> Locations \cup {Nowhere}]
    BY <2>1, <2>2
  <2>4. ASSUME NEW x \in Owners PROVE IsFile(disk[x])
    BY <2>2 DEF RInv, PlainFile, IsFile
  <2>5. ~mixed => \A o \in live : Exists(loc[o].in)
    <3>1. ~mixed => \A o \in live : loc[o].in \in Rooms \cup Players \cup Banks \cup live
      BY <2>1 DEF RInv, NoneDangles, World
    <3> QED BY <3>1 DEF Exists
  <2>6. DOMAIN disk = Owners /\ marked \subseteq Rooms /\ todo \subseteq Players \cup Rooms
    BY DEF RInv
  <2> QED BY <2>1, <2>3, <2>4, <2>5, <2>6 DEF RestoreTypeOK, FlushTypes
<1> QED BY <1>1, RestoreInvariant, PTL

\* What a room lists lies on its floor, whatever the files are: an object that
\* was made while the game ran is not on two floors (player_save.go:534).
THEOREM NothingOnTwoFloors == RestoreSpec => [](FloorListsTrue(World))
<1>1. RInv => FloorListsTrue(World)
  BY DEF RInv
<1> QED BY <1>1, RestoreInvariant, PTL

\* And what lies on a floor is listed there, as long as every file was written
\* while the lists agreed.
THEOREM FloorsStayTrue == RestoreSpec => [](~mixed => FloorsAreTrue)
<1>1. RInv => (~mixed => FloorsAreTrue)
  <2> SUFFICES ASSUME RInv, ~mixed PROVE FloorsAreTrue
    OBVIOUS
  <2>1. /\ \A r \in Rooms : \A o \in list[r] : Static[o] = None => loc[o] = At(r)
        /\ \A o \in Objects : loc[o].in \in Rooms => o \in list[loc[o].in]
    BY DEF RInv, FloorListsTrue, FloorsListed, World
  <2> QED BY <2>1 DEF FloorsAreTrue, live
<1> QED BY <1>1, RestoreInvariant, PTL

\* The merge of a room's file is "Safe to call multiple times"
\* (player_save.go:503): the second changes nothing, whatever was merged before,
\* if every file was written while the lists agreed.
THEOREM MergesTwiceAreOne == RestoreSpec => [](~mixed => MergedTwice)
<1>1. RInv => (~mixed => MergedTwice)
  <2> SUFFICES ASSUME RInv, ~mixed, NEW r \in todo \cap Rooms
               PROVE  Rehomed(Rehomed(World, disk[r].records), disk[r].records)
                         = Rehomed(World, disk[r].records)
    BY DEF MergedTwice
  <2>1. IsWorld(World) /\ PlainFile(disk[r]) /\ Sound(r, disk[r])
    BY DEF RInv, Owners
  <2> QED BY <2>1, RehomedTwice
<1> QED BY <1>1, RestoreInvariant, PTL

-----------------------------------------------------------------------------
(* What a full flush leaves in the files, and what the merges make of it.     *)

\* No object is inside itself: in a world, in a file.
Acyclic(w) == \A S \in SUBSET In(w) : S # {} => \E o \in S : w.loc[o].in \notin S
AcyclicFile(f) == \A S \in SUBSET DOMAIN f.records : S # {} => \E o \in S : f.records[o].loc.in \notin S

\* The file f of x says of W what is in x, and nothing else.
Faithful(W, x, f) ==
    LET D == DOMAIN f.records IN
    /\ PlainFile(f) /\ Sound(x, f) /\ D \subseteq In(W)
    /\ x \notin Rooms => f.ids = W.list[x]
    /\ \A o \in D : f.records[o].loc = W.loc[o] /\ f.records[o].list = W.list[o]
    /\ \A o \in In(W) : W.loc[o].in = x => o \in D

\* The world W as far as the files of the owners R tell it.
Recorded(R, d) == UNION {DOMAIN d[x].records : x \in R}
Built(W, R, d) ==
    [loc |-> [o \in Objects |-> IF o \in Recorded(R, d) THEN W.loc[o] ELSE Nowhere],
     list |-> [h \in Holders |-> IF h \in R \cup Recorded(R, d) THEN W.list[h] ELSE {}]]

\* Whose files have been merged when those of T are still to be.
Merged(T) ==
    {x \in Owners : \/ x \in (Players \cup Rooms) \ T
                    \/ \E p \in Players \ T : BankOf[p] = x}

\* What the files of two rooms have in common after a restart.
NoConflicts == \A r, s \in Rooms : r # s => ~Conflict(r, s)

\* The objects that lie directly in x, by its file.
Roots(x) == {o \in DOMAIN disk[x].records : disk[x].records[o].loc.in = x}

\* A room that is empty and not marked has a file with nothing in it, unless a
\* flush took its mark while the game went on; while the files are merged, the
\* floor of a merged room has what its file says.
FilesOfEmptyRooms ==
    /\ running /\ ~lost => \A r \in Rooms \ marked : list[r] = {} => DOMAIN disk[r].records = {}
    /\ ~running => \A r \in Rooms \ todo : Roots(r) \subseteq list[r]

\* W is the world of the last full flush: each file is faithful to it, and it
\* is the current one or what the files merged so far tell of it.
Synced(W) ==
    /\ W = [loc |-> W.loc, list |-> W.list]
    /\ IsWorld(W) /\ Agreed(W) /\ NoneDangles(W) /\ Acyclic(W)
    /\ \A x \in Owners : Faithful(W, x, disk[x])
    /\ World = IF running THEN W ELSE Built(W, Merged(todo), disk)

\* What a full flush has written so far,
Flushed ==
    CASE stage = "owners" -> (Players \cup Banks) \ due
      [] stage = "floors" -> Players \cup Banks \cup (roomIDsWithFloor \ due)
      [] stage = "marked" -> Players \cup Banks \cup roomIDsWithFloor \cup (dirtyRooms \ due)
      [] OTHER            -> {}

\* which is the world as it is as long as nothing is played.
FlushSoFar ==
    stage # "none" /\ calm =>
        /\ Agreed(World) /\ ~lost
        /\ \A x \in Flushed : Faithful(World, x, disk[x])
        /\ stage = "marked" => marked \subseteq dirtyRooms

\* As long as every file was written while the lists agreed, nothing is inside
\* itself; and the files tell the flushed world if, too, no restart met two room
\* files that name one object and the base load has no objects.
FInv ==
    ~mixed =>
        /\ Acyclic(World) /\ \A x \in Owners : AcyclicFile(disk[x])
        /\ FlushSoFar
        /\ ~torn /\ NothingStatic =>
              /\ ~running => NoConflicts
              /\ FilesOfEmptyRooms
              /\ synced # Unsynced => Synced(synced)

\* A sound file without cycles brings none into a world without any.
LEMMA SoundKeepsAcyclic ==
    ASSUME NEW w, Acyclic(w), NEW x, x \notin Objects, NEW f, PlainFile(f), Sound(x, f), AcyclicFile(f),
           NEW v, v.loc = [o \in Objects |-> IF o \in DOMAIN f.records THEN f.records[o].loc ELSE w.loc[o]]
    PROVE  Acyclic(v)
<1> DEFINE D == DOMAIN f.records
<1> SUFFICES ASSUME NEW S \in SUBSET In(v), S # {}, \A o \in S : v.loc[o].in \in S PROVE FALSE
  BY DEF Acyclic
<1>1. S \subseteq Objects
  BY DEF In
<1>2. \A o \in S : v.loc[o] = IF o \in D THEN f.records[o].loc ELSE w.loc[o]
  BY <1>1
<1>3. CASE S \cap D # {}
  <2>1. PICK o \in S \cap D : f.records[o].loc.in \notin S \cap D
    BY <1>3 DEF AcyclicFile
  <2>2. f.records[o].loc.in \in {x} \cup D
    BY <2>1 DEF Sound
  <2> QED BY <1>1, <1>2, <2>1, <2>2
<1>4. CASE S \cap D = {}
  <2>1. \A o \in S : o \notin D /\ w.loc[o] = v.loc[o]
    BY <1>2, <1>4
  <2>2. S \in SUBSET In(w)
    BY <1>1, <2>1 DEF In
  <2> QED BY <2>1, <2>2 DEF Acyclic
<1> QED BY <1>3, <1>4

\* Neither does a file of a world without cycles have one.
LEMMA SnapshotAcyclic ==
    ASSUME Acyclic(World), NEW x \in Owners
    PROVE  AcyclicFile(Snapshot(x))
<1> DEFINE roots == IF x \in Rooms THEN {o \in Objects : loc[o].in = x} ELSE list[x]
           D == Closure(roots) \cap live
<1>1. Snapshot(x).records = [o \in D |-> [loc |-> loc[o], list |-> list[o]]]
  BY DEF Snapshot
<1> HIDE DEF D
<1>2. DOMAIN Snapshot(x).records = D /\ \A o \in D : Snapshot(x).records[o].loc = loc[o]
  BY <1>1
<1>3. D \subseteq In(World) /\ World.loc = loc
  BY DEF D, World, In, live
<1> QED BY <1>2, <1>3 DEF Acyclic, AcyclicFile

\* Nothing comes to lie in itself when o moves to a place that is not inside it.
LEMMA MoveKeepsAcyclic ==
    ASSUME Acyclic(World), loc \in [Objects -> Places \cup {Nowhere}], NEW o \in live, NEW h \in Holders,
           h \in Objects => ~Inside(h, o), loc' = [loc EXCEPT ![o] = At(h)]
    PROVE  Acyclic(World')
<1>1. /\ World.loc = loc /\ World'.loc = loc' /\ In(World) = live /\ In(World') \subseteq Objects
      /\ o \in Objects
  BY DEF World, In, live
<1> SUFFICES ASSUME NEW S \in SUBSET In(World'), S # {}, \A x \in S : loc'[x].in \in S PROVE FALSE
  BY <1>1 DEF Acyclic
<1>2. /\ \A x \in S : x # o => loc'[x] = loc[x]
      /\ loc'[o].in = h /\ S \subseteq Objects
  BY <1>1, PlaceFacts
<1>3. S \subseteq live
  BY <1>1, <1>2 DEF In, live
<1>4. CASE o \notin S
  BY <1>1, <1>2, <1>3, <1>4 DEF Acyclic
<1>5. CASE o \in S
  <2>1. h \in S /\ h \in Objects
    BY <1>2, <1>5
  <2>2. PICK T \in SUBSET Objects :
            /\ h \in T /\ o \notin T
            /\ \A x \in T : loc[x].in \in Objects => loc[x].in \in T
    BY <2>1 DEF Inside
  <2> DEFINE U == T \cap S
  <2>3. U # {} /\ U \subseteq live
    BY <1>3, <2>1, <2>2
  <2>4. \A x \in U : loc[x].in \in U
    BY <1>2, <2>2
  <2> QED BY <1>1, <2>3, <2>4 DEF Acyclic
<1> QED BY <1>4, <1>5

\* The file that is written of a world whose lists agree says what is in it.
LEMMA SnapshotIsFaithful ==
    ASSUME IsWorld(World), Listed(World), Agreed(World), NEW x \in Owners
    PROVE  Faithful(World, x, Snapshot(x))
<1> DEFINE roots == IF x \in Rooms THEN {o \in Objects : loc[o].in = x} ELSE list[x]
           D == Closure(roots) \cap live
           f == Snapshot(x)
<1>1. PlainFile(f) /\ Sound(x, f)
  BY SnapshotFile
<1>2. /\ f.ids = (IF x \in Rooms THEN {} ELSE list[x])
      /\ f.records = [o \in D |-> [loc |-> loc[o], list |-> list[o]]]
  BY DEF Snapshot
<1>3. /\ World.loc = loc /\ World.list = list /\ In(World) = live /\ live \subseteq Objects
      /\ list \in [Holders -> SUBSET Objects]
  BY DEF World, In, live, IsWorld
<1>4. \A o \in live : loc[o].in = x => o \in D
  <2> SUFFICES ASSUME NEW o \in live, loc[o].in = x PROVE o \in D
    OBVIOUS
  <2>1. o \in roots
    BY <1>3 DEF Agreed
  <2>2. o \in Tree(o)
    BY <1>3, TreeClosed
  <2> QED BY <2>1, <2>2 DEF Closure, Doomed
<1> HIDE DEF D, f
<1>5. DOMAIN f.records = D /\ \A o \in D : f.records[o].loc = loc[o] /\ f.records[o].list = list[o]
  BY <1>2
<1>6. D \subseteq live
  BY DEF D
<1> QED BY <1>1, <1>2, <1>3, <1>4, <1>5, <1>6 DEF Faithful, f

\* So does the file of an empty room if there is nothing in it.
LEMMA EmptyIsFaithful ==
    ASSUME NEW W, Agreed(W), NEW r \in Rooms, W.list[r] = {}, NEW f, PlainFile(f), DOMAIN f.records = {}
    PROVE  Faithful(W, r, f)
BY DEF Faithful, Agreed, Sound

\* No object is in two files of one world.
LEMMA FilesDisjoint ==
    ASSUME NEW W, Acyclic(W), NEW x, NEW y, x # y, x \notin Objects, y \notin Objects,
           NEW f, Faithful(W, x, f), NEW g, Faithful(W, y, g)
    PROVE  DOMAIN f.records \cap DOMAIN g.records = {}
<1> DEFINE S == DOMAIN f.records \cap DOMAIN g.records
<1> SUFFICES ASSUME S # {} PROVE FALSE
  OBVIOUS
<1>1. S \in SUBSET In(W) /\ S \subseteq Objects
  BY DEF Faithful, In
<1>2. PICK o \in S : W.loc[o].in \notin S
  BY <1>1 DEF Acyclic
<1>3. W.loc[o].in \in {x} \cup DOMAIN f.records /\ W.loc[o].in \in {y} \cup DOMAIN g.records
  BY <1>2 DEF Faithful, Sound
<1>4. DOMAIN f.records \subseteq Objects /\ DOMAIN g.records \subseteq Objects
  BY DEF Faithful, PlainFile
<1> QED BY <1>2, <1>3, <1>4

\* And each is in one of them.
LEMMA FilesCover ==
    ASSUME NEW W, IsWorld(W), Agreed(W), NoneDangles(W), Acyclic(W), NEW d,
           \A x \in Owners : Faithful(W, x, d[x])
    PROVE  Recorded(Owners, d) = In(W)
<1> DEFINE N == Recorded(Owners, d)
           S == In(W) \ N
<1>1. N \subseteq In(W)
  BY DEF Recorded, Faithful
<1>2. ASSUME S # {} PROVE FALSE
  <2>1. PICK o \in S : W.loc[o].in \notin S
    BY <1>2 DEF Acyclic
  <2>2. W.loc[o].in \notin Owners
    <3>1. \A x \in Owners : W.loc[o].in = x => o \in DOMAIN d[x].records
      BY <2>1 DEF Faithful
    <3> QED BY <2>1, <3>1 DEF Recorded
  <2>3. W.loc[o].in \in In(W)
    BY <2>1, <2>2 DEF NoneDangles, Owners
  <2>4. PICK x \in Owners : W.loc[o].in \in DOMAIN d[x].records
    BY <2>1, <2>3 DEF Recorded
  <2> DEFINE k == W.loc[o].in
  <2>5. o \in W.list[k]
    BY <2>1 DEF Agreed
  <2>6. W.list[k] \subseteq DOMAIN d[x].records
    BY <2>4 DEF Faithful, PlainFile
  <2> QED BY <2>1, <2>5, <2>6 DEF Recorded
<1> QED BY <1>1, <1>2

\* All files together give the world back.
LEMMA BuiltWhole ==
    ASSUME NEW W, IsWorld(W), Agreed(W), NoneDangles(W), Acyclic(W), W = [loc |-> W.loc, list |-> W.list],
           NEW d, \A x \in Owners : Faithful(W, x, d[x])
    PROVE  Built(W, Owners, d) = W
<1> DEFINE N == Recorded(Owners, d)
<1>1. N = In(W)
  BY FilesCover
<1>2. W.loc \in [Objects -> Places \cup {Nowhere}] /\ W.list \in [Holders -> SUBSET Objects]
  BY DEF IsWorld
<1>3. W.loc = [o \in Objects |-> IF o \in N THEN W.loc[o] ELSE Nowhere]
  <2>1. \A o \in Objects : W.loc[o] = IF o \in N THEN W.loc[o] ELSE Nowhere
    BY <1>1 DEF In
  <2> HIDE DEF N
  <2> QED BY <1>2, <2>1
<1>4. W.list = [h \in Holders |-> IF h \in Owners \cup N THEN W.list[h] ELSE {}]
  <2>1. ASSUME NEW h \in Holders, h \notin Owners \cup N PROVE W.list[h] = {}
    BY <1>1, <2>1 DEF Agreed, NoneDangles, Owners
  <2> HIDE DEF N
  <2> QED BY <1>2, <2>1
<1> QED BY <1>3, <1>4 DEF Built

\* A player's or a bank's file builds what it records.
LEMMA OverwriteBuilds ==
    ASSUME NEW W, NEW R, NEW x \in Players \cup Banks, Faithful(W, x, disk[x])
    PROVE  Overwrite(Built(W, R, disk), x) = Built(W, R \cup {x}, disk)
<1> DEFINE w == Built(W, R, disk)
           f == disk[x]
           D == DOMAIN f.records
           N == Recorded(R, disk)
           M == Recorded(R \cup {x}, disk)
<1>1. M = N \cup D
  BY DEF Recorded
<1>2. /\ f.ids = W.list[x]
      /\ \A o \in D : f.records[o].loc = W.loc[o] /\ f.records[o].list = W.list[o]
  BY HolderFacts DEF Faithful
<1>3. Overwrite(w, x) =
         [loc |-> [o \in Objects |-> IF o \in D THEN f.records[o].loc ELSE w.loc[o]],
          list |-> [h \in Holders |-> IF h = x THEN f.ids
                                      ELSE IF h \in D THEN f.records[h].list ELSE w.list[h]]]
  BY DEF Overwrite
<1>4. /\ \A o \in Objects : w.loc[o] = IF o \in N THEN W.loc[o] ELSE Nowhere
      /\ \A h \in Holders : w.list[h] = IF h \in R \cup N THEN W.list[h] ELSE {}
  BY DEF Built
<1>5. Built(W, R \cup {x}, disk) =
         [loc |-> [o \in Objects |-> IF o \in M THEN W.loc[o] ELSE Nowhere],
          list |-> [h \in Holders |-> IF h \in R \cup {x} \cup M THEN W.list[h] ELSE {}]]
  BY DEF Built
<1> HIDE DEF w, D, N, M, f
<1>6. \A o \in Objects : (IF o \in D THEN f.records[o].loc ELSE w.loc[o])
                            = (IF o \in M THEN W.loc[o] ELSE Nowhere)
  BY <1>1, <1>2, <1>4
<1>7. \A h \in Holders : (IF h = x THEN f.ids ELSE IF h \in D THEN f.records[h].list ELSE w.list[h])
                            = (IF h \in R \cup {x} \cup M THEN W.list[h] ELSE {})
  BY <1>1, <1>2, <1>4
<1>8. Overwrite(w, x) = Built(W, R \cup {x}, disk)
  BY <1>3, <1>5, <1>6, <1>7
<1> QED BY <1>8 DEF w

\* W as far as the files of R and the objects S of one more tell it.
PartOf(W, R, S) ==
    LET N == Recorded(R, disk) IN
    [loc |-> [o \in Objects |-> IF o \in N \cup S THEN W.loc[o] ELSE Nowhere],
     list |-> [h \in Holders |-> IF h \in R \cup N \cup S THEN W.list[h]
                                 ELSE {c \in S : W.loc[c].in = h}]]

\* One object more.
LEMMA RehomeBuildsOne ==
    ASSUME NEW W, IsWorld(W), Agreed(W), NEW R, NEW S \in SUBSET In(W), NEW o \in S,
           o \notin Recorded(R, disk), NEW rec, rec.loc = W.loc[o], rec.list = W.list[o]
    PROVE  Rehome(PartOf(W, R, S \ {o}), o, rec) = PartOf(W, R, S)
<1> DEFINE N == Recorded(R, disk)
           u == PartOf(W, R, S \ {o})
           l == [u.loc EXCEPT ![o] = rec.loc]
           wired == {o} \cup {c \in rec.list : l[c] # Nowhere}
<1>1. /\ W.loc \in [Objects -> Places \cup {Nowhere}] /\ W.list \in [Holders -> SUBSET Objects]
      /\ S \subseteq Objects /\ o \in Objects /\ o \in Holders
      /\ \A h \in Holders : \A c \in W.list[h] : c \in In(W) /\ W.loc[c].in = h
      /\ \A c \in In(W) : c \in W.list[W.loc[c].in]
      /\ \A c \in In(W) : c \in Objects /\ W.loc[c] # Nowhere
  BY HolderFacts DEF IsWorld, Agreed, In
<1>2. /\ u.loc = [c \in Objects |-> IF c \in N \cup (S \ {o}) THEN W.loc[c] ELSE Nowhere]
      /\ u.list = [h \in Holders |-> IF h \in R \cup N \cup (S \ {o}) THEN W.list[h]
                                     ELSE {c \in S \ {o} : W.loc[c].in = h}]
  BY DEF PartOf
<1>3. Rehome(u, o, rec) =
         [loc |-> l,
          list |-> [h \in Holders |->
                     (IF h = o THEN rec.list ELSE Leave(u, o, rec.loc)[h]) \cup {c \in wired : l[c].in = h}]]
  BY DEF Rehome
<1>4. PartOf(W, R, S) =
         [loc |-> [c \in Objects |-> IF c \in N \cup S THEN W.loc[c] ELSE Nowhere],
          list |-> [h \in Holders |-> IF h \in R \cup N \cup S THEN W.list[h]
                                      ELSE {c \in S : W.loc[c].in = h}]]
  BY DEF PartOf
<1> HIDE DEF N, u
<1>5. u.loc[o] = Nowhere
  BY <1>1, <1>2 DEF N
<1>6. Leave(u, o, rec.loc) = u.list
  BY <1>5 DEF Leave
<1>7. l = [c \in Objects |-> IF c \in N \cup S THEN W.loc[c] ELSE Nowhere]
  <2>1. \A c \in Objects : l[c] = IF c \in N \cup S THEN W.loc[c] ELSE Nowhere
    BY <1>1, <1>2
  <2> QED BY <1>2, <2>1
<1>8. /\ \A c \in wired : c = o \/ (c \in W.list[o] /\ l[c] # Nowhere)
      /\ o \in wired
  OBVIOUS
<1> HIDE DEF l, wired
<1>9. \A c \in wired : c \in In(W) /\ l[c] = W.loc[c] /\ (c # o => W.loc[c].in = o)
  BY <1>1, <1>7, <1>8
<1>10. ASSUME NEW h \in Holders
       PROVE  (IF h = o THEN rec.list ELSE u.list[h]) \cup {c \in wired : l[c].in = h}
                = IF h \in R \cup N \cup S THEN W.list[h] ELSE {c \in S : W.loc[c].in = h}
  <2>1. CASE h = o
    <3>1. \A c \in wired : l[c].in = h => c \in W.list[h]
      BY <1>1, <1>9
    <3> QED BY <2>1, <3>1
  <2>2. CASE h # o /\ h \in R \cup N \cup S
    <3>1. \A c \in wired : l[c].in = h => c \in W.list[h]
      BY <1>1, <1>9
    <3>2. u.list[h] = W.list[h]
      BY <1>2, <2>2
    <3> QED BY <2>2, <3>1, <3>2
  <2>3. CASE h # o /\ h \notin R \cup N \cup S
    <3>1. u.list[h] = {c \in S \ {o} : W.loc[c].in = h}
      BY <1>2, <2>3
    <3>2. \A c \in wired : l[c].in = h => c = o /\ W.loc[c].in = h
      BY <1>9, <2>3
    <3>3. W.loc[o].in = h => o \in wired /\ l[o].in = h
      BY <1>8, <1>9
    <3> QED BY <2>3, <3>1, <3>2, <3>3
  <2> QED BY <2>1, <2>2, <2>3
<1> DEFINE before(h) == (IF h = o THEN rec.list ELSE Leave(u, o, rec.loc)[h]) \cup {c \in wired : l[c].in = h}
           after(h) == IF h \in R \cup N \cup S THEN W.list[h] ELSE {c \in S : W.loc[c].in = h}
           placed == [c \in Objects |-> IF c \in N \cup S THEN W.loc[c] ELSE Nowhere]
<1>11. /\ Rehome(u, o, rec) = [loc |-> l, list |-> [h \in Holders |-> before(h)]]
       /\ PartOf(W, R, S) = [loc |-> placed, list |-> [h \in Holders |-> after(h)]]
       /\ l = placed
  BY <1>3, <1>4, <1>7
<1>12. \A h \in Holders : before(h) = after(h)
  BY <1>6, <1>10
<1> HIDE DEF before, after, placed
<1>13. [h \in Holders |-> before(h)] = [h \in Holders |-> after(h)]
  BY <1>12
<1>14. Rehome(u, o, rec) = PartOf(W, R, S)
  BY <1>11, <1>13
<1> QED BY <1>14 DEF u

\* A room's file builds what it records, if it shares nothing with the others.
LEMMA RehomeBuilds ==
    ASSUME NEW W, IsWorld(W), Agreed(W), NEW R, NEW r \in Rooms, Faithful(W, r, disk[r]),
           DOMAIN disk[r].records \cap Recorded(R, disk) = {}
    PROVE  Rehomed(Built(W, R, disk), disk[r].records) = Built(W, R \cup {r}, disk)
<1> DEFINE records == disk[r].records
           D == DOMAIN records
           N == Recorded(R, disk)
           w == Built(W, R, disk)
<1>1. /\ D \in SUBSET Objects /\ D \in SUBSET Nat /\ IsFiniteSet(D) /\ D \subseteq In(W)
      /\ \A o \in D : records[o].loc = W.loc[o] /\ records[o].list = W.list[o]
      /\ \A o \in D : W.loc[o].in \in {r} \cup D
      /\ \A o \in In(W) : W.loc[o].in = r => o \in D
  BY RestoreAssumption, FS_Subset DEF Faithful, PlainFile, Sound
<1>2. PICK g : Rehomed(w, records) = g[D] /\ Unfolds(g, w, records)
  BY <1>1, RehomedUnfolds
<1>3. D \cap N = {}
  OBVIOUS
<1> HIDE DEF w
<1> DEFINE Good == {S \in SUBSET D : g[S] = PartOf(W, R, S)}
<1>4. {} \in Good
  <2>1. PartOf(W, R, {}) = Built(W, R, disk)
    BY DEF PartOf, Built
  <2> QED BY <1>2, <2>1 DEF Unfolds, w
<1>5. ASSUME NEW S \in SUBSET D, S # {}, S \ {Last(S)} \in Good PROVE S \in Good
  <2>1. Last(S) \in S /\ g[S] = Rehome(PartOf(W, R, S \ {Last(S)}), Last(S), records[Last(S)])
    BY <1>2, <1>5 DEF Unfolds
  <2>2. g[S] = PartOf(W, R, S)
    BY <1>1, <1>3, <2>1, RehomeBuildsOne
  <2> QED BY <2>2
<1>6. Good \in SUBSET SUBSET D
  OBVIOUS
<1>7. D \in Good
  <2> HIDE DEF Good, D
  <2> QED BY <1>1, <1>4, <1>5, <1>6, SubsetInduction
<1>8. PartOf(W, R, D) = Built(W, R \cup {r}, disk)
  <2>1. Recorded(R \cup {r}, disk) = N \cup D
    BY DEF Recorded
  <2>2. Built(W, R \cup {r}, disk) =
           [loc |-> [o \in Objects |-> IF o \in N \cup D THEN W.loc[o] ELSE Nowhere],
            list |-> [h \in Holders |-> IF h \in R \cup {r} \cup N \cup D THEN W.list[h] ELSE {}]]
    BY <2>1 DEF Built
  <2>3. PartOf(W, R, D) =
           [loc |-> [o \in Objects |-> IF o \in N \cup D THEN W.loc[o] ELSE Nowhere],
            list |-> [h \in Holders |-> IF h \in R \cup N \cup D THEN W.list[h]
                                        ELSE {c \in D : W.loc[c].in = h}]]
    BY DEF PartOf
  <2> HIDE DEF D, N
  <2>4. W.list[r] = {c \in D : W.loc[c].in = r}
    <3>1. r \in Holders
      BY HolderFacts
    <3> QED BY <1>1, <3>1 DEF Agreed
  <2>5. ASSUME NEW h \in Holders
        PROVE  (IF h \in R \cup N \cup D THEN W.list[h] ELSE {c \in D : W.loc[c].in = h})
                  = IF h \in R \cup {r} \cup N \cup D THEN W.list[h] ELSE {}
    <3>1. CASE h \in R \cup N \cup D
      BY <3>1
    <3>2. CASE h = r /\ h \notin R \cup N \cup D
      BY <2>4, <3>2
    <3>3. CASE h # r /\ h \notin R \cup N \cup D
      <4>1. \A c \in D : W.loc[c].in # h
        BY <1>1, <3>3
      <4> QED BY <3>3, <4>1
    <3> QED BY <3>1, <3>2, <3>3
  <2> QED BY <2>2, <2>3, <2>5
<1>9. g[D] = PartOf(W, R, D)
  BY <1>7
<1>10. Rehomed(w, records) = Built(W, R \cup {r}, disk)
  BY <1>2, <1>8, <1>9
<1> QED BY <1>10 DEF w

\* What has been merged, from the restart to the last file.
LEMMA MergedFacts ==
    /\ Merged({}) = Owners
    /\ Merged(Players \cup Rooms) = {}
    /\ \A T : \A r \in Rooms : Merged(T \ {r}) = Merged(T) \cup {r}
    /\ \A T : \A p \in Players :
          Merged(T \ {p}) = Merged(T) \cup {p} \cup (IF BankOf[p] = None THEN {} ELSE {BankOf[p]})
<1>1. /\ Players \cap Banks = {} /\ Rooms \cap Banks = {} /\ Rooms \cap Players = {} /\ None \notin Owners
      /\ Owners = Players \cup Banks \cup Rooms
  BY PlacementAssumption, HolderFacts DEF Owners, Holders, Creatures
<1>2. \A p \in Players : BankOf[p] \in Banks \cup {None}
  BY RestoreAssumption
<1>3. Merged({}) = Owners
  BY <1>1, RestoreAssumption DEF Merged
<1>4. Merged(Players \cup Rooms) = {}
  BY <1>1 DEF Merged
<1>5. ASSUME NEW T, NEW r \in Rooms PROVE Merged(T \ {r}) = Merged(T) \cup {r}
  BY <1>1 DEF Merged
<1>6. ASSUME NEW T, NEW p \in Players
      PROVE  Merged(T \ {p}) = Merged(T) \cup {p} \cup (IF BankOf[p] = None THEN {} ELSE {BankOf[p]})
  BY <1>1, <1>2 DEF Merged
<1> QED BY <1>3, <1>4, <1>5, <1>6

\* A file without roots has nothing in it.
LEMMA NoRootsNoFile ==
    ASSUME NEW x, NEW f, Sound(x, f), AcyclicFile(f), \A o \in DOMAIN f.records : f.records[o].loc.in # x
    PROVE  DOMAIN f.records = {}
BY DEF Sound, AcyclicFile

\* What no file tells is the base load without objects.
LEMMA BuiltFromNothing ==
    ASSUME NothingStatic, NEW W, NEW d
    PROVE  Built(W, {}, d) = Base
<1>1. Recorded({}, d) = {}
  BY DEF Recorded
<1>2. Built(W, {}, d) = [loc |-> [o \in Objects |-> Nowhere], list |-> [h \in Holders |-> {}]]
  BY <1>1 DEF Built
<1>3. \A o \in Objects : At(Static[o]) = Nowhere
  BY DEF NothingStatic, Nowhere
<1> DEFINE l == [o \in Objects |-> At(Static[o])]
<1>4. l = [o \in Objects |-> Nowhere]
  BY <1>3
<1>5. Base = [loc |-> l, list |-> [h \in Holders |-> {o \in Objects : l[o].in = h}]]
  BY DEF Base
<1> HIDE DEF l
<1>6. \A h \in Holders : {o \in Objects : l[o].in = h} = {}
  BY <1>4, PlaceFacts, HolderFacts
<1> QED BY <1>2, <1>4, <1>5, <1>6

-----------------------------------------------------------------------------
(* The steps and the files.                                                   *)

\* A command that brings about no cycle and marks the rooms that it empties.
LEMMA PlayFiles ==
    ASSUME FInv, NEW M, Play(M), Acyclic(World) => Acyclic(World'),
           \A r \in Rooms \ M : list'[r] = {} => list[r] = {}
    PROVE  FInv'
<1>1. /\ running /\ todo = {} /\ todo' = {} /\ disk' = disk /\ mixed' = mixed /\ torn' = torn
      /\ synced' = Unsynced /\ marked' = marked \cup (M \cap Rooms)
      /\ calm' = FALSE /\ lost' = lost
  BY DEF Play, running
<1> SUFFICES ASSUME ~mixed PROVE FInv'
  BY <1>1 DEF FInv
<1>2. Acyclic(World') /\ \A x \in Owners : AcyclicFile(disk'[x])
  BY <1>1 DEF FInv
<1>3. ASSUME ~torn, NothingStatic PROVE FilesOfEmptyRooms'
  <2>1. ~lost => \A r \in Rooms \ marked : list[r] = {} => DOMAIN disk[r].records = {}
    BY <1>1, <1>3 DEF FInv, FilesOfEmptyRooms
  <2>2. ~lost => \A r \in Rooms \ marked' : list'[r] = {} => DOMAIN disk'[r].records = {}
    BY <1>1, <2>1
  <2> QED BY <1>1, <2>2 DEF FilesOfEmptyRooms, running
<1>4. FlushSoFar'
  BY <1>1 DEF FlushSoFar
<1> QED BY <1>1, <1>2, <1>3, <1>4 DEF FInv, running, NothingStatic

\* MoveObject, Store and Take.
LEMMA HandleFiles == RInv /\ FInv /\ Handle => FInv'
<1> SUFFICES ASSUME RInv, FInv, Handle PROVE FInv'
  OBVIOUS
<1>1. ASSUME NEW o \in live, NEW h \in Holders, NEW M, {loc[o].in, h} \cap Rooms \subseteq M,
             h \in Objects => ~Inside(h, o), Move(o, At(h)), Play(M)
      PROVE  FInv'
  <2>1. /\ loc \in [Objects -> Places \cup {Nowhere}] /\ list \in [Holders -> SUBSET Objects]
        /\ At(h).in = h
    BY <1>1, PlayFacts, PlaceFacts
  <2>2. /\ loc' = [loc EXCEPT ![o] = At(h)]
        /\ list' = [list EXCEPT ![loc[o].in] = @ \ {o}, ![h] = @ \cup {o}]
    BY <1>1, <2>1 DEF Move, Relist
  <2>3. Acyclic(World) => Acyclic(World')
    BY <1>1, <2>1, <2>2, MoveKeepsAcyclic
  <2>4. \A r \in Rooms \ M : list'[r] = list[r]
    BY <1>1, <2>1, <2>2, HolderFacts
  <2> QED BY <1>1, <2>3, <2>4, PlayFiles
<1>2. PICK o, k \in Objects, p \in Players, h \in Holders :
          \/ MoveObject(o, h) /\ Play({loc[o].in, h})
          \/ Store(p, o, k) /\ Play({loc[k].in})
          \/ Take(o, k, p) /\ Play({loc[k].in})
  BY DEF Handle
<1>3. CASE MoveObject(o, h) /\ Play({loc[o].in, h})
  BY <1>1, <1>3 DEF MoveObject, Found
<1>4. p \in Holders /\ k \in Holders /\ p \notin Rooms /\ k \notin Rooms /\ p \notin Objects
  BY HolderFacts
<1>5. CASE Store(p, o, k) /\ Play({loc[k].in})
  <2>1. loc[o].in = p /\ o \in live
    BY <1>4, <1>5, PlaceFacts DEF Store, Held, live
  <2>2. {loc[o].in, k} \cap Rooms = {}
    BY <1>4, <2>1
  <2> QED BY <1>1, <1>4, <1>5, <2>1, <2>2 DEF Store
<1>6. CASE Take(o, k, p) /\ Play({loc[k].in})
  <2>1. loc[o].in = k /\ o \in live
    BY <1>6 DEF Take, Found
  <2>2. {loc[o].in, p} \cap Rooms = {}
    BY <1>4, <2>1
  <2> QED BY <1>1, <1>4, <1>6, <2>1, <2>2 DEF Take
<1> QED BY <1>2, <1>3, <1>5, <1>6

\* CreateObject and EnsureBankRoot.
LEMMA AppearFiles == RInv /\ FInv /\ Appear => FInv'
<1> SUFFICES ASSUME RInv, FInv, Appear PROVE FInv'
  OBVIOUS
<1>1. PICK o \in Objects, h \in Rooms \cup Players \cup Banks : Create(o, h) /\ \E M : Play(M)
  BY DEF Appear, CreateObject, EnsureBankRoot
<1>2. PICK M : Play(M)
  BY <1>1
<1>3. /\ loc \in [Objects -> Places \cup {Nowhere}] /\ list \in [Holders -> SUBSET Objects]
      /\ World.loc = loc /\ World'.loc = loc' /\ In(World) = live
      /\ h \in Holders /\ h \notin Objects /\ At(h).in = h
  BY <1>2, PlayFacts, PlaceFacts, HolderFacts
<1>4. /\ loc' = [loc EXCEPT ![o] = At(h)] /\ list' = [list EXCEPT ![h] = @ \cup {o}]
  BY <1>1 DEF Create
<1>5. ASSUME Acyclic(World) PROVE Acyclic(World')
  <2> SUFFICES ASSUME NEW S \in SUBSET In(World'), S # {}, \A x \in S : loc'[x].in \in S PROVE FALSE
    BY <1>3 DEF Acyclic
  <2>1. S \subseteq Objects
    BY DEF In
  <2>2. o \notin S
    BY <1>3, <1>4, <2>1
  <2>3. S \subseteq live /\ \A x \in S : loc[x] = loc'[x]
    BY <1>3, <1>4, <2>1, <2>2 DEF In, live
  <2> QED BY <1>3, <1>5, <2>3 DEF Acyclic
<1>6. \A r \in Rooms : list[r] \subseteq list'[r]
  BY <1>3, <1>4, HolderFacts
<1> QED BY <1>2, <1>5, <1>6, PlayFiles

\* DestroyObject: of what goes only the object itself can lie on a floor.
LEMMA DestroyFiles == RInv /\ FInv /\ Destroy => FInv'
<1> SUFFICES ASSUME RInv, FInv, Destroy PROVE FInv'
  OBVIOUS
<1>1. PICK o \in Objects : DestroyObject(o) /\ Play(OuterRoom(o))
  BY DEF Destroy
<1>2. /\ loc \in [Objects -> Places \cup {Nowhere}] /\ list \in [Holders -> SUBSET Objects]
      /\ World.loc = loc /\ World.list = list /\ World'.loc = loc' /\ In(World) = live /\ Agreed(World)
  BY <1>1, PlayFacts
<1> DEFINE gone == Doomed({o})
<1>3. /\ loc' = [x \in Objects |-> IF x \in gone THEN Nowhere ELSE loc[x]]
      /\ list' = [h \in Holders |-> IF h \in gone THEN {} ELSE list[h] \ gone]
  BY <1>1 DEF DestroyObject
<1>4. gone = Tree(o)
  BY DEF Doomed
<1> HIDE DEF gone
<1>5. ASSUME Acyclic(World) PROVE Acyclic(World')
  <2>1. In(World') \subseteq live /\ \A x \in In(World') : loc'[x] = loc[x]
    BY <1>2, <1>3 DEF In, live
  <2> QED BY <1>2, <1>5, <2>1 DEF Acyclic
<1>6. ASSUME NEW r \in Rooms \ OuterRoom(o), list'[r] = {} PROVE list[r] = {}
  <2> SUFFICES ASSUME NEW c \in list[r] PROVE FALSE
    OBVIOUS
  <2>1. r \in Holders /\ r \notin Objects
    BY HolderFacts
  <2>2. loc[c].in = r
    BY <1>2, <2>1 DEF Agreed
  <2>3. c \in Tree(o)
    BY <1>2, <1>3, <1>4, <1>6, <2>1, TreeClosed
  <2>4. c = o
    <3> SUFFICES ASSUME c # o PROVE FALSE
      OBVIOUS
    <3>1. PICK y \in Tree(o) : c \in list[y]
      BY <1>2, <2>3, TreeClosed
    <3>2. y \in Objects /\ y \in Holders
      BY <1>2, TreeClosed, HolderFacts
    <3> QED BY <1>2, <2>1, <2>2, <3>1, <3>2 DEF Agreed
  <2>5. Inside(o, o)
    BY DEF Inside
  <2> QED BY <2>2, <2>4, <2>5 DEF OuterRoom
<1> QED BY <1>1, <1>5, <1>6, PlayFiles

\* A step that leaves the world as it is and writes the files of V, and takes
\* marks away from no other rooms.
LEMMA WriteFiles ==
    ASSUME RInv, FlushTypes, FInv, running,
           UNCHANGED <<vars, todo, torn, stage, dirtyRooms, calm, lost, synced>>,
           NEW V \in SUBSET Owners,
           disk' = [x \in Owners |-> IF x \in V THEN Snapshot(x) ELSE disk[x]],
           mixed' = (mixed \/ ~HoldersAgree),
           marked' \subseteq marked, \A r \in marked : r \in marked' \cup V,
           due \ V \subseteq due'
    PROVE  FInv'
<1>1. /\ World' = World /\ World.list = list /\ World.loc = loc /\ list' = list
      /\ todo = {} /\ todo' = {} /\ torn' = torn
  BY DEF World, vars, running
<1> SUFFICES ASSUME ~mixed' PROVE FInv'
  BY DEF FInv
<1>2. ~mixed /\ IsWorld(World) /\ Listed(World) /\ Agreed(World) /\ NoneDangles(World)
  BY AgreedWorld DEF RInv
<1>3. \A x \in Owners : PlainFile(disk[x]) /\ AcyclicFile(disk[x])
  BY <1>2 DEF RInv, FInv
<1>4. Acyclic(World)
  BY <1>2 DEF FInv
<1>5. ASSUME NEW x \in Owners PROVE AcyclicFile(disk'[x])
  BY <1>3, <1>4, SnapshotAcyclic
<1>6. \A x \in V : Faithful(World, x, Snapshot(x))
  BY <1>2, SnapshotIsFaithful
<1>7. ASSUME ~torn, NothingStatic PROVE FilesOfEmptyRooms'
  <2> SUFFICES ASSUME ~lost, NEW r \in Rooms, r \notin marked', list[r] = {}
               PROVE  DOMAIN disk'[r].records = {}
    BY <1>1 DEF FilesOfEmptyRooms, running
  <2>1. r \in Owners
    BY DEF Owners
  <2>2. CASE r \in V
    <3>1. Faithful(World, r, Snapshot(r)) /\ AcyclicFile(Snapshot(r))
      BY <1>4, <1>6, <2>1, <2>2, SnapshotAcyclic
    <3>2. \A o \in In(World) : World.loc[o].in # r
      BY <1>1, <1>2 DEF Agreed
    <3>3. \A o \in DOMAIN Snapshot(r).records : Snapshot(r).records[o].loc.in # r
      BY <3>1, <3>2 DEF Faithful
    <3>4. DOMAIN Snapshot(r).records = {}
      BY <3>1, <3>3, NoRootsNoFile DEF Faithful
    <3> QED BY <2>1, <2>2, <3>4
  <2>3. CASE r \notin V
    <3>1. r \notin marked
      BY <2>3
    <3>2. DOMAIN disk[r].records = {}
      BY <1>1, <1>2, <1>7, <3>1 DEF FInv, FilesOfEmptyRooms, running
    <3> QED BY <2>1, <2>3, <3>2
  <2> QED BY <2>2, <2>3
<1>8. ASSUME ~torn, NothingStatic, synced' # Unsynced PROVE Synced(synced)'
  <2>1. synced' = World /\ \A x \in Owners : Faithful(World, x, disk[x])
    <3>1. Synced(synced)
      BY <1>2, <1>8 DEF FInv
    <3> QED BY <3>1 DEF Synced
  <2>2. \A x \in Owners : Faithful(World, x, disk'[x])
    BY <1>6, <2>1
  <2>3. World = [loc |-> World.loc, list |-> World.list]
    BY DEF World
  <2> HIDE DEF World
  <2> QED BY <1>1, <1>2, <1>4, <2>1, <2>2, <2>3 DEF Synced, running
<1>9. FlushSoFar'
  <2> SUFFICES ASSUME stage # "none", calm
               PROVE  /\ Agreed(World)' /\ ~lost'
                      /\ \A x \in Flushed' : Faithful(World, x, disk'[x])
                      /\ stage' = "marked" => marked' \subseteq dirtyRooms'
    BY <1>1 DEF FlushSoFar
  <2>1. /\ ~lost /\ \A x \in Flushed : Faithful(World, x, disk[x])
        /\ stage = "marked" => marked \subseteq dirtyRooms
    BY <1>2 DEF FInv, FlushSoFar
  <2>2. Flushed' \subseteq (Flushed \cup V) \cap Owners
    <3>1. roomIDsWithFloor' = roomIDsWithFloor /\ roomIDsWithFloor \subseteq Owners
      BY <1>1 DEF roomIDsWithFloor, Owners
    <3>2. dirtyRooms \subseteq Rooms
      BY DEF FlushTypes
    <3> QED BY <3>1, <3>2 DEF Flushed, Owners
  <2>3. \A x \in Flushed' : Faithful(World, x, disk'[x])
    BY <1>6, <2>1, <2>2
  <2>4. Agreed(World)'
    BY <1>1, <1>2
  <2> QED BY <2>1, <2>3, <2>4
<1> QED BY <1>1, <1>4, <1>5, <1>7, <1>8, <1>9 DEF FInv, running, NothingStatic

\* SavePlayer, SaveBank and the rooms of FlushDirtyRoomObjects, and the files
\* of a full flush.
LEMMA SaveFiles ==
    ASSUME RInv, FlushTypes, FInv, NEW x \in Owners, Save(x) \/ FlushOne(x)
    PROVE  FInv'
<1>1. Written(x) /\ disk' = [disk EXCEPT ![x] = Snapshot(x)]
  BY DEF Save, FlushOne, Written
<1>2. DOMAIN disk = Owners
  BY DEF RInv
<1>3. DOMAIN disk' = Owners /\ \A y \in Owners : disk'[y] = IF y = x THEN Snapshot(x) ELSE disk[y]
  BY <1>1, <1>2
<1>4. disk' = [y \in DOMAIN disk' |-> disk'[y]]
  BY <1>1
<1>5. disk' = [y \in Owners |-> IF y \in {x} THEN Snapshot(y) ELSE disk[y]]
  BY <1>3, <1>4
<1>6. /\ {x} \in SUBSET Owners /\ marked' \subseteq marked
      /\ \A r \in marked : r \in marked' \cup {x}
      /\ due \ {x} \subseteq due'
  BY DEF Save, FlushOne
<1>7. /\ UNCHANGED <<vars, todo, torn, stage, dirtyRooms, calm, lost, synced>>
      /\ running /\ mixed' = (mixed \/ ~HoldersAgree)
  BY <1>1 DEF Written
<1> QED BY <1>5, <1>6, <1>7, WriteFiles

\* The steps of a full flush that write no file, and the last of them apart.
LEMMA FlushFiles ==
    ASSUME RInv, FInv, FlushActivePlayersAndBanks \/ FlushFloors \/ FlushDirtyRoomObjects
    PROVE  FInv'
<1>1. /\ UNCHANGED <<vars, disk, marked, todo, lost, synced, torn, mixed>>
      /\ running /\ stage' # "none"
  BY DEF FlushActivePlayersAndBanks, FlushFloors, FlushDirtyRoomObjects
<1>2. /\ World' = World /\ list' = list /\ roomIDsWithFloor' = roomIDsWithFloor
      /\ UNCHANGED <<disk, marked, todo, lost, synced, torn, mixed>>
  BY <1>1 DEF vars, World, roomIDsWithFloor
<1> SUFFICES ASSUME ~mixed PROVE FInv'
  BY <1>2 DEF FInv
<1>3. FlushSoFar'
  <2> SUFFICES ASSUME calm'
               PROVE  /\ Agreed(World) /\ ~lost
                      /\ \A x \in Flushed' : Faithful(World, x, disk[x])
                      /\ stage' = "marked" => marked' \subseteq dirtyRooms'
    BY <1>2 DEF FlushSoFar
  <2>1. CASE FlushActivePlayersAndBanks
    <3>1. stage' = "owners" /\ due' = Players \cup Banks /\ HoldersAgree /\ ~lost
      BY <2>1 DEF FlushActivePlayersAndBanks
    <3>2. Flushed' = {}
      BY <3>1 DEF Flushed
    <3>3. Agreed(World)
      BY <3>1, AgreedWorld DEF RInv
    <3> QED BY <3>1, <3>2, <3>3
  <2>2. CASE FlushFloors
    <3>1. /\ stage = "owners" /\ due = {} /\ calm /\ stage' = "floors" /\ due' = roomIDsWithFloor
      BY <2>2 DEF FlushFloors
    <3>2. Flushed' = Players \cup Banks /\ Flushed = Players \cup Banks
      BY <1>2, <3>1 DEF Flushed
    <3> QED BY <3>1, <3>2 DEF FInv, FlushSoFar
  <2>3. CASE FlushDirtyRoomObjects
    <3>1. /\ stage = "floors" /\ due = {} /\ calm /\ stage' = "marked"
          /\ due' = marked /\ dirtyRooms' = marked
      BY <2>3 DEF FlushDirtyRoomObjects
    <3>2. /\ Flushed' = Players \cup Banks \cup roomIDsWithFloor
          /\ Flushed = Players \cup Banks \cup roomIDsWithFloor
      BY <1>2, <3>1 DEF Flushed
    <3> QED BY <1>2, <3>1, <3>2 DEF FInv, FlushSoFar
  <2> QED BY <2>1, <2>2, <2>3
<1> QED BY <1>2, <1>3 DEF FInv, running, NoConflicts, Conflict, FilesOfEmptyRooms, Roots, Synced, NothingStatic

\* At the end of a flush in which nothing was played the files are the world.
LEMMA EndFlushFiles == RInv /\ FInv /\ EndFlush => FInv'
<1> SUFFICES ASSUME RInv, FInv, EndFlush PROVE FInv'
  OBVIOUS
<1>1. /\ UNCHANGED <<vars, disk, todo, torn, mixed>>
      /\ running /\ stage = "marked" /\ due = {} /\ stage' = "none"
      /\ marked' = marked \ dirtyRooms /\ lost' = (lost \/ ~calm)
      /\ synced' = IF calm THEN World ELSE Unsynced
  BY DEF EndFlush
<1>2. /\ World' = World /\ list' = list /\ World.list = list /\ World.loc = loc
      /\ UNCHANGED <<disk, todo, torn, mixed>> /\ todo = {} /\ todo' = {}
  BY <1>1 DEF vars, World, running
<1> SUFFICES ASSUME ~mixed PROVE FInv'
  BY <1>2 DEF FInv
<1>3. FlushSoFar'
  BY <1>1 DEF FlushSoFar
<1>4. /\ IsWorld(World) /\ NoneDangles(World) /\ Acyclic(World)
      /\ \A x \in Owners : PlainFile(disk[x]) /\ AcyclicFile(disk[x])
  BY DEF RInv, FInv
<1>5. ASSUME calm
      PROVE  /\ Agreed(World) /\ ~lost /\ marked \subseteq dirtyRooms
             /\ \A x \in Players \cup Banks \cup roomIDsWithFloor \cup dirtyRooms :
                  Faithful(World, x, disk[x])
  BY <1>1, <1>5 DEF FInv, FlushSoFar, Flushed
<1>6. ASSUME ~torn, NothingStatic, calm, NEW r \in Rooms, list[r] = {}
      PROVE  DOMAIN disk[r].records = {}
  <2>1. r \in Owners
    BY DEF Owners
  <2>2. CASE r \in dirtyRooms
    <3>1. Faithful(World, r, disk[r])
      BY <1>5, <1>6, <2>2
    <3>2. \A o \in In(World) : World.loc[o].in # r
      BY <1>2, <1>5, <1>6 DEF Agreed
    <3>3. \A o \in DOMAIN disk[r].records : disk[r].records[o].loc.in # r
      BY <3>1, <3>2 DEF Faithful
    <3> QED BY <1>4, <2>1, <3>1, <3>3, NoRootsNoFile DEF Faithful
  <2>3. CASE r \notin dirtyRooms
    BY <1>1, <1>5, <1>6, <2>3 DEF FInv, FilesOfEmptyRooms
  <2> QED BY <2>2, <2>3
<1>7. ASSUME ~torn, NothingStatic PROVE FilesOfEmptyRooms'
  BY <1>1, <1>2, <1>6, <1>7 DEF FilesOfEmptyRooms, running
<1>8. ASSUME ~torn, NothingStatic, synced' # Unsynced PROVE Synced(synced)'
  <2>1. calm /\ synced' = World
    BY <1>1, <1>8
  <2>2. ASSUME NEW x \in Owners PROVE Faithful(World, x, disk[x])
    <3>1. CASE x \in Players \cup Banks \cup roomIDsWithFloor
      BY <1>5, <2>1, <3>1
    <3>2. CASE x \notin Players \cup Banks \cup roomIDsWithFloor
      <4>1. x \in Rooms /\ list[x] = {}
        BY <3>2 DEF Owners, roomIDsWithFloor
      <4>2. DOMAIN disk[x].records = {} /\ PlainFile(disk[x])
        BY <1>4, <1>6, <1>8, <2>1, <4>1
      <4> QED BY <1>2, <1>5, <2>1, <4>1, <4>2, EmptyIsFaithful
    <3> QED BY <3>1, <3>2
  <2>3. World = [loc |-> World.loc, list |-> World.list]
    BY DEF World
  <2>4. Agreed(World)
    BY <1>5, <2>1
  <2> HIDE DEF World
  <2> QED BY <1>2, <1>4, <2>1, <2>2, <2>3, <2>4 DEF Synced, running
<1> QED BY <1>2, <1>3, <1>4, <1>7, <1>8 DEF FInv, running, NothingStatic

\* All that the files tell of a world that was flushed.
LEMMA SyncedWhole ==
    ASSUME NEW W, Synced(W)
    PROVE  Built(W, Owners, disk) = W
<1>1. /\ W = [loc |-> W.loc, list |-> W.list]
      /\ IsWorld(W) /\ Agreed(W) /\ NoneDangles(W) /\ Acyclic(W)
      /\ \A x \in Owners : Faithful(W, x, disk[x])
  BY DEF Synced
<1> QED BY <1>1, BuiltWhole

\* The objects of the base load lie in rooms.
LEMMA BaseAcyclic == Acyclic(Base)
<1> SUFFICES ASSUME NEW S \in SUBSET In(Base), S # {} PROVE \E o \in S : Base.loc[o].in \notin S
  BY DEF Acyclic
<1>1. S \subseteq Objects /\ \A o \in S : Base.loc[o] = At(Static[o])
  BY DEF In, Base
<1>2. \A o \in S : Static[o] \notin S
  <2>1. \A o \in Objects : Static[o] \in Rooms \cup {None}
    BY RestoreAssumption
  <2>2. \A h \in Rooms \cup {None} : h \notin Objects
    BY HolderFacts
  <2> QED BY <1>1, <2>1, <2>2
<1>3. \A h : At(h).in = h
  BY DEF At
<1>4. \A o \in S : Base.loc[o].in \notin S
  BY <1>1, <1>2, <1>3
<1> QED BY <1>4

\* The base load: none of the files is merged yet.
LEMMA RestartFiles == RInv /\ FInv /\ Restart => FInv'
<1> SUFFICES ASSUME RInv, FInv, Restart PROVE FInv'
  OBVIOUS
<1>1. /\ World' = Base /\ disk' = disk /\ mixed' = mixed /\ synced' = synced
      /\ todo' = Players \cup Rooms /\ todo = {}
      /\ torn' = (torn \/ \E r, s \in Rooms : r # s /\ Conflict(r, s))
      /\ stage' = "none"
  BY DEF Restart, World, Base, running
<1> SUFFICES ASSUME ~mixed PROVE FInv'
  BY <1>1 DEF FInv
<1>2. Acyclic(Base)
  BY BaseAcyclic
<1>3. \A x \in Owners : AcyclicFile(disk'[x])
  BY <1>1 DEF FInv
<1>4. ASSUME ~torn' PROVE NoConflicts'
  BY <1>1, <1>4 DEF NoConflicts, Conflict
<1>5. FilesOfEmptyRooms'
  BY <1>1 DEF FilesOfEmptyRooms, running
<1>6. ASSUME ~torn, NothingStatic, synced # Unsynced PROVE Synced(synced)'
  <2> DEFINE W == synced
  <2>1. Synced(W)
    BY <1>6 DEF FInv
  <2>2. /\ W = [loc |-> W.loc, list |-> W.list]
        /\ IsWorld(W) /\ Agreed(W) /\ NoneDangles(W) /\ Acyclic(W)
        /\ \A x \in Owners : Faithful(W, x, disk[x])
    BY <2>1 DEF Synced
  <2>3. Base = Built(W, {}, disk)
    BY <1>6, BuiltFromNothing
  <2>4. Merged(todo') = {}
    BY <1>1, MergedFacts
  <2>5. todo' = {} => Built(W, {}, disk) = W
    <3> SUFFICES ASSUME todo' = {} PROVE Owners = {}
      BY <2>1, SyncedWhole
    <3> QED BY <1>1, RestoreAssumption DEF Owners
  <2>6. World' = IF todo' = {} THEN W ELSE Built(W, Merged(todo'), disk)
    BY <1>1, <2>3, <2>4, <2>5
  <2> QED BY <1>1, <2>2, <2>6 DEF Synced, running
<1>7. FlushSoFar'
  BY <1>1 DEF FlushSoFar
<1> QED BY <1>1, <1>2, <1>3, <1>4, <1>5, <1>6, <1>7 DEF FInv, NothingStatic

\* A merge, of one file or of two.
LEMMA MergeFiles ==
    ASSUME RInv, FlushTypes, FInv, ~running, UNCHANGED <<disk, stage, synced, torn, mixed>>,
           ~mixed => Acyclic(World'),
           ~mixed /\ ~torn /\ NothingStatic => \A r \in Rooms \ todo' : Roots(r) \subseteq list'[r],
           ~mixed /\ ~torn /\ NothingStatic /\ Synced(synced)
             => World' = Built(synced, Merged(todo'), disk)
    PROVE  FInv'
<1> SUFFICES ASSUME ~mixed PROVE FInv'
  BY DEF FInv
<1>1. \A x \in Owners : AcyclicFile(disk[x]) /\ Sound(x, disk[x])
  BY DEF FInv, RInv
<1>2. ASSUME ~torn, NothingStatic PROVE NoConflicts'
  BY <1>2 DEF FInv, NoConflicts, Conflict
<1>3. ASSUME ~torn, NothingStatic PROVE FilesOfEmptyRooms'
  <2>1. ASSUME NEW r \in Rooms \ todo', list'[r] = {} PROVE DOMAIN disk[r].records = {}
    <3>1. r \in Owners
      BY DEF Owners
    <3>2. \A o \in DOMAIN disk[r].records : disk[r].records[o].loc.in # r
      BY <1>3, <2>1 DEF Roots
    <3> QED BY <1>1, <3>1, <3>2, NoRootsNoFile
  <2>2. \A r \in Rooms \ todo' : Roots(r)' \subseteq list'[r]
    BY <1>3 DEF Roots
  <2> QED BY <2>1, <2>2 DEF FilesOfEmptyRooms, running
<1>4. ASSUME ~torn, NothingStatic, synced # Unsynced PROVE Synced(synced)'
  <2> DEFINE W == synced
  <2>1. Synced(W)
    BY <1>4 DEF FInv
  <2>2. /\ W = [loc |-> W.loc, list |-> W.list]
        /\ IsWorld(W) /\ Agreed(W) /\ NoneDangles(W) /\ Acyclic(W)
        /\ \A x \in Owners : Faithful(W, x, disk[x])
    BY <2>1 DEF Synced
  <2>3. World' = Built(W, Merged(todo'), disk)
    BY <1>4, <2>1
  <2>4. todo' = {} => World' = W
    BY <2>1, <2>3, MergedFacts, SyncedWhole
  <2> QED BY <2>2, <2>3, <2>4 DEF Synced, running
<1>5. FlushSoFar'
  BY DEF FlushTypes, FlushSoFar
<1> QED BY <1>1, <1>2, <1>3, <1>4, <1>5 DEF FInv, NothingStatic

\* MergePlayerSaveIntoWorld, and the bank.
LEMMA MergePlayerFiles ==
    ASSUME RInv, FlushTypes, FInv, NEW p \in Players, MergePlayer(p)
    PROVE  FInv'
<1> DEFINE player == Overwrite(World, p)
           v == IF BankOf[p] = None THEN player ELSE Overwrite(player, BankOf[p])
<1>1. /\ loc' = v.loc /\ list' = v.list /\ p \in todo /\ todo' = todo \ {p}
      /\ UNCHANGED <<disk, stage, synced, torn, mixed>> /\ ~running
  BY DEF MergePlayer, running, flushVars
<1>2. BankOf[p] # None => BankOf[p] \in Banks
  BY RestoreAssumption
<1>3. World' = v
  <2>1. \A w, x : Overwrite(w, x) = [loc |-> Overwrite(w, x).loc, list |-> Overwrite(w, x).list]
    BY DEF Overwrite
  <2>2. v = [loc |-> v.loc, list |-> v.list]
    BY <2>1
  <2> HIDE DEF v
  <2> QED BY <1>1, <2>2 DEF World
<1>4. ASSUME NEW w, NEW x \in Players \cup Banks, ~mixed, Acyclic(w) PROVE Acyclic(Overwrite(w, x))
  <2>1. PlainFile(disk[x]) /\ Sound(x, disk[x]) /\ AcyclicFile(disk[x]) /\ x \notin Objects
    BY <1>4, HolderFacts DEF RInv, FInv, Owners
  <2>2. Overwrite(w, x).loc = [o \in Objects |-> IF o \in DOMAIN disk[x].records
                                                THEN disk[x].records[o].loc ELSE w.loc[o]]
    BY DEF Overwrite
  <2> QED BY <1>4, <2>1, <2>2, SoundKeepsAcyclic
<1>5. ASSUME ~mixed PROVE Acyclic(v)
  <2>1. Acyclic(player)
    BY <1>4, <1>5 DEF FInv
  <2> QED BY <1>2, <1>4, <1>5, <2>1
<1>6. ASSUME NEW w, NEW x \in Players \cup Banks, NEW r \in Rooms PROVE Overwrite(w, x).list[r] = w.list[r]
  <2>1. r # x /\ r \notin Objects /\ r \in Holders
    BY HolderFacts
  <2>2. DOMAIN disk[x].records \subseteq Objects
    BY DEF RInv, PlainFile, Owners
  <2> QED BY <2>1, <2>2 DEF Overwrite
<1>7. \A r \in Rooms : list'[r] = list[r]
  <2>1. \A r \in Rooms : player.list[r] = list[r]
    BY <1>6 DEF World
  <2> HIDE DEF player
  <2> QED BY <1>1, <1>2, <1>6, <2>1
<1>8. ASSUME ~mixed, ~torn, NothingStatic PROVE \A r \in Rooms \ todo' : Roots(r) \subseteq list'[r]
  <2>1. \A r \in Rooms \ todo' : r \notin todo
    BY <1>1, HolderFacts
  <2>2. \A r \in Rooms \ todo : Roots(r) \subseteq list[r]
    BY <1>1, <1>8 DEF FInv, FilesOfEmptyRooms
  <2> QED BY <1>7, <2>1, <2>2
<1>9. ASSUME Synced(synced) PROVE v = Built(synced, Merged(todo'), disk)
  <2> DEFINE W == synced
             R == Merged(todo)
             b == BankOf[p]
  <2>1. /\ World = Built(W, R, disk) /\ \A x \in Players \cup Banks : Faithful(W, x, disk[x])
    BY <1>1, <1>9 DEF Synced, Owners
  <2>2. player = Built(W, R \cup {p}, disk)
    BY <2>1, OverwriteBuilds
  <2>3. Merged(todo') = R \cup {p} \cup (IF b = None THEN {} ELSE {b})
    BY <1>1, MergedFacts
  <2>4. CASE b = None
    BY <2>2, <2>3, <2>4
  <2>5. CASE b # None
    <3>1. b \in Players \cup Banks /\ Faithful(W, b, disk[b])
      BY <1>2, <2>1, <2>5
    <3> HIDE DEF player, b, R
    <3>2. Overwrite(Built(W, R \cup {p}, disk), b) = Built(W, (R \cup {p}) \cup {b}, disk)
      BY <3>1, OverwriteBuilds
    <3>3. v = Overwrite(player, b)
      BY <2>5 DEF b
    <3>4. Merged(todo') = (R \cup {p}) \cup {b}
      BY <2>3, <2>5
    <3> QED BY <2>2, <3>2, <3>3, <3>4
  <2> QED BY <2>4, <2>5
<1> HIDE DEF v
<1> QED BY <1>1, <1>3, <1>5, <1>8, <1>9, MergeFiles

\* MergeRoomObjectsSaveIntoWorld.
LEMMA MergeRoomFiles ==
    ASSUME RInv, FlushTypes, FInv, NEW r \in Rooms, MergeRoom(r)
    PROVE  FInv'
<1> DEFINE f == disk[r]
           D == DOMAIN f.records
           v == Rehomed(World, f.records)
<1>1. /\ loc' = v.loc /\ r \in todo /\ todo' = todo \ {r}
      /\ UNCHANGED <<disk, stage, synced, torn, mixed>> /\ ~running
      /\ World' = [loc |-> v.loc, list |-> v.list] /\ World'.loc = loc' /\ World'.list = list'
      /\ World.loc = loc /\ World.list = list
  BY DEF MergeRoom, running, World, flushVars
<1>2. /\ IsWorld(World) /\ Listed(World) /\ FloorListsTrue(World) /\ PlainFile(f)
      /\ r \notin Objects
  BY HolderFacts DEF RInv, Owners
<1>3. v.loc = [o \in Objects |-> IF o \in D THEN f.records[o].loc ELSE World.loc[o]]
  BY <1>2, RehomedKeeps
<1>4. RInv'
  BY MergeRoomInv
<1> HIDE DEF v
<1>5. ASSUME ~mixed PROVE Acyclic(World')
  <2>1. Acyclic(World) /\ Sound(r, f) /\ AcyclicFile(f)
    BY <1>5 DEF FInv, RInv, Owners
  <2>2. World'.loc = [o \in Objects |-> IF o \in D THEN f.records[o].loc ELSE World.loc[o]]
    BY <1>1, <1>3
  <2> HIDE DEF f
  <2> QED BY <1>2, <2>1, <2>2, SoundKeepsAcyclic
<1>6. ASSUME ~mixed, ~torn, NothingStatic PROVE \A s \in Rooms \ todo' : Roots(s) \subseteq list'[s]
  <2> SUFFICES ASSUME NEW s \in Rooms \ todo', NEW o \in Roots(s) PROVE o \in list'[s]
    OBVIOUS
  <2>1. o \in DOMAIN disk[s].records /\ disk[s].records[o].loc.in = s /\ o \in Objects
    BY DEF Roots, RInv, PlainFile, Owners
  <2>2. loc'[o].in = s
    <3>1. CASE s = r
      BY <1>1, <1>3, <2>1, <3>1
    <3>2. CASE s # r
      <4>1. o \in list[s]
        BY <1>1, <1>6, <3>2 DEF FInv, FilesOfEmptyRooms
      <4>2. loc[o] = At(s) /\ At(s).in = s
        BY <1>1, <1>2, <1>6, <2>1, <4>1, PlaceFacts, HolderFacts DEF FloorListsTrue, NothingStatic
      <4>3. o \notin D
        BY <1>1, <1>6, <2>1, <3>2 DEF FInv, NoConflicts, Conflict
      <4> QED BY <1>1, <1>3, <2>1, <4>2, <4>3
    <3> QED BY <3>1, <3>2
  <2>3. FloorsListed(World')
    BY <1>1, <1>4, <1>6 DEF RInv
  <2> QED BY <1>1, <2>1, <2>2, <2>3 DEF FloorsListed
<1>7. ASSUME Synced(synced) PROVE World' = Built(synced, Merged(todo'), disk)
  <2> DEFINE W == synced
             R == Merged(todo)
  <2>1. /\ World = Built(W, R, disk) /\ IsWorld(W) /\ Agreed(W) /\ Acyclic(W)
        /\ \A x \in Owners : Faithful(W, x, disk[x])
    BY <1>1, <1>7 DEF Synced
  <2>2. r \in Owners /\ r \notin R /\ R \subseteq Owners /\ \A x \in Owners : x \notin Objects
    BY <1>1, RestoreAssumption, HolderFacts DEF Merged, Owners
  <2>3. D \cap Recorded(R, disk) = {}
    <3> HIDE DEF R, W
    <3>1. ASSUME NEW x \in R PROVE D \cap DOMAIN disk[x].records = {}
      BY <2>1, <2>2, <3>1, FilesDisjoint
    <3> QED BY <3>1 DEF Recorded
  <2>4. v = Built(W, R \cup {r}, disk)
    BY <2>1, <2>2, <2>3, RehomeBuilds DEF v
  <2>5. Merged(todo') = R \cup {r}
    BY <1>1, MergedFacts
  <2>6. World' = v
    BY <1>1, <2>4 DEF Built
  <2> QED BY <2>4, <2>5, <2>6
<1> QED BY <1>1, <1>5, <1>6, <1>7, MergeFiles

\* The first start.
LEMMA RestoreInitFiles == RestoreInit => FInv
<1> SUFFICES ASSUME RestoreInit PROVE FInv
  OBVIOUS
<1>1. /\ World = Base /\ todo = {} /\ disk = [x \in Owners |-> NoFile] /\ synced = Unsynced
  BY DEF RestoreInit, World, Base
<1>2. DOMAIN NoFile.records = {}
  BY DEF NoFile
<1>3. \A x \in Owners : DOMAIN disk[x].records = {} /\ AcyclicFile(disk[x])
  BY <1>1, <1>2 DEF AcyclicFile
<1>4. Acyclic(Base)
  BY BaseAcyclic
<1>5. FilesOfEmptyRooms
  BY <1>1, <1>3 DEF FilesOfEmptyRooms, running, Owners
<1>6. FlushSoFar
  BY DEF RestoreInit, FlushSoFar
<1> QED BY <1>1, <1>3, <1>4, <1>5, <1>6 DEF FInv, running

\* Every step keeps what is known of the files.
LEMMA RestoreNextFiles == RInv /\ FlushTypes /\ FInv /\ [RestoreNext]_restoreVars => FInv'
<1> SUFFICES ASSUME RInv, FlushTypes, FInv, [RestoreNext]_restoreVars PROVE FInv'
  OBVIOUS
<1>1. CASE UNCHANGED restoreVars
  <2>1. UNCHANGED <<World, loc, list, disk, marked, todo, stage, due, dirtyRooms, calm, lost,
                    synced, torn, mixed>>
    BY <1>1 DEF restoreVars, flushVars, vars, World
  <2>2. FlushSoFar' <=> FlushSoFar
    BY <2>1 DEF FlushSoFar, Flushed, roomIDsWithFloor
  <2> QED BY <2>1, <2>2 DEF FInv, running, NoConflicts, Conflict, FilesOfEmptyRooms, Roots, Synced, NothingStatic
<1> QED BY <1>1, HandleFiles, AppearFiles, DestroyFiles, FlushFiles, EndFlushFiles, RestartFiles, SaveFiles,
           MergePlayerFiles, MergeRoomFiles DEF RestoreNext

\* What the files say of the world, whatever is saved, lost and restored.
THEOREM RestoreFilesInvariant == RestoreSpec => [](RInv /\ FlushTypes /\ FInv)
<1> QED BY RestoreInvariant, RestoreInitFiles, RestoreNextFiles, PTL DEF RestoreSpec

\* A full flush saves "complete world state" (player_save.go:279): after one in
\* which nothing was played, a restart gives back exactly what was there, wherever
\* each object was, as long as every file was written while the lists agreed.
THEOREM RestartsRestore == RestoreSpec => [](~mixed => RestartRestores)
<1>1. RInv /\ FlushTypes /\ FInv => (~mixed => RestartRestores)
  <2> SUFFICES ASSUME FInv, ~mixed, running, synced # Unsynced, ~torn, NothingStatic
               PROVE  World = synced
    BY DEF RestartRestores
  <2>1. Synced(synced)
    BY DEF FInv
  <2> QED BY <2>1 DEF Synced
<1> QED BY <1>1, RestoreFilesInvariant, PTL
=============================================================================
