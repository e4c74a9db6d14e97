------------------------------ MODULE Placement ------------------------------
(***************************************************************************)
(* Where objects are (internal/world/state: object.go, room.go,            *)
(* creature.go, death.go, dm_support.go and the equipment commands).       *)
(*                                                                         *)
(* The world keeps the same fact in up to three places: an object's        *)
(* Location names its holder and slot, the holder's list of references     *)
(* names the object, and the equipment of a creature names it once more.   *)
(* Each mutator updates all of them under the world's locks and the game   *)
(* loop runs one command at a time, so every mutator and every equipment   *)
(* command is one step, and a command or update that calls several is as   *)
(* many.  The lists are kept free of duplicates by insertion and are sets  *)
(* here; gold and charges are left out.                                    *)
(***************************************************************************)
EXTENDS Integers, FiniteSets

CONSTANTS
    Rooms, Players, Monsters, Banks,
    Objects,    \* object ids; a deleted id may be used again
    Slots,      \* equipment slots
    WearSlot,   \* the slot an object can be worn, held or wielded in, or None
                \* (a ring: the first finger that was free)
    None

Wield == "wield"
InHand == "held"
Unworn == "inventory"

Creatures == Players \cup Monsters
Holders == Rooms \cup Creatures \cup Banks \cup Objects

ASSUME PlacementAssumption ==
    /\ Rooms \cap Creatures = {} /\ Players \cap Monsters = {}
    /\ Banks \cap (Rooms \cup Creatures) = {}
    /\ Objects \cap (Rooms \cup Creatures \cup Banks) = {}
    /\ None \notin Holders /\ None \notin Slots
    /\ Wield \in Slots /\ Unworn \notin Slots
    /\ WearSlot \in [Objects -> Slots \cup {None}]

VARIABLES
    loc,        \* ObjectInstance.Location; Nowhere when w.objects has no such id
    list,       \* per holder: the object ids of its Inventory, Objects or Contents
    equip,      \* Creature.Equipment of the players: slot to object, or None
    alive,      \* the monsters in w.creatures
    scavenged,  \* monsters tagged MHASSC: they picked something up and stay
    strayed     \* history: what a monster carried when it wandered off

vars == <<loc, list, equip, alive, scavenged, strayed>>

At(h) == [in |-> h, slot |-> Unworn]
Worn(c, s) == [in |-> c, slot |-> s]
Nowhere == At(None)

Locations == [in : Holders, slot : Slots \cup {Unworn}]

live == {o \in Objects : loc[o] # Nowhere}
Exists(h) == h \in Rooms \cup Players \cup Banks \cup alive \cup live

\* A loaded world: objects lie in rooms, banks and inventories.
Init ==
    /\ loc \in [Objects -> {At(h) : h \in Rooms \cup Players \cup Banks \cup {None}}]
    /\ list = [h \in Holders |-> {o \in Objects : loc[o].in = h}]
    /\ equip = [p \in Players |-> [s \in Slots |-> None]]
    /\ alive = {} /\ scavenged = {} /\ strayed = {}

-----------------------------------------------------------------------------
(* What the mutators share. *)

\* A command finds an object through the list of its holder.
Found(o) == o \in live /\ o \in list[loc[o].in]
Held(o, c) == loc[o] = At(c) /\ o \in list[c]

\* A mutant.
DirectlyInside(k, o) == k = o \/ loc[k].in = o
\* containsObjectAncestorLocked: going up from k one meets o.
Inside(k, o) ==
    \A S \in SUBSET Objects :
        (k \in S /\ \A x \in S : loc[x].in \in Objects => loc[x].in \in S) => o \in S

\* A mutant.
RelistTwice(o, h) == [list EXCEPT ![h] = @ \cup {o}]
\* removeObjectFromHolderLocked and addObjectToHolderLocked on the lists.
Relist(o, h) == [list EXCEPT ![loc[o].in] = @ \ {o}, ![h] = @ \cup {o}]

\* The same two on the equipment: taken out of every slot of its old holder,
\* and put on, whatever the slot held before.
TakeOff(p, o) == [s \in Slots |-> IF equip[p][s] = o THEN None ELSE equip[p][s]]
Unequip(o) == [p \in Players |-> IF p = loc[o].in THEN TakeOff(p, o) ELSE equip[p]]
\* A mutant.
ReequipOnly(o, l) ==
    [p \in Players |-> [s \in Slots |-> IF p = l.in /\ s = l.slot THEN o ELSE equip[p][s]]]
Reequip(o, l) ==
    [p \in Players |->
        [s \in Slots |-> IF p = l.in /\ s = l.slot THEN o ELSE Unequip(o)[p][s]]]

Move(o, l) ==
    /\ loc' = [loc EXCEPT ![o] = l]
    /\ list' = Relist(o, l.in)
    /\ equip' = Reequip(o, l)
    /\ UNCHANGED <<alive, scavenged, strayed>>

\* removeObjectFromHolderLocked and delete of one object.
Delete(o) ==
    /\ loc' = [loc EXCEPT ![o] = Nowhere]
    /\ list' = [list EXCEPT ![loc[o].in] = @ \ {o}]
    /\ equip' = Unequip(o)
    /\ UNCHANGED <<alive, scavenged, strayed>>

Create(o, h) ==
    /\ o \notin live
    /\ loc' = [loc EXCEPT ![o] = At(h)]
    /\ list' = [list EXCEPT ![h] = @ \cup {o}]
    /\ UNCHANGED <<equip, alive, scavenged, strayed>>

\* o and all that it contains, by the lists.
Tree(o) ==
    {x \in Objects :
        \A S \in SUBSET Objects : (o \in S /\ \A y \in S : list[y] \subseteq S) => x \in S}

\* deleteObjectTreeLocked: the roots in R go with all their contents.
Doomed(R) == UNION {Tree(o) : o \in R}

-----------------------------------------------------------------------------
(* Moving. *)

\* MoveObject to a room, a creature or into a container that exists and is not
\* inside o: get, drop, give, remove.
MoveObject(o, h) ==
    /\ Found(o) /\ loc[o].in \notin Banks
    /\ h \in Rooms \cup Players \cup live
    /\ h \in Objects => ~Inside(h, o)
    /\ Move(o, At(h))

\* A monster picks an object up from the floor and stays in the room for good.
Scavenge(m, o) ==
    /\ m \in alive /\ Found(o) /\ loc[o].in \in Rooms
    /\ loc' = [loc EXCEPT ![o] = At(m)]
    /\ list' = Relist(o, m)
    /\ scavenged' = scavenged \cup {m}
    /\ UNCHANGED <<equip, alive, strayed>>

\* StealCreatureInventoryObject.
Steal(o, c, p) ==
    /\ c # p /\ Held(o, c)
    /\ Move(o, At(p))

\* StoreCreatureInventoryObjectInContainer.
Store(p, o, k) ==
    /\ Held(o, p) /\ k \in live /\ ~Inside(k, o)
    /\ Move(o, At(k))

\* TakeContainerObjectToCreatureInventory.
Take(o, k, p) ==
    /\ k \in live /\ Found(o) /\ loc[o].in = k
    /\ Move(o, At(p))

-----------------------------------------------------------------------------
(* Equipment. *)

\* wear and hold refuse a slot that is occupied.
Wear(p, o, s) ==
    /\ Held(o, p) /\ WearSlot[o] = s /\ s # Wield
    /\ equip[p][s] = None
    /\ Move(o, Worn(p, s))

\* ready puts the old weapon back into the inventory.
Ready(p, o) ==
    /\ Held(o, p) /\ WearSlot[o] = Wield
    /\ loc' = [x \in Objects |-> IF x = o THEN Worn(p, Wield)
                                 ELSE IF x = equip[p][Wield] THEN At(p) ELSE loc[x]]
    /\ equip' = [equip EXCEPT ![p][Wield] = o]
    /\ UNCHANGED <<list, alive, scavenged, strayed>>

\* wear all checks the slots against the creature as it was when the command
\* began: of several objects for one free slot the last one put on stays in it.
WearAll(p, W) ==
    /\ W # {}
    /\ \A o \in W : Held(o, p) /\ WearSlot[o] \in Slots \ {Wield, InHand} /\ equip[p][WearSlot[o]] = None
    /\ loc' = [x \in Objects |-> IF x \in W THEN Worn(p, WearSlot[x]) ELSE loc[x]]
    /\ \E last \in [{WearSlot[o] : o \in W} -> W] :
          /\ \A s \in DOMAIN last : WearSlot[last[s]] = s
          /\ equip' = [equip EXCEPT ![p] =
                          [s \in Slots |-> IF s \in DOMAIN last THEN last[s] ELSE equip[p][s]]]
    /\ UNCHANGED <<list, alive, scavenged, strayed>>

\* remove, and a weapon that breaks: back into the inventory.
Remove(p, s) ==
    /\ equip[p][s] # None
    /\ Move(equip[p][s], At(p))

-----------------------------------------------------------------------------
(* Objects come and go. *)

\* createObjectFromPrototypeLocked, DropCreatureGoldToRoom, EnsurePlayerBankRoot.
CreateObject(o, h) == h \in Rooms \cup Players /\ Create(o, h)
EnsureBankRoot(o, b) == b \in Banks /\ list[b] = {} /\ Create(o, b)

\* cloneObjectTreeToLocationLocked into an inventory: f names the copies.
CloneObject(o, p, f) ==
    /\ Found(o)
    /\ f \in [Tree(o) -> Objects \ live]
    /\ \A x, y \in Tree(o) : f[x] = f[y] => x = y
    /\ \A x \in Tree(o) : WearSlot[f[x]] = WearSlot[x]
    /\ LET original == [c \in {f[x] : x \in Tree(o)} |-> CHOOSE x \in Tree(o) : f[x] = c]
           copies == DOMAIN original
       IN /\ loc' = [c \in Objects |->
                        IF c \notin copies THEN loc[c]
                        ELSE IF original[c] = o THEN At(p) ELSE At(f[loc[original[c]].in])]
          /\ list' = [h \in Holders |->
                        IF h \in copies THEN {f[x] : x \in list[original[h]]}
                        ELSE IF h = p THEN list[p] \cup {f[o]} ELSE list[h]]
    /\ UNCHANGED <<equip, alive, scavenged, strayed>>

\* A mutant.
SellFull(p, o) == loc[o].in = p /\ o \in list[p] /\ Delete(o)
\* SellObjectFromCreatureInventory refuses an object with contents; it takes
\* one that is worn.
Sell(p, o) ==
    /\ loc[o].in = p /\ o \in list[p]
    /\ list[o] = {}
    /\ Delete(o)

\* DestroyCreatureInventoryObject, PickupMoneyObjectToCreatureGold and the last
\* charge of ConsumeCreatureObjectCharge. That the object is empty is not their
\* test but their callers': they use up scrolls, potions, weapons and money, and
\* only a container takes an object in.
UseUp(o) ==
    /\ Found(o) /\ loc[o].in \notin Banks /\ list[o] = {}
    /\ Delete(o)

\* DestroyObject: a dump room, the purge command.
DestroyObject(o) ==
    /\ Found(o) /\ loc[o].in \notin Banks
    /\ LET gone == Doomed({o}) IN
          /\ loc' = [x \in Objects |-> IF x \in gone THEN Nowhere ELSE loc[x]]
          /\ list' = [h \in Holders |-> IF h \in gone THEN {} ELSE list[h] \ gone]
          /\ equip' = [p \in Players |->
                          [s \in Slots |-> IF equip[p][s] \in gone THEN None ELSE equip[p][s]]]
    /\ UNCHANGED <<alive, scavenged, strayed>>

-----------------------------------------------------------------------------
(* Creatures come and go. *)

\* spawnCreatureLocked, with new objects N; the id of a dead monster is free.
Spawn(m, N) ==
    /\ m \notin alive /\ N \subseteq Objects \ live
    /\ loc' = [x \in Objects |-> IF x \in N THEN At(m) ELSE loc[x]]
    /\ list' = [list EXCEPT ![m] = N]
    /\ alive' = alive \cup {m}
    /\ UNCHANGED <<equip, scavenged, strayed>>

\* FinalizeMonsterDeath: what it carried falls to the floor, and its gold, as a
\* new money object, if it had any.
Purses == {{}} \cup {{o} : o \in Objects}

MonsterDeath(m, r, purse) ==
    /\ m \in alive /\ purse \cap live = {}
    /\ LET floor == list[m] \cup purse IN
          /\ loc' = [x \in Objects |-> IF x \in floor THEN At(r) ELSE loc[x]]
          /\ list' = [list EXCEPT ![m] = {}, ![r] = @ \cup floor]
    /\ alive' = alive \ {m} /\ scavenged' = scavenged \ {m}
    /\ UNCHANGED <<equip, strayed>>

\* The same for a trader, whose goods go with it, and DestroyCreature (no purse).
CreatureGone(m, r, purse) ==
    /\ m \in alive
    /\ LET gone == Doomed(list[m]) IN
          /\ purse \cap (live \ gone) = {}
          /\ loc' = [x \in Objects |-> IF x \in purse THEN At(r)
                                       ELSE IF x \in gone THEN Nowhere ELSE loc[x]]
          /\ list' = [h \in Holders |-> IF h = m \/ h \in gone THEN {}
                                        ELSE (list[h] \ gone) \cup (IF h = r THEN purse ELSE {})]
    /\ alive' = alive \ {m} /\ scavenged' = scavenged \ {m}
    /\ UNCHANGED <<equip, strayed>>

\* RemoveCreature: a monster that wanders off leaves what it carried in the
\* world, located on a creature that is no more.
Wander(m) ==
    /\ m \in alive \ scavenged
    /\ strayed' = strayed \cup list[m]
    /\ list' = [list EXCEPT ![m] = {}]
    /\ alive' = alive \ {m}
    /\ UNCHANGED <<loc, equip, scavenged>>

\* PlayerDeath, playerDeathProcessReadyObjectsLocked: of the worn objects in the
\* slots S the weapon falls to the floor, the rest into the inventory, or to
\* the floor too if a player struck.  (The room of rebirth is refreshed as on
\* any entry: Spawn and CreateObject.)
PlayerDeath(p, r, S, byPlayer) ==
    /\ S \subseteq {s \in Slots : equip[p][s] # None}
    /\ LET off(T) == {equip[p][s] : s \in T}
           floor == off({s \in S : s = Wield \/ byPlayer})
       IN /\ loc' = [x \in Objects |-> IF x \in floor THEN At(r)
                                       ELSE IF x \in off(S) THEN At(p) ELSE loc[x]]
          /\ list' = [list EXCEPT ![p] = @ \ floor, ![r] = @ \cup floor]
    /\ equip' = [equip EXCEPT ![p] = [s \in Slots |-> IF s \in S THEN None ELSE equip[p][s]]]
    /\ UNCHANGED <<alive, scavenged, strayed>>

-----------------------------------------------------------------------------

Moving ==
    \/ \E o \in Objects, h \in Holders : MoveObject(o, h)
    \/ \E m \in Monsters, o \in Objects : Scavenge(m, o)
    \/ \E o \in Objects, c \in Creatures, p \in Players : Steal(o, c, p)
    \/ \E p \in Players, o, k \in Objects : Store(p, o, k) \/ Take(o, k, p)

Equipping ==
    \/ \E p \in Players, o \in Objects, s \in Slots : Wear(p, o, s)
    \/ \E p \in Players, o \in Objects : Ready(p, o)
    \/ \E p \in Players, W \in SUBSET Objects : WearAll(p, W)
    \/ \E p \in Players, s \in Slots : Remove(p, s)

Making ==
    \/ \E o \in Objects, h \in Holders : CreateObject(o, h) \/ EnsureBankRoot(o, h)
    \/ \E o \in Objects, p \in Players :
          \E f \in [Tree(o) -> Objects \ live] : CloneObject(o, p, f)

Unmaking ==
    \/ \E p \in Players, o \in Objects : Sell(p, o)
    \/ \E o \in Objects : UseUp(o) \/ DestroyObject(o)

Creating ==
    \/ \E m \in Monsters, N \in SUBSET Objects : Spawn(m, N)
    \/ \E m \in Monsters, r \in Rooms, purse \in Purses :
          MonsterDeath(m, r, purse) \/ CreatureGone(m, r, purse)
    \/ \E m \in Monsters : Wander(m)
    \/ \E p \in Players, r \in Rooms, S \in SUBSET Slots, byPlayer \in BOOLEAN :
          PlayerDeath(p, r, S, byPlayer)

Next == Moving \/ Equipping \/ Making \/ Unmaking \/ Creating

Spec == Init /\ [][Next]_vars
-----------------------------------------------------------------------------

\* Types, and that no location dangles: an object that did not stray is located
\* in something that exists.
TypeOK ==
    /\ loc \in [Objects -> Locations \cup {Nowhere}]
    /\ list \in [Holders -> SUBSET Objects]
    /\ equip \in [Players -> [Slots -> Objects \cup {None}]]
    /\ alive \subseteq Monsters /\ scavenged \subseteq alive
    /\ strayed \subseteq live
    /\ \A o \in live \ strayed : Exists(loc[o].in)

\* MoveObject "keeps old and new holder ref lists in sync" (room.go:302), and so
\* does everything else: a holder lists an object only if the object is located
\* there, and an object that did not stray is listed by its holder, through any
\* sequence of moves, deaths, clones and reused ids.
HoldersAgree ==
    /\ \A h \in Holders : \A o \in list[h] : o \in live /\ loc[o].in = h
    /\ \A o \in live \ strayed : o \in list[loc[o].in]

\* What a slot of the equipment names is worn there and nowhere else.
EquipmentIsWorn ==
    \A p \in Players, s \in Slots :
        equip[p][s] # None => loc[equip[p][s]] = Worn(p, s)

\* No object is inside itself ("object cannot move into descendant",
\* object.go:489): every set of objects has one whose holder is not in the set.
NoCycles ==
    \A S \in SUBSET live : S # {} => \E o \in S : loc[o].in \notin S
=============================================================================
