------------------------------- MODULE Restore -------------------------------
(***************************************************************************)
(* What a restart gives back (internal/world/state/player_save.go,         *)
(* dm_support.go and the startup of cmd/muhan-server/main.go), composed    *)
(* with Placement, whose mutators move the objects in between.             *)
(*                                                                         *)
(* Each player, bank and room has a JSON file of its own, a snapshot of    *)
(* what it held when it was last written.  The files are written one at a  *)
(* time, so a crash leaves snapshots of different ages that may name the   *)
(* same object in two places or in none; at the next start they are merged *)
(* over the base load one after the other, in the order of Go's maps.      *)
(*                                                                         *)
(* When each file is written is Persistence's concern: here a player, a    *)
(* bank or a marked room may be saved at any time, and beside the game the *)
(* full flush of a shutdown takes them all, one after the other, each      *)
(* under the locks for itself.  The base load reads the files of players   *)
(* and banks as well, but the merges write all of it again.                *)
(***************************************************************************)
EXTENDS Placement

CONSTANTS
    BankOf,     \* the bank of a player, or None
    Static,     \* the room in which the base load has an object, or None
    Alone,      \* bound: the files an instance writes outside full flushes
    Beside      \* bound: in which stages of a flush, calm so far or not, it plays

Owners == Players \cup Banks \cup Rooms
Stages == {"none", "owners", "floors", "marked"}

ASSUME RestoreAssumption ==
    /\ Monsters = {} /\ Objects \subseteq Nat /\ IsFiniteSet(Objects)
    /\ BankOf \in [Players -> Banks \cup {None}]
    /\ \A b \in Banks : \E p \in Players : BankOf[p] = b
    /\ Static \in [Objects -> Rooms \cup {None}]
    /\ Alone \subseteq Owners /\ Beside \subseteq Stages \X BOOLEAN

VARIABLES
    disk,       \* the file of each player, bank and room
    marked,     \* w.roomObjectDirty
    todo,       \* the files that are still to be merged; {} while the game runs
    stage,      \* what the full flush is at, "none" if there is no flush
    due,        \* the files it has listed and not yet written
    dirtyRooms, \* the rooms that lose their mark at its end
    calm,       \* history: the flush found the lists in agreement and every
                \* change marked, and nothing was played since
    lost,       \* history: a flush took marks away while the game went on
    synced,     \* history: the world at the last full flush, until it changes
    torn,       \* history: a restart met two room files that name one object
    mixed       \* history: a file was written while the lists did not agree

flushVars == <<stage, due, dirtyRooms, calm, lost>>
restoreVars == <<vars, disk, marked, todo, flushVars, synced, torn, mixed>>

World == [loc |-> loc, list |-> list]
Unsynced == [loc |-> << >>, list |-> << >>]
running == todo = {}

\* An account with nothing in it and no file are the same to a merge.
NoFile == [ids |-> {}, records |-> << >>]

Base ==
    LET l == [o \in Objects |-> At(Static[o])] IN
    [loc |-> l, list |-> [h \in Holders |-> {o \in Objects : l[o].in = h}]]

RestoreInit ==
    /\ loc = Base.loc /\ list = Base.list
    /\ equip = [p \in Players |-> [s \in Slots |-> None]]
    /\ alive = {} /\ scavenged = {} /\ strayed = {}
    /\ disk = [x \in Owners |-> NoFile]
    /\ marked = {} /\ todo = {} /\ synced = Unsynced
    /\ stage = "none" /\ due = {} /\ dirtyRooms = {} /\ calm = FALSE
    /\ lost = FALSE /\ torn = FALSE /\ mixed = FALSE

-----------------------------------------------------------------------------
(* Playing. *)

\* The room at the end of the chain of containers around o.
OuterRoom(o) == {loc[k].in : k \in {k \in Objects : Inside(o, k)}} \cap Rooms

\* A command moves objects and marks the rooms M, in the state before.  A
\* world in which two lists name one object is not played on.
Play(M) ==
    /\ running /\ HoldersAgree
    /\ <<stage, calm>> \in Beside   \* bound
    /\ marked' = marked \cup (M \cap Rooms)
    /\ synced' = Unsynced /\ calm' = FALSE
    /\ UNCHANGED <<disk, todo, stage, due, dirtyRooms, lost, torn, mixed>>

\* Containers mark the room they lie in; contents that move by themselves do not.
Handle ==
    \E o, k \in Objects, p \in Players, h \in Holders :
        \/ MoveObject(o, h) /\ Play({loc[o].in, h})
        \/ Store(p, o, k) /\ Play({loc[k].in})
        \/ Take(o, k, p) /\ Play({loc[k].in})

\* Creating marks the room or not, depending on the caller.
Appear ==
    \E o \in Objects, h \in Holders :
        \/ CreateObject(o, h) /\ \E M \in {{}, {h}} : Play(M)
        \/ EnsureBankRoot(o, h) /\ Play({})

\* deleteObjectTreeLocked, markObjectLocationDirtyLocked.
Destroy ==
    \E o \in Objects : DestroyObject(o) /\ Play(OuterRoom(o))

-----------------------------------------------------------------------------
(* Saving. *)

\* A mutant.
TopLevel(S) == S
\* The objects S and everything in them.
Closure(S) == Doomed(S)

Snapshot(x) ==
    LET roots == IF x \in Rooms THEN {o \in Objects : loc[o].in = x} ELSE list[x]
    IN [ids |-> IF x \in Rooms THEN {} ELSE list[x],
        records |-> [o \in Closure(roots) \cap live |-> [loc |-> loc[o], list |-> list[o]]]]

Written(x) ==
    /\ running
    /\ disk' = [disk EXCEPT ![x] = Snapshot(x)]
    /\ mixed' = (mixed \/ ~HoldersAgree)
    /\ UNCHANGED <<vars, todo, stage, dirtyRooms, calm, lost, synced, torn>>

\* SavePlayer, SaveBank, or a room of the loop's FlushDirtyRoomObjects, which
\* then loses its mark.
Save(x) ==
    /\ x \in Alone   \* bound
    /\ x \in Rooms => x \in marked
    /\ Written(x)
    /\ marked' = marked \ {x}
    /\ UNCHANGED due

\* The full flush, on the goroutine that got the signal, beside the loop, or on
\* the loop for *shutdown: first all players, each with its bank.
FlushActivePlayersAndBanks ==
    /\ running /\ stage = "none"
    /\ stage' = "owners" /\ due' = Players \cup Banks
    /\ calm' = (HoldersAgree /\ ~lost)
    /\ UNCHANGED <<vars, disk, marked, todo, dirtyRooms, lost, synced, torn, mixed>>

\* A bank right after its player, all else in the order of Go's maps.
Turn(x) ==
    /\ x \in Players => \A b \in due \cap Banks : \E p \in due \cap Players : BankOf[p] = b
    /\ x \in Banks => \A p \in due \cap Players : BankOf[p] # x

FlushOne(x) ==
    /\ x \in due /\ Turn(x)
    /\ Written(x)
    /\ due' = due \ {x}
    /\ UNCHANGED marked

roomIDsWithFloor == {r \in Rooms : list[r] # {}}

\* Then the rooms that have something on the floor now.
FlushFloors ==
    /\ running /\ stage = "owners" /\ due = {}
    /\ stage' = "floors" /\ due' = roomIDsWithFloor
    /\ UNCHANGED <<vars, disk, marked, todo, dirtyRooms, calm, lost, synced, torn, mixed>>

\* A mutant.
NotEmptied ==
    /\ running /\ stage = "floors" /\ due = {}
    /\ stage' = "marked" /\ due' = marked \cap roomIDsWithFloor /\ dirtyRooms' = marked
    /\ UNCHANGED <<vars, disk, marked, todo, calm, lost, synced, torn, mixed>>
\* And the marked ones, for those that were emptied.
FlushDirtyRoomObjects ==
    /\ running /\ stage = "floors" /\ due = {}
    /\ stage' = "marked" /\ due' = marked /\ dirtyRooms' = marked
    /\ UNCHANGED <<vars, disk, marked, todo, calm, lost, synced, torn, mixed>>

\* Which lose their marks when all of them are written, those that were changed
\* in the meantime too.
EndFlush ==
    /\ running /\ stage = "marked" /\ due = {}
    /\ stage' = "none" /\ dirtyRooms' = {}
    /\ marked' = marked \ dirtyRooms
    /\ lost' = (lost \/ ~calm)
    /\ synced' = IF calm THEN World ELSE Unsynced
    /\ calm' = FALSE
    /\ UNCHANGED <<vars, disk, todo, due, torn, mixed>>

-----------------------------------------------------------------------------
(* Restarting. *)

Conflict(r, s) == DOMAIN disk[r].records \cap DOMAIN disk[s].records # {}

\* The process ends between any two steps, those of a flush too; load.Load and
\* state.New.
Restart ==
    /\ running
    /\ torn' = (torn \/ \E r, s \in Rooms : r # s /\ Conflict(r, s))
    /\ loc' = Base.loc /\ list' = Base.list
    /\ marked' = {}
    /\ todo' = Players \cup Rooms
    /\ stage' = "none" /\ due' = {} /\ dirtyRooms' = {}
    /\ calm' = FALSE /\ lost' = FALSE
    /\ UNCHANGED <<equip, alive, scavenged, strayed, disk, synced, mixed>>

\* MergePlayerSaveIntoWorld and MergeBankSave: the file takes the place of what
\* was there, and no other holder is told.
Overwrite(w, x) ==
    [loc |-> [o \in Objects |->
                IF o \in DOMAIN disk[x].records THEN disk[x].records[o].loc ELSE w.loc[o]],
     list |-> [h \in Holders |->
                IF h = x THEN disk[x].ids
                ELSE IF h \in DOMAIN disk[x].records THEN disk[x].records[h].list
                ELSE w.list[h]]]

\* A player, then the bank of that player if there is a file of it.
MergePlayer(p) ==
    /\ p \in todo
    /\ LET player == Overwrite(World, p)
           w == IF BankOf[p] = None THEN player ELSE Overwrite(player, BankOf[p])
       IN loc' = w.loc /\ list' = w.list
    /\ todo' = todo \ {p}
    /\ UNCHANGED <<equip, alive, scavenged, strayed, disk, marked, flushVars, synced, torn, mixed>>

\* A mutant.
Stay(w, o, l) == w.list
\* removeObjectFromHolderLocked, if the object is somewhere else.
Leave(w, o, l) ==
    IF w.loc[o] \in {l, Nowhere} THEN w.list ELSE [w.list EXCEPT ![w.loc[o].in] = @ \ {o}]

\* A mutant.
RehomeNextTime(w, o, rec) ==
    [loc |-> [w.loc EXCEPT ![o] = rec.loc],
     list |-> [Leave(w, o, rec.loc) EXCEPT
                  ![o] = rec.list,
                  ![rec.loc.in] = IF w.loc[o] \in {rec.loc, Nowhere} THEN @ \cup {o} ELSE @]]

\* One object of MergeRoomObjectsSaveIntoWorld: it leaves where it is, its
\* record takes its place with its own list of contents, and its holder and
\* that of each of its contents list them.
Rehome(w, o, rec) ==
    LET left == Leave(w, o, rec.loc)
        l == [w.loc EXCEPT ![o] = rec.loc]
        wired == {o} \cup {c \in rec.list : l[c] # Nowhere}
    IN [loc |-> l,
        list |-> [h \in Holders |->
                    (IF h = o THEN rec.list ELSE left[h]) \cup {c \in wired : l[c].in = h}]]

\* The objects of a room's file in the order of their ids, which is the order
\* they were saved in.
Last(S) == CHOOSE o \in S : \A c \in S : c <= o
Rehomed(w, records) ==
    LET upTo[S \in SUBSET DOMAIN records] ==
            IF S = {} THEN w
            ELSE Rehome(upTo[S \ {Last(S)}], Last(S), records[Last(S)])
    IN upTo[DOMAIN records]

\* The rooms come after all players and banks.
MergeRoom(r) ==
    /\ r \in todo /\ todo \cap Players = {}
    /\ LET w == Rehomed(World, disk[r].records) IN loc' = w.loc /\ list' = w.list
    /\ todo' = todo \ {r}
    /\ UNCHANGED <<equip, alive, scavenged, strayed, disk, marked, flushVars, synced, torn, mixed>>

-----------------------------------------------------------------------------

RestoreNext ==
    \/ Handle \/ Appear \/ Destroy
    \/ FlushActivePlayersAndBanks \/ FlushFloors \/ FlushDirtyRoomObjects \/ EndFlush
    \/ \E x \in Owners : Save(x) \/ FlushOne(x)
    \/ Restart
    \/ \E p \in Players : MergePlayer(p)
    \/ \E r \in Rooms : MergeRoom(r)

RestoreSpec == RestoreInit /\ [][RestoreNext]_restoreVars
-----------------------------------------------------------------------------

IsFile(f) ==
    /\ f.ids \subseteq Objects /\ DOMAIN f.records \subseteq Objects
    /\ f.records \in [DOMAIN f.records -> [loc : Locations, list : SUBSET Objects]]

\* Types, and that snapshots of any ages leave no location dangling: whatever
\* the files say, an object is located in something that exists and a list
\* names objects that exist, because each file holds all that is inside what it
\* names (player_save.go:60-85).  The file of a world in which two lists name one
\* object can say of the one in this list that it is inside something that is
\* in no file.
RestoreTypeOK ==
    /\ loc \in [Objects -> Locations \cup {Nowhere}]
    /\ list \in [Holders -> SUBSET Objects]
    /\ DOMAIN disk = Owners /\ \A x \in Owners : IsFile(disk[x])
    /\ marked \subseteq Rooms /\ todo \subseteq Players \cup Rooms
    /\ stage \in Stages /\ (stage # "none" => running)
    /\ due \subseteq Owners /\ dirtyRooms \subseteq Rooms
    /\ running /\ ~mixed => \A o \in live : Exists(loc[o].in)
    /\ \A h \in Holders : list[h] \subseteq live

\* MergeRoomObjectsSaveIntoWorld re-homes what is elsewhere (player_save.go:534):
\* whatever the ages of the files and the order of the merges, what lies on a
\* floor is listed by that room and by no other, so nothing is on two floors and
\* nothing on a floor is out of reach.  (An object of the base load is listed in
\* its old room again, wherever it was carried.)
FloorsAreTrue ==
    \A r \in Rooms :
        /\ \A o \in list[r] : Static[o] = None => loc[o] = At(r)
        /\ running => \A o \in live : loc[o].in = r => o \in list[r]

\* The merge of a room's file is "Safe to call multiple times"
\* (player_save.go:503): whatever the files are and whatever was merged before
\* it, a second merge changes nothing.
MergedTwice ==
    \A r \in todo \cap Rooms :
        LET merged == Rehomed(World, disk[r].records) IN
        todo \cap Players = {} => Rehomed(merged, disk[r].records) = merged

\* Every object is made while the game runs.
NothingStatic == \A o \in Objects : Static[o] = None

\* A full flush saves "complete world state" (player_save.go:280): after one that
\* went through while nothing was played, that of *shutdown for one, and with no
\* change since, a restart gives back exactly what was there, wherever each
\* object was and whatever was saved, lost and restored before, between two files
\* of an earlier flush as well.  It does not if an earlier restart met two room
\* files that name one object, or an earlier flush of the same run took a mark
\* away while the game went on: the file of a room that is empty and not marked
\* then keeps what it had.  (An object of the base load comes back to its old
\* room when it was destroyed or carried off.)
RestartRestores ==
    running /\ synced # Unsynced /\ ~torn /\ NothingStatic => World = synced
=============================================================================
