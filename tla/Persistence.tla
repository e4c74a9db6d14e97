---------------------------- MODULE Persistence ----------------------------
(***************************************************************************)
(* Save traffic of one server process (internal/world/state): the dirty    *)
(* marks, the bounded save queue with its background saver, the periodic   *)
(* flush of marked entities and the full flush of a shutdown.              *)
(*                                                                         *)
(* The content of a player, bank or room is its version: a counter that    *)
(* every mutation raises.  Three goroutines save: the game loop, the       *)
(* background saver and the one that runs the once-only shutdown flush.    *)
(* A save takes its snapshot under the world's read locks and writes the   *)
(* sidecar after it released them, so each save is two steps here.         *)
(***************************************************************************)
EXTENDS Integers, Sequences, FiniteSets

CONSTANTS
    Players, Banks, Rooms,  \* what has a sidecar file
    BankOf,                 \* the personal bank of a player (a partial function)
    Effects,                \* what a command may do: what it changes and the saves it asks for
    TickEffects,            \* what the world updates of a tick may do
    Sessions,               \* connected clients, for the activity check
    QueueCap,               \* capacity of saveQueue (128 in the code)
    FlushPeriod,            \* clock units between periodic flushes (300 s)
    FlushWindow,            \* age at which a flush stops looking at a mark (600 s)
    MaxVersion,             \* bound on each entity's version, for model checking
    MaxTime,                \* bound on the clock, for model checking
    None

Entity == Players \cup Banks \cup Rooms
Savers == {"loop", "saver", "shutdown"}

\* A save: SavePlayer and SaveBank in line, or one QueueSave for both.
Save == [inLine : BOOLEAN, what : SUBSET (Players \cup Banks)]

\* marked: changed through a mutator that marks it dirty; silent: through one
\* that does not (MovePlayer, UpdateCreatureTags, UpdateCreatureMarriageState...).
Effect == [marked : SUBSET Entity, silent : SUBSET Entity, asks : Seq(Save)]

ASSUME PersistenceAssumption ==
    /\ Players \cap Banks = {} /\ Players \cap Rooms = {} /\ Banks \cap Rooms = {}
    /\ DOMAIN BankOf \subseteq Players
    /\ \A p \in DOMAIN BankOf : BankOf[p] \in Banks
    /\ Effects \subseteq Effect /\ TickEffects \subseteq Effect
    /\ QueueCap \in Nat /\ FlushPeriod \in Nat \ {0} /\ FlushWindow \in Nat
    /\ MaxVersion \in [Entity -> Nat] /\ MaxTime \in Nat
    /\ None \notin Entity /\ None \notin Int

VARIABLES
    phase,      \* "up", "flushing" (shutdown flush under way) or "down"
    now,        \* wall clock
    ticked,     \* clock value of the loop's last tick
    lastInput,  \* Loop.lastInputTime: time of a live session's last line, or None
    mem,        \* version of each entity in memory
    owed,       \* history: its version after its last marked change
    occupied,   \* rooms with objects on the floor
    disk,       \* version in each entity's sidecar
    mark,       \* playerDirty, bankDirty, roomObjectDirty: mark time, or None
    queue,      \* saveQueue: each request is the set of entities to save
    asks,       \* saves the running command or update still has to ask for
    plan,       \* per saver: flush stages still to run
    todo,       \* per saver: entities still to save in this stage
    cur,        \* per saver: the entity it holds a snapshot of, or None
    held,       \* per saver: the version in that snapshot
    saved,      \* per saver: entities of this stage saved without error
    clearing,   \* per saver: delete the marks of saved when the stage ends
    failed,     \* per saver: a save of this flush returned an error
    best,       \* history: newest version ever written
    awaited,    \* history: entities not snapshotted since their last QueueSave
    goal        \* history: per saver, the versions when its full flush began

work   == <<plan, todo, cur, held, saved, clearing, failed, goal>>
clock  == <<phase, now, ticked, lastInput>>
memory == <<mem, owed, occupied>>
vars   == <<clock, memory, disk, mark, queue, asks, work, best, awaited>>

Larger(a, b) == IF a > b THEN a ELSE b

\* Saver g is between two stages of its plan.
Quiet(g) == todo[g] = {} /\ cur[g] = None /\ ~clearing[g]

LoopIdle == Quiet("loop") /\ plan["loop"] = <<>> /\ asks = <<>>

Init ==
    /\ phase = "up" /\ now = 0 /\ ticked = 0
    /\ lastInput = [s \in Sessions |-> None]
    /\ mem = [e \in Entity |-> 0] /\ owed = [e \in Entity |-> 0]
    /\ occupied \in SUBSET Rooms
    /\ disk = [e \in Entity |-> 0]
    /\ mark = [e \in Entity |-> None]
    /\ queue = <<>> /\ asks = <<>>
    /\ plan = [g \in Savers |-> <<>>]
    /\ todo = [g \in Savers |-> {}]
    /\ cur = [g \in Savers |-> None]
    /\ held = [g \in Savers |-> 0]
    /\ saved = [g \in Savers |-> {}]
    /\ clearing = [g \in Savers |-> FALSE]
    /\ failed = [g \in Savers |-> FALSE]
    /\ goal = [g \in Savers |-> [e \in Entity |-> 0]]
    /\ best = [e \in Entity |-> 0]
    /\ awaited = {}

-----------------------------------------------------------------------------
(* What changes memory: commands and world updates, on the game loop. *)

\* The dirty maps after a change of S.
NoRoomMarks(S) == [e \in Entity |-> IF e \in S \ Rooms THEN now ELSE mark[e]]
Marks(S) == [e \in Entity |-> IF e \in S THEN now ELSE mark[e]]

\* What c changes goes up by one version, in the loop's goroutine.  A marked
\* room ends up with objects on its floor or without; what is not marked (an
\* object created in a room, the contents of what lies there) leaves some.
Mutate(c) ==
    LET changed == c.marked \cup c.silent IN
    /\ \A e \in changed : mem[e] < MaxVersion[e]
    /\ mem' = [e \in Entity |-> IF e \in changed THEN mem[e] + 1 ELSE mem[e]]
    /\ owed' = [e \in Entity |-> IF e \in c.marked THEN mem[e] + 1 ELSE owed[e]]
    /\ mark' = Marks(c.marked)
    /\ \E full \in SUBSET (c.marked \cap Rooms) :
         occupied' = (occupied \ c.marked) \cup full \cup (c.silent \cap Rooms)

\* handleLine: record the input, run the command; the saves it asks for follow.
Command(s, c) ==
    /\ phase # "down" /\ LoopIdle
    /\ lastInput[s] # None
    /\ lastInput' = [lastInput EXCEPT ![s] = now]
    /\ Mutate(c)
    /\ asks' = c.asks
    /\ UNCHANGED <<phase, now, ticked, disk, queue, work, best, awaited>>

\* The channel send would block.
OneTooMany == Len(queue) > QueueCap
QueueFull == Len(queue) >= QueueCap

\* The in-line save of a request the queue had no room for.
DropWhenFull(S) == UNCHANGED todo
SaveInLine(S) == todo' = [todo EXCEPT !["loop"] = S]

\* The running command or update asks for its next save.
Ask(inLine) ==
    /\ phase # "down" /\ Quiet("loop") /\ asks # <<>> /\ Head(asks).inLine = inLine
    /\ asks' = Tail(asks)
    /\ awaited' = awaited \cup Head(asks).what
    /\ UNCHANGED <<clock, memory, disk, mark, plan, cur, held, saved, clearing,
                   failed, goal, best>>

\* QueueSave: enqueue if there is room, else the loop saves in line.
QueueSave ==
    /\ Ask(FALSE)
    /\ \/ /\ ~QueueFull
          /\ queue' = Append(queue, Head(asks).what)
          /\ UNCHANGED todo
       \/ /\ QueueFull
          /\ SaveInLine(Head(asks).what)
          /\ UNCHANGED queue

\* A save in line: savegame, a death, the auto-save of an update.
SaveNow ==
    /\ Ask(TRUE)
    /\ SaveInLine(Head(asks).what)
    /\ UNCHANGED queue

Connect(s) ==
    /\ phase = "up" /\ lastInput[s] = None
    /\ lastInput' = [lastInput EXCEPT ![s] = now]
    /\ UNCHANGED <<phase, now, ticked, memory, disk, mark, queue, asks, work, best, awaited>>

\* UnregisterSession forgets the session's last input.
Disconnect(s) ==
    /\ phase # "down" /\ LoopIdle /\ lastInput[s] # None
    /\ lastInput' = [lastInput EXCEPT ![s] = None]
    /\ UNCHANGED <<phase, now, ticked, memory, disk, mark, queue, asks, work, best, awaited>>

-----------------------------------------------------------------------------
(* The clock and the flushes. *)

Clock ==
    /\ phase # "down" /\ now < MaxTime
    /\ now' = now + 1
    /\ UNCHANGED <<phase, ticked, lastInput, memory, disk, mark, queue, asks, work, best, awaited>>

RecentActivity ==
    \E s \in Sessions : lastInput[s] # None /\ now - lastInput[s] < FlushWindow

\* TickAt(t): the world updates do c, then the periodic flush starts if this
\* tick falls on a period and a player was active.  A loop that was busy has
\* missed the ticks in between.
LoopTick(c) ==
    /\ phase # "down" /\ LoopIdle /\ ticked < now
    /\ ticked' = now
    /\ Mutate(c)
    /\ asks' = c.asks
    /\ IF now % FlushPeriod = 0 /\ RecentActivity
       THEN /\ plan' = [plan EXCEPT !["loop"] = <<"dirtyPlayersAndBanks", "dirtyRooms">>]
            /\ failed' = [failed EXCEPT !["loop"] = FALSE]
       ELSE UNCHANGED <<plan, failed>>
    /\ UNCHANGED <<phase, now, lastInput, disk, queue, todo, cur, held, saved,
                   clearing, goal, best, awaited>>

\* FlushActivePlayersAndBanks: every player and bank, every room with objects,
\* then the marked rooms (an emptied one has no objects left to be found by).
FloorOnly == <<"active", "floor", "report">>
FullFlush == <<"active", "floor", "allDirtyRooms", "report">>

StartFullFlush(g) ==
    /\ plan' = [plan EXCEPT ![g] = FullFlush]
    /\ failed' = [failed EXCEPT ![g] = FALSE]
    /\ goal' = [goal EXCEPT ![g] = mem]
    /\ UNCHANGED <<now, ticked, lastInput, memory, disk, mark, queue, asks, todo, cur, held,
                   saved, clearing, best, awaited>>

\* The *shutdown command flushes on the loop before it arms the timer.
DMShutdownFlush ==
    /\ phase # "down" /\ LoopIdle
    /\ StartFullFlush("loop")
    /\ UNCHANGED phase

\* A signal: flushAll runs its flush once, while the loop goes on.
SignalFlush ==
    /\ phase = "up"
    /\ phase' = "flushing"
    /\ StartFullFlush("shutdown")

\* The listener is closed after the flush, serve returns, the process ends.
Exit ==
    /\ phase = "flushing"
    /\ Quiet("shutdown") /\ plan["shutdown"] = <<>>
    /\ phase' = "down"
    /\ UNCHANGED <<now, ticked, lastInput, memory, disk, mark, queue, asks, work, best, awaited>>

-----------------------------------------------------------------------------
(* One stage of a flush, and one save. *)

Marked(S, from) == {e \in S : mark[e] # None /\ mark[e] >= from}

\* The periodic flush runs inside the tick: its bound is the tick's time.
PeriodicSince == ticked - FlushWindow

\* The entities a stage saves, and the stages that delete marks afterwards.
Collected(stage) ==
    CASE stage = "active"               -> Players \cup Banks
      [] stage = "floor"                -> occupied
      [] stage = "dirtyPlayersAndBanks" -> Marked(Players \cup Banks, PeriodicSince)
      [] stage = "dirtyRooms"           -> Marked(Rooms, PeriodicSince)
      [] stage = "allDirtyRooms"        -> Marked(Rooms, 0)
DirtyStages == {"dirtyPlayersAndBanks", "dirtyRooms", "allDirtyRooms"}

\* A stage that collects nothing has no marks to delete either.  The saves of
\* the tick's updates come before its flush.
BeginStage(g) ==
    /\ phase # "down" /\ Quiet(g) /\ plan[g] # <<>> /\ Head(plan[g]) # "report"
    /\ g = "loop" => asks = <<>>
    /\ todo' = [todo EXCEPT ![g] = Collected(Head(plan[g]))]
    /\ clearing' = [clearing EXCEPT
                      ![g] = Head(plan[g]) \in DirtyStages /\ Collected(Head(plan[g])) # {}]
    /\ plan' = [plan EXCEPT ![g] = Tail(@)]
    /\ UNCHANGED <<clock, memory, disk, mark, queue, asks, cur, held, saved, failed, goal,
                   best, awaited>>

\* Delete the marks of what was saved without error.
ClearMarks(g) ==
    /\ phase # "down" /\ clearing[g] /\ todo[g] = {} /\ cur[g] = None
    /\ mark' = [e \in Entity |-> IF e \in saved[g] THEN None ELSE mark[e]]
    /\ clearing' = [clearing EXCEPT ![g] = FALSE]
    /\ saved' = [saved EXCEPT ![g] = {}]
    /\ UNCHANGED <<clock, memory, disk, queue, asks, plan, todo, cur, held, failed, goal,
                   best, awaited>>

\* The full flush of g has nothing left but to return its first error, if any.
Returning(g) == Quiet(g) /\ plan[g] # <<>> /\ Head(plan[g]) = "report"

FinishFullFlush(g) ==
    /\ phase # "down" /\ Returning(g)
    /\ plan' = [plan EXCEPT ![g] = Tail(@)]
    /\ goal' = [goal EXCEPT ![g] = [e \in Entity |-> 0]]
    /\ failed' = [failed EXCEPT ![g] = FALSE]
    /\ UNCHANGED <<clock, memory, disk, mark, queue, asks, todo, cur, held, saved, clearing,
                   best, awaited>>

\* backgroundSaver takes the next request.
TakeRequest ==
    /\ phase # "down" /\ Quiet("saver") /\ queue # <<>>
    /\ todo' = [todo EXCEPT !["saver"] = Head(queue)]
    /\ queue' = Tail(queue)
    /\ UNCHANGED <<clock, memory, disk, mark, asks, plan, cur, held, saved, clearing, failed,
                   goal, best, awaited>>

\* Map iteration picks any order, but a player is saved before its bank.
MayStart(g, e) == \A p \in DOMAIN BankOf : BankOf[p] = e => p \notin todo[g]

\* SavePlayer, SaveBank, SaveRoomObjects up to the release of the read locks.
Snapshot(g, e) ==
    /\ phase # "down" /\ cur[g] = None /\ e \in todo[g] /\ MayStart(g, e)
    /\ cur' = [cur EXCEPT ![g] = e]
    /\ held' = [held EXCEPT ![g] = mem[e]]
    /\ awaited' = awaited \ {e}
    /\ UNCHANGED <<clock, memory, disk, mark, queue, asks, plan, todo, saved, clearing,
                   failed, goal, best>>

\* The snapshot replaces the file: WriteJSON's rename is the commit point.
Commit(g) ==
    /\ disk' = [disk EXCEPT ![cur[g]] = held[g]]
    /\ best' = [best EXCEPT ![cur[g]] = Larger(@, held[g])]

EndSave(g) ==
    /\ phase # "down" /\ cur[g] # None
    /\ todo' = [todo EXCEPT ![g] = @ \ {cur[g]}]
    /\ cur' = [cur EXCEPT ![g] = None]
    /\ held' = [held EXCEPT ![g] = 0]
    /\ UNCHANGED <<clock, memory, mark, queue, asks, plan, clearing, goal,
                   awaited>>

Write(g) ==
    /\ EndSave(g)
    /\ Commit(g)
    /\ saved' = IF clearing[g] THEN [saved EXCEPT ![g] = @ \cup {cur[g]}] ELSE saved
    /\ UNCHANGED failed

\* An error before the rename leaves the old file; one after it (the directory
\* sync) reports a failure although the file was replaced.
WriteError(g) ==
    /\ EndSave(g)
    /\ Commit(g) \/ UNCHANGED <<disk, best>>
    /\ failed' = [failed EXCEPT ![g] = TRUE]
    /\ UNCHANGED saved

SaverStep(g) ==
    \/ BeginStage(g)
    \/ ClearMarks(g)
    \/ FinishFullFlush(g)
    \/ \E e \in Entity : Snapshot(g, e)
    \/ Write(g)
    \/ WriteError(g)

Environment ==
    \/ \E s \in Sessions : Connect(s) \/ Disconnect(s)
    \/ \E s \in Sessions, c \in Effects : Command(s, c)
    \/ \E c \in TickEffects : LoopTick(c)
    \/ Clock
    \/ DMShutdownFlush
    \/ SignalFlush

Next ==
    \/ Environment
    \/ QueueSave \/ SaveNow
    \/ TakeRequest
    \/ \E g \in Savers : SaverStep(g)
    \/ Exit

Spec == Init /\ [][Next]_vars

\* A runnable goroutine is scheduled and a disk write ends, one way or the
\* other; nothing makes a client type or a signal arrive.
FairSpec ==
    /\ Spec
    /\ WF_vars(QueueSave \/ SaveNow)
    /\ WF_vars(TakeRequest)
    /\ \A g \in Savers : WF_vars(SaverStep(g))
-----------------------------------------------------------------------------

Stages == {"active", "floor", "report"} \cup DirtyStages

\* Types of the save machinery's state.
TypeOK ==
    /\ phase \in {"up", "flushing", "down"}
    /\ now \in Nat /\ ticked \in Nat
    /\ lastInput \in [Sessions -> Nat \cup {None}]
    /\ mem \in [Entity -> Nat] /\ owed \in [Entity -> Nat] /\ disk \in [Entity -> Nat]
    /\ occupied \in SUBSET Rooms
    /\ mark \in [Entity -> Nat \cup {None}]
    /\ queue \in Seq(SUBSET (Players \cup Banks)) /\ Len(queue) <= QueueCap
    /\ asks \in Seq(Save)
    /\ plan \in [Savers -> Seq(Stages)]
    /\ todo \in [Savers -> SUBSET Entity]
    /\ cur \in [Savers -> Entity \cup {None}]
    /\ held \in [Savers -> Nat]
    /\ saved \in [Savers -> SUBSET Entity]
    /\ clearing \in [Savers -> BOOLEAN]
    /\ failed \in [Savers -> BOOLEAN]
    /\ goal \in [Savers -> [Entity -> Nat]]
    /\ best \in [Entity -> Nat]
    /\ awaited \in SUBSET (Players \cup Banks)

\* The promise of the dirty marks ("only clear entries that were successfully
\* saved", player_save.go): whatever was changed and marked since it was last
\* written is still marked, across failed writes, concurrent savers and both
\* kinds of flush.  A room can lose its mark once the shutdown flush runs beside
\* the loop.
UnsavedIsMarked ==
    \A e \in Entity :
        best[e] < owed[e] => \/ mark[e] # None
                            \/ (e \in Rooms /\ phase # "up")

(* Why UnsavedIsMarked is kept: the facts that make it inductive. *)

\* No snapshot and no file is ahead of memory.
NothingFromTheFuture ==
    /\ \A e \in Entity : best[e] <= mem[e] /\ owed[e] <= mem[e]
    /\ \A g \in Savers : cur[g] # None => cur[g] \in todo[g] /\ held[g] <= mem[cur[g]]

\* While the loop saves nothing else changes memory, so what it holds and what
\* it has saved in this stage is current.
LoopSavesCurrent ==
    /\ cur["loop"] # None => held["loop"] = mem[cur["loop"]]
    /\ \A e \in saved["loop"] : best[e] = mem[e]

\* Only a stage that deletes marks remembers what it saved; the background
\* saver never deletes marks and the shutdown flush only those of rooms.
MarksDeletedBy ==
    /\ \A g \in Savers : ~clearing[g] => saved[g] = {}
    /\ plan["saver"] = <<>> /\ ~clearing["saver"]
    /\ plan["shutdown"] \in Seq({"active", "floor", "allDirtyRooms", "report"})
    /\ phase = "up" => plan["shutdown"] = <<>>
    /\ clearing["shutdown"] => phase # "up" /\ todo["shutdown"] \subseteq Rooms
    /\ saved["shutdown"] \subseteq Rooms

IInv == TypeOK /\ NothingFromTheFuture /\ LoopSavesCurrent /\ MarksDeletedBy /\ UnsavedIsMarked

\* FlushActivePlayersAndBanks returns nil only if everything that was in memory
\* when it began, emptied rooms included, has been written since.  (The loop's
\* own full flush can miss a room whose mark the shutdown flush deleted.)
FullFlushCovers ==
    \A g \in Savers, e \in Entity :
        Returning(g) /\ ~failed[g] =>
            \/ best[e] >= goal[g][e]
            \/ (g = "loop" /\ e \in Rooms /\ phase # "up")

\* Every save that is asked for is followed by a snapshot of each entity it
\* names, taken after the call, whether it was queued or found the queue full.
QueuedIsSaved ==
    \A e \in Players \cup Banks :
        (e \in awaited) ~> (e \notin awaited \/ phase = "down")
=============================================================================
