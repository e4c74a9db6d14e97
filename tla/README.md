# A TLA+ development of muhan

muhan is a multi-user dungeon server in Go, a port of a C program. This
directory models the parts of it whose correctness depends on the order in
which goroutines, ticks, errors and shutdowns happen, checks them with TLC on
small instances and proves its invariants and one refinement with TLAPS for
every instance.

* `*.tla` without a prefix: a component; `MC*.tla` and `MC*.cfg`: its instances
  for TLC; `*Proofs.tla`: its theorems.
* `PROJECT.json`: components, runs, mutants, the map from definitions to source
  lines, findings, hazards and theorems.

Run TLC with `tlc -config MCPersistence.cfg MCPersistence.tla`, the prover with
`tlapm PersistenceProofs.tla`.

## 1. Inventory

| Component | Source | State | Operations | What must hold |
|---|---|---|---|---|
| Rate limiter | `internal/session/ratelimit.go` | stamps of accepted commands | `allow` | no window holds more than the limits; no needless refusal |
| Session | `internal/session/session.go` | connection, once-guards, two goroutines | `readLoop`, `writeLoop`, `Run`, `emit` | its end is announced exactly once, before it is torn down; a stop ends it |
| Game loop | `internal/engine/game/loop.go`, `sessions.go` | registered sessions, pending handlers, last inputs | `HandleEvent`, `TickAt`, sends, broadcasts, `Register/UnregisterSession` | connected sessions are registered, ended ones are not |
| Accept loop, shutdown | `cmd/muhan-server/main.go` | listener, connection counters, once-only flush | accept, signal, context cancel | counters equal connections; nothing saved is lost |
| Save traffic | `internal/world/state/player_save.go`, `state.go`, `combat.go`, `dm_support.go`, `internal/persist/jsonstore` | dirty marks, save queue, sidecar files | `Save*`, `QueueSave`, `FlushDirty*`, `FlushActive*`, `backgroundSaver` | what changed is marked until written; a flush without error wrote everything; every requested save happens |
| World tick | `internal/world/state/tick.go`, `internal/engine/game/update_*.go` | last run of each update, timed exits, shutdown timer | `TickWorld` and its six hooks | no update in bursts; exits alternate; an ordered shutdown happens |
| Login | `cmd/muhan-server/login.go`, `password.go` | step and fields per session, failures per address | `HandleLine` and its steps | a session plays at most one character, whose password it has given or set |
| Object placement | `internal/world/state/room.go`, `object.go`, `creature.go`, `bank.go` | holder lists, locations, gold | `MoveObject`, containers, gold, money objects | an object is listed by exactly the holder it names; gold is conserved |
| Restore | `player_save.go`, `dm_support.go`, `main.go` | sidecars merged over the loaded world | `Load*`, `Merge*` | a restart after a full flush gives the world back; a floor never shows an object twice |
| Boards, family news | `internal/world/state/board.go`, `engine/command/board.go` | posts and news with their own marks | post, delete, `FlushDirtyBoards...` | as for save traffic |
| Families, marriage, votes | `internal/engine/game/family_*.go`, `internal/world/state/family.go` | membership, war, pending requests | join, leave, declare, accept | both sides of a relation agree |
| Timed effects | `engine/command/magic_effect.go`, skills, `engine/game/update_ply.go` | tags in two records, stats, end times, cooldowns | skills, castings, the status pass, cures, deaths, training | a bonus is there exactly while its tag is; an effect ends |
| Monsters | `engine/game/update_active.go`, `update_pursuit.go`, `world/state/creature.go`, `room.go` | rooms, enemies, damage ledgers, respawn slots | turns of a pass, attacks, pursuit, deaths, respawn, purge | no slot filled twice, no credit against the wrong monster, no endless grudge |
| Combat numbers | `engine/command/attack.go`, `world/state/combat.go` | hit points, dice, armour | attacks, regeneration | numeric rules |
| Commands | `internal/engine/command`, `commandparse`, `commandspec` | dispatch table | some 280 files of handlers | abbreviation rules, per-command effects |
| Formats and tools | `internal/persist/*`, `internal/migrate`, `cmd/muhan-*` | none at run time | encode, decode, convert | not modelled: sequential data conversion |

**How they interact.** Each connection has a reader and a writer goroutine.
Readers and writers put events into one channel of capacity 64; the single game
loop takes them one at a time, runs the command against the world and sends its
output into the session's channel of capacity 16, blocking while it is full.
Once a second the loop ticks the world instead of taking an event. Commands
change the world under its locks, mark what they changed and ask for saves: in
line, or through a queue of 128 requests that one background goroutine serves.
Every 300 seconds the loop flushes what is marked. A signal makes yet another
goroutine flush everything once and close the listener; the `*shutdown` command
arms a timer that a tick looks at.

A pass over the monsters and a pass over the statuses belong to the tick, so
they run on the loop between two commands. A restart loads the base files,
merges the sidecars over them in the order of Go maps, and starts the loop.

**What is hard.** Three goroutines write the same files outside the world's
locks; failures of single writes in the middle of a flush; a bounded queue with
an in-line fallback; two goroutines announcing one end of a session; a loop that
blocks on the slowest client; timers measured against clocks that skip; a
shutdown that runs beside the loop; a fact that is kept in four places and
undone by six handlers; ids that are given to new monsters; a crash between two
files that name one object. `hazards` in `PROJECT.json` lists them line
by line with the property that would notice each.

## 2. Modules

### `RateLimiter`

`now` is the clock, `stamps` the limiter's slice; `accepted` (all stamps ever
accepted) and `dropped` (how many were pruned) are history. `Accept` and
`Refuse` are the two outcomes of `allow`, including the pruning that both do.
A line may arrive at any clock value, several at the same one.

* `History`: `stamps` is the unpruned tail of `accepted`, in order, within the
  limit, and what was pruned has left the window.
* `WindowBound`: of any `Limit + 1` accepted commands the last comes at least a
  window after the first.
* `RefusalJustified`: at a refusal `Limit` accepted commands lie in the window.

Run: `limiter` (burst 3 over a window of 3 in 9 instants: the window slides past
its own length twice; the sustained rate, scaled by integer division, allows 6).
Which of the two limits binds does not change the steps, only the number
`Limit`; the theorems are for every choice of the rates.

### `Persistence`

The core of the development. The content of a player, bank or room is a version
that every change raises by one; `disk` holds the version in its sidecar.

| Model | Code |
|---|---|
| `mark` | `playerDirty`, `bankDirty`, `roomObjectDirty` |
| `queue`, `QueueSave`, `TakeRequest` | `saveQueue`, `World.QueueSave`, `backgroundSaver` |
| `Effects`, `TickEffects` | what commands and updates change with a mark (`marked`), without one (`silent`) and which saves they ask for |
| `SaveNow` | saves in line: `savegame`, deaths, the auto-save of `update_ply.go` |
| savers `loop`, `saver`, `shutdown` | game loop, `backgroundSaver`, the goroutine inside `flushAll` |
| `plan`, `todo`, `cur`, `held` | where a flush is: stages left, entities left in the stage, the snapshot in hand |
| `BeginStage`, `ClearMarks` | the two critical sections of `FlushDirty*` |
| `Snapshot` / `Write`, `WriteError` | a `Save*` up to the release of the read locks / `jsonstore.WriteJSON` |
| `occupied` | `len(room.Objects.ObjectIDs) > 0`: a marked change leaves a floor full or empty, an unmarked one never empties it |
| `Exit` | listener closed after the flush, `serve` returns |

`SavePlayer`, `SaveBank` and `SaveRoomObjects` have one shape (snapshot under
read locks, unlock, atomic write), so one action pair stands for all three; the
map spreads its definitions over the three functions. A write error may come
before or after the rename. Map iteration order is any order. The loop runs one
command at a time: it starts no other before the saves of the last are asked for
and done.

`owed`, `best`, `awaited` and `goal` are history: the version after the last
marked change, the newest version ever written, entities with an unserved save
request, and the versions at the start of a full flush.

* `UnsavedIsMarked`: a marked change that was never written is still marked,
  through failed writes, concurrent savers and every kind of flush. Once the
  shutdown flush runs beside the loop, a room may lose its mark: the shutdown
  goroutine deletes the mark of a room that the loop changed after the snapshot.
* `FullFlushCovers`: `FlushActivePlayersAndBanks` returns no error only if all
  that was in memory when it began has been written, including rooms that were
  emptied and are found by their mark only. The exception is the `*shutdown`
  flush on the loop beside a signal flush that deletes a room's mark first.
* `QueuedIsSaved`: every save asked for is followed by a snapshot taken later.

Runs:

* `saves`: a player and a room that changes twice (objects dropped, searched for,
  picked up, made there without a mark), over two flush periods with the signal flush and the `*shutdown`
  flush beside the periodic one.
* `save_queue`: a player with a bank account who buys, deposits (which asks for
  two saves) and drinks a potion that saves in line, against a queue of one,
  under fairness.

One entity of each kind and one or two changes are enough: marks, files and
snapshots of different entities share nothing but the queue and the plan of a
flush, and every race in the code is between two savers of one entity, of which
there are three. A queue of one is full after one request. Banks are treated
like players in every action and differ only in their place in the order of a
flush (`MayStart`); `save_queue` has one.

Three things the model says and no run asks about. Mutators in the `silent` part
of an effect (`MovePlayer`, `UpdateCreatureMarriageState`,
`UpdateCreatureTags`...) change what is saved and mark nothing; the periodic
flush does not see such a change until something else marks the player. A mark
older than the window of 600 seconds is skipped by the periodic flush, so after
a silence longer than that it waits for the next mark or the full flush. The
stage of the periodic flush that saves boards and family news is not modelled.

### `SessionLoop`

Reader, writer and `Run` of each session, both bounded channels, the accept loop
and the game loop. `pc` is where a goroutine is, `outbox` the blocking sends the
loop still has to do for the event in hand. A line's text is not modelled;
`Responses` says what handling it may send. A connection is `open`, left by the
client (`eof`, `reset`) or `closed` by the server.

* `EndIsAnnounced`: at most one `EventClosed` per session, and unless the server
  is stopping it is in the events channel before `Run` cancels the session.
* `ConnectedIsRegistered`: no order of errors, kicks and closes makes the loop
  forget a session whose connection is intact.
* `EndedIsUnregistered`, `StopEndsSessions`: the liveness counterparts.

Runs: `session` (two sessions with broadcasts over channels of one, a line and a
kick each: every goroutine can find its channel full) and `session_ends`
(liveness; the commands channel holds all traffic of the run, because a full one
is exactly what `session_wedged` shows to block the loop for ever).

The gauge of active sessions is not part of the model: the loop decrements it
both for `EventError` and for the `EventClosed` that follows, so a session that
ends with an error is counted twice.

### `WorldTick`

The schedule of `TickWorld`: `last` are the `last...Update` fields, `ran` is the
history of the times at which each update ran. The clock may advance by any amount between ticks and
two ticks may see the same second. The timed exits and the countdown of
`*shutdown` are modelled, the other updates only by their schedule (what the
status pass and the monsters' pass do is in `Effects` and `Monsters`). Intervals of
20, 150, 3600 and 30 seconds are scaled to 2, 3, 4 and 3; what matters is that
they differ and that several periods fit into the run.

* `NoBurst`: between any two runs of an update lie as many intervals as runs, so a
  loop that was held up does not make up for what it missed.
* `ExitsAlternate`: after the first swap exactly one timed exit is hidden, the
  one that the next swap shows.

### `Placement`

Where every object is. The code keeps the fact in up to three places and each
mutator updates all of them under the world's locks.

| Model | Code |
|---|---|
| `loc` | `ObjectInstance.Location`; `Nowhere` when `w.objects` has no such id |
| `list` | `Room.Objects`, `Creature.Inventory`, `BankAccount.Objects`, `ObjectInstance.Contents` |
| `equip` | `Creature.Equipment` of the players |
| `alive`, `scavenged` | monsters in `w.creatures`; the tag `MHASSC` |
| `Relist`, `Reequip` | `removeObjectFromHolderLocked` with `addObjectToHolderLocked` |
| `Inside` | `containsObjectAncestorLocked` |
| `Tree`, `Doomed` | `deleteObjectTreeLocked` and the trees that are copied |
| `MoveObject`, `Scavenge`, `Steal`, `Store`, `Take` | get, drop, give, steal, put and the monsters' scavenging |
| `Wear`, `Ready`, `WearAll`, `Remove` | the equipment commands |
| `CreateObject`, `EnsureBankRoot`, `CloneObject` | prototypes, money on the floor, bank roots, copies of whole trees |
| `Sell`, `UseUp`, `DestroyObject` | deletion of one object, or of a tree |
| `Spawn`, `MonsterDeath`, `CreatureGone`, `Wander`, `PlayerDeath` | creatures that bring, drop, destroy or leave objects |

The loop runs one command at a time and each mutator holds all locks, so a
mutator is a step; a command that calls several is several steps. An object can
be worn in at most one slot (`WearSlot`); of rings it is the finger that was
free. `UseUp` stands for three mutators (`creature.go:289`, `:325`, `:426`) that
delete one object without looking at its contents. Its guard, that there are
none, is not theirs: their callers use up scrolls, potions, weapons and money, or
trade the things a monster wants, and none of these is a container as long as the
game data lets no monster want one. Of the deletions of a single object only
`Sell` is thus checked for what it leaves behind.
A monster that wanders off (`RemoveCreature`) leaves what it carried in
`w.objects`, located on an id that no longer exists or that a later monster
gets; `strayed` remembers those objects, which no list names, and the properties
leave them out. `PurgeRoom` and `CheckItem`, which only tests call, are left
out, as are gold, charges, the `shotsCurrent` counts of containers and the dirty
marks (an input of `Persistence`).

* `HoldersAgree`: a holder lists an object exactly if the object is located there.
* `EquipmentIsWorn`: what a slot names is worn in that slot.
* `NoCycles`: no object contains itself, however indirectly.
* `TypeOK`: also that no location dangles.

Run: `placement` (two players, a monster, a room, a bank, four objects). Any
object may hold any other, as the mutators allow, so four objects are enough for
rings and trees of all depths up to four, a full swap of weapons, and a tree
that is copied; a deleted id is used again. Initially objects lie in any room,
bank or inventory, and the moves build every containment from there.

### `Login` and `Presence`

From the accepted connection to the played character.

| Model | Code |
|---|---|
| `accepting`, `activeConns`, `ipConns` | the accept loop of `serve` and its two counters |
| `login`, `shown` | `serverLoginManager.sessions`, and the last prompt the client saw |
| `ipFailures`, `cleanupIPFailures` | failed passwords per host, and when they are forgotten |
| `registered`, `actor` | the loop's sessions and `sessionActors` |
| `commands`, `sending` | commands channels; the blocking sends the loop has still to do |
| `handle*`, `password*`, `create*` | the steps and branches of `HandleLine` |
| `disconnectDuplicateSession` | the non-blocking close of other sessions of the character |
| `DustPlayer` | suicide, and quitting as a beginner |

`HandleLine` runs on the game loop, so a step of a session is atomic even though
it releases the manager's lock while it verifies; the sends that follow block
and may find the session gone. `proved` is history: the names whose password a
session has given or set.

* `CountersMatch`: the counters are the connections counted and not yet closed,
  through refusals, denied hosts and every way a session ends.
* `KnowsPassword`: a session plays only a name whose password it has given or
  set, also when several sessions ask for the same new name.
* `PresenceSpec`: the detailed login implements `Presence`, in which a session
  signs in at most once, to a name that exists, and a name is created only while
  nobody has it. The mapping is `playing <- actor`, `accounts <-` the names with
  a character, `spent <-` the sessions that were shown the game.

Run: `login` (three connections from two hosts under a total limit of two; one
host is denied; one name, so that every login and every creation competes for it;
channels of two, so that sends block and a close is dropped).

### `Effects`

The timed effects on one player.

| Model | Code |
|---|---|
| `ptags`, `ctags` | the tags of the player record and of its creature (and the stat `PHIDDN`) |
| `left` | `effectExpirations`, as time that is left |
| `wait` | the skills' cooldowns |
| `bonus` | creature stats relative to those without any effect |
| `Perform`, `goal`, `todo`, `Write` | an operation: its first write, what it comes to, and the writes still to be done |
| `disk`, `Save`, `Restart` | what is saved: tags and stats, not the two times |
| `UseSkill`, `FailSkill` | haste, power, meditate, pray, accurate, reflect, angel, the damage bonus |
| `CastSpell`, `MonsterCast`, `DMCast` | the timed spells of players, potions, monsters and DMs |
| `updateStatusExpirations`, `ending`, `Expire` | the status pass of the tick, and the end of each effect that it found expired |
| `trainClearUpDamage`, `DeathTakesLevel`, `applyClassChangeLevelDown` | the other ends of the damage bonus |

`UpdatePlayerTags`, `UpdateCreatureTags` and `SetCreatureStat` take and release the
world's locks each, so an operation is a sequence of writes in the order of the
code, which differs: a skill writes the stat, the creature's tags, the player's
(`haste.go:78-88`), an expiry the player's, the creature's, the stat
(`update_ply.go:1570-1596`), a monster's casting the player first. The background
saver and the flush of a signal save between any two of them, and the process may
end there. A death alone changes all of it under the locks (`death.go:90-97`). The
end times and cooldowns are set by separate calls too, but nothing except the
loop reads them and no file has them, so they change with the first write.
`tears` counts the saves that fell into an operation and led to what is in memory
or in the file.

* `StatsFollowEffects`: between two operations the bonus of a skill is on the
  creature exactly while its tag is, and so it is in a file, *unless a save fell
  into an operation*. Damage dice and mana are left out, because there the code
  disagrees with itself (section 4).
* `EffectsAreBacked`: at every write, and in every file, torn or not: what carries
  the tag of an effect has its bonus, so its end never takes more than was given,
  and an effect of the player record is one of the creature, where the status pass
  looks for it. It is what the order of the writes is good for. The damage bonus
  is left out: training writes its stats first and the tags last, so that a save
  in between has the tag without the stats.
* `EffectsEnd`: a skill's effect ends while the player stays online, also when a
  restart has lost its end time.

What a save in the middle does leave is in section 4.

Run: `effects` (haste, which gives one stat; the damage bonus, which gives three
and can be lost in five ways; a spell with a term that traps and DMs know;
hiding, which has none; terms of one second, one effect at a time). Effects share
nothing but the pass that ends them; `Learned` chooses others, `MaxActive` more of
them at once, `Ranks` other classes, which change amounts and what the pass checks.
An instance saves in the middle of an operation once in the life of a file
(`MaxTears`) and before the writes of `TornBefore`: before a skill's first tag and
in the middle of an expiry. The proofs have no such bounds.

### `Restore`

`Placement` with files. `disk` holds a snapshot of each player, bank and room,
`marked` is `roomObjectDirty`, `todo` the files that are still to be merged. Play
moves, creates and destroys objects; a player, a bank or a marked room may be
saved at any moment (when it is, is `Persistence`'s concern), the process may end
between any two steps, and the merges come in any order that the startup allows:
each player with its bank, then the rooms.

`FlushActivePlayersAndBanks` is a flush as the code does it: it lists what it
will write, writes one file after the other, each a snapshot under the locks for
itself, lists the rooms that have something on the floor at that time, then the
marked ones, and deletes their marks at the end (`stage`, `due`, `FlushOne`,
`EndFlush`). It runs on the goroutine of a signal (`main.go:467-473`), where
between any two of its steps the loop plays on, the savers save and the process
may end; or on the loop, for the command `*shutdown` (`dm_shutdown.go:59`), or
after the loop has ended (`main.go:130`, `:502`), where nothing is played. An
object that is moved meanwhile is in two files or in none; whatever the files
then are, the first three properties hold of the restart. `calm` remembers that
nothing was played since the flush began.

* `RestoreTypeOK`: also that no snapshot, however old, leaves a location
  dangling, as long as every file was written of a world whose lists agreed
  (`mixed` remembers whether one was not; section 4 has the trace that needs it).
* `FloorsAreTrue`: whatever the ages of the files, what lies on a floor is listed
  by that room and no other. (An object of the base load, `Static[o] # None`, is
  listed in its old room again.)
* `MergedTwice`: merging a room's file a second time changes nothing.
* `RestartRestores`: a restart after a full flush *in which nothing was played*,
  like that of `*shutdown` and some of those of a signal, gives back exactly the
  world at the flush, if it did not change since, whatever was played, saved and
  lost before it, in the middle of earlier flushes too. Exceptions are an earlier
  restart that met two room files with one object (`torn`) and an earlier flush
  of the same process that deleted a mark while the game went on (`lost`), both
  in section 4. It is about objects that are made while the game runs
  (`NothingStatic`): one of the base load comes back to its old room when it was
  destroyed or carried off.

Every bank is a player's (`RestoreAssumption`); family banks are not modelled, nor
are writes that fail (they are in `Persistence`) or two full flushes at once.

Run: `restore` (a player, its bank, two rooms, two objects, one of which can hold
the other; rooms are interchangeable, hence the symmetry). `Alone` and `Beside`
bound it: outside full flushes it writes only the player's file, which the
stages of flushes that are cut off make up for, and beside a flush it plays one
command, between the players and the rooms, where a move leaves an object in two
files or in none. The proofs have no such bounds. While two lists name one
object the world is not played on (the guard `HoldersAgree` of `Play`): what play
makes of a torn world is not modelled.

### `Monsters`

The monsters of one prototype and the room whose permanent slots call them back.

| Model | Code |
|---|---|
| `at`, `Fresh` | `w.creatures`; the lowest clone id that is free |
| `perm` | the tag `MPERMT` |
| `hates`, `credit` | `w.enemies`, `w.monsterDamage` |
| `wait` | `perm_mon.N.ltime` and `.interval` of the room, as time that is left |
| `turn`, `Second`, `Turn` | `ActiveCreatures` and the loop over it in `UpdateActiveMonsters` |
| `duel`, `playerRetaliate` | the blow back that ends a turn |
| `Enter`, `roomPermanentDueGroups` | `MovePlayer`, `MovePlayerToRoom` and the refresh of the room entered |
| `Die`, `RemoveCreature`, `DestroyCreatures` | the three ways a monster ends |
| `Walk` | the move and go commands with `PursuePlayerAfterMove` |

Hit points, dice and cooldowns only decide whether a step happens, and that is
left open; a slot of a loaded room has no name, so a death is matched with the
room's legacy file and always stamps the first slot of the prototype.

* `TurnIsFresh`: the copy that a pass works from is never stale, though turns
  kill, move and call up players and monsters and no turn looks again.
* `RespawnWaits`: permanent monsters and slots that wait for one are never more
  than the slots.
* `CreditIsCurrent`: no ledger is left for a monster that is gone, whose id the
  next one gets.
* `RewardIsBounded`: a player gets at most twice the experience of the monster,
  for any share and size of the group.
* `Forgiven`: a monster among players does not for ever hate only players who are
  offline and elsewhere.

Run: `monsters` (two players, one of whom keeps the room alive while the other is
gone; two slots and two ids, so that ids are reused all the time; slots that wait
two seconds; group sizes on both sides of the limit of the reward).

## 3. Fairness

* `Persistence!FairSpec`: weak fairness of the steps of each saver and of asking
  for the next save: goroutines are scheduled and a disk write ends, with or
  without an error. No fairness for commands, ticks, signals or the clock.
* `SessionLoop!FairSpec`: weak fairness of each goroutine's own steps, of the
  greeting and of the loop. For the writer this includes that a blocked
  `conn.Write` ends, so clients are assumed to keep reading. No fairness for
  `ReadLine`, `ClientLeaves`, `Accept`, `IdleKick` and `Stop`.
* `Effects!Spec`: the loop ends what it began (`Write`, `Expire`), time passes, and
  the status pass comes round. For the last it is strong fairness: the pass has to
  wait for the command in hand, and Go's `select` chooses at random between an
  event and the tick. Nobody has to log in, cast or save.
* `Monsters!Spec`: a second passes, each monster of a pass gets its turn and a
  player's blow back is dealt: they are one loop of the tick. Nobody has to fight,
  walk or log in.

`Login` and `Restore` are checked without fairness. Deadlock is not checked where
the system may stop: all sessions over (`login`, the session runs), the process
ended (the runs of `Persistence`), all bounds used up.

## 4. Disagreements between code and text

| Run | Property | What TLC shows |
|---|---|---|
| `session_wedged` | `EndedIsUnregistered` | the loop waits for a channel that nobody reads any more |

It quotes the sentence it contradicts in `PROJECT.json`, `findings`. Other
disagreements that the models contain, or were written around, and no run asks
about:

* Shutdown: `TickWorld` stores `lastShutdownUpdate` (`tick.go:92`) before it calls
  a hook that first compares with it, so the hook returns every time and
  `*shutdown` never happens (`WorldTick!UpdateShutdown` keeps that order).
* Saves: two savers may hold snapshots of one player and the older is written
  last; a save queued during the signal flush is lost at exit.
* Login: a second close for a duplicate login is dropped when the channel is full,
  and two sessions play one character; the first line of a session without an
  entry is taken for the zero step (`login.go:158`, `:1093`).
* Restore: `player_save.go:296-298` writes marked rooms so that there are "no stale
  objects on restart merge". There are, in two ways. First (`torn`): an object is
  dropped in room 1, room 1 is saved, it is carried to room 2, room 2 is saved and
  the process ends. The restart merges both files and the object ends up in the
  room merged last, say 2; room 1 is empty and, as the merge marks nothing, not
  marked, so no later flush writes it and its file keeps the object, which after
  the next restart lies in room 1 if that is merged last. Second (`lost`): the
  last object is taken from a room after a flush beside the loop has written the
  room and before it deletes the mark (`player_save.go:600`). The room is empty
  and unmarked, and a further full flush of the same process, such as the one of
  `*shutdown`, does not write it either. An object of the base load that was
  carried off is listed in its old room again (`Restore!Static`).
* Restore: the flush of a signal is not a snapshot of the world
  (`player_save.go:280` calls it the "reliable path for complete world state"): an
  object that a player drops between the write of the player and that of the room
  is in both files, one that is picked up in neither.
* Restore: a save of a world in which two lists name one object can lose a
  holder. Player 1 put `c` into a bag `k` that lies in player 2's chest `m` and
  took it out again into a bag `a`; the process ends when the file of player 1
  has `a` holding `c`, that of player 2 `m` holding `k` holding `c`, and the file
  of a room, older than both, an empty `m`. If player 2 is merged last, `c` says
  that it is in `k`, `a` lists it, and the room takes `m` back without `k`, which
  no list names any more. The next save of the two players writes `c` and not
  `k` (a save follows lists), and after the next restart `c` is located in an
  object that does not exist. The smallest such instance (two players, a room,
  four objects) is larger than the run's; it was found when the unconditional
  form of `RestoreTypeOK` could not be proved, and TLC confirms it when it is
  led along that path. `mixed` excludes worlds in which such a file was written.
* Equipment: `wear all` puts two helmets on one head, and the first can then
  neither be worn, dropped nor removed.
* Effects: a save that falls between two writes of an operation, and a restart
  from it, can leave a bonus for good. The file has the 15 dexterity of haste
  without its tag: nothing takes them back, and the next haste adds 15 more (the
  stat is written before the tag, `haste.go:78-88`; an expiry in the middle leaves
  the same). A class change that loses levels leaves the stats of the damage
  bonus without the tags. Training is the other way round: the file has the tag
  and lowered stats, and the end of the effect lowers them again.
* Effects: the end of the damage bonus lowers `pdice`, the bonus raised `pDice`
  (`update_ply.go:1614`, the test `update_ply_test.go:459` sets the lower-case
  key itself); losing a level takes 50 mana where 20 were given; the tags `pray`
  and `accurate` are no aliases of what the pass clears, so the skill cannot be
  used again; a monster's silence, fear and blindness tag only the player
  record, which the pass does not look at.
* Monsters: with two slots the second death stamps the slot that is still running
  again, while `permanent_death_test.go:273` wants a running slot unchanged; a
  purge leaves enemies and cooldowns to the next monster with the id; a player
  who was killed or has fled still strikes back from where it is; players who log
  out stay in their room's list, so they keep the room active and are attacked.

## 5. Proofs

Every invariant that a run checks is a theorem, for every value of the
constants, with the exceptions named at the end. The constants' assumptions
are the named `ASSUME`s of the component modules; they say no more than that
kinds are disjoint, that "none" is no value, and that numbers are numbers where
the code has them. Two of them deserve a word: `MonstersAssumption` and
`RestoreAssumption` have finitely many players and objects, because a ledger and
a room's file are counted or gone through.

`RateLimiterProofs`: `LimiterWindowBound`, `LimiterRefusalJustified`,
`LimiterRemembers`, `LimiterTypes`. The invariant is `History` with the two
properties: a command accepted now has fewer than `Limit` stamps before it, so
the one `Limit` places earlier was pruned, and pruned stamps have left the
window.

`PersistenceProofs`: `Typing`, `DirtyMarksKept`, `FullFlushIsComplete`.
`UnsavedIsMarked` is not inductive by itself. A mark is deleted for what a stage
saved, so one needs that what the loop has saved in this stage is still current
(`LoopSavesCurrent`: nothing changes memory while the loop saves), that no
snapshot or file is ahead of memory (`NothingFromTheFuture`), and that the
background saver never deletes marks and the shutdown flush only those of rooms
(`MarksDeletedBy`). For the full flush, `Covering` says of each entity what it
had at the start of the flush and where that is now: written, in the list of the
stage, or still to be found by a later stage (`WillBeFound`: players and banks in
the first, rooms by their floor in the second or by their mark in the third).
A change beside the flush cannot take the last of these away, because a room
that was emptied is marked and one without a mark has something on its floor
(`UnmarkedIsOnFloor`); nor can another saver, which deletes a mark only of what
it has written in its newest version. `HeldReachesGoal` says that the snapshot
in hand is no older than the flush.

`SessionLoopProofs`: `SessionTypes`, `EndsAreAnnounced`, `ConnectedStayRegistered`.
`AnnouncedOnce` ties the number of `EventClosed` to what `closedEvent.Do` has
done; `EndsAfterAnnouncing` says that a goroutine that is done, and `Run` from
the first of them on, has been through it. `Farewells` says that what makes the
loop forget a session (an error or an end, in the hands of a goroutine or in the
events channel) comes only from one whose connection was left or closed, and
`NotYet` that nothing runs for a session before it is accepted.

`WorldTickProofs`: `TickTypes`, `UpdatesDoNotBurst`, `TimedExitsAlternate`, for
any intervals (`TickAssumption`: a process starts later than one interval after
the epoch). `StoredTime`: the stored time of an update is that of its last run,
and its runs are `Spaced`, so a run that is due keeps the distance from all
before it (`AppendSpaced`). `ShutdownNeverHappens` proves the defect of section 4 for every delay.

`EffectsProofs`: `EffectTypes`, `BonusesFollowTags`, `EffectsStayBacked`. The
invariant speaks of an operation at each of its writes: a part that is not in
`todo` any more has the value that `goal` gives it (`Written`), and of any two
parts of which one backs the other the one written first is no less than what the
other will ask for (`Ordered`), which is where the orders of `SkillOrder` and
`ExpiryOrder` come in. A save copies what is written so far, and that is backed
for this reason and not because the operation is done. Without a tear `goal` is
`Whole`: player and creature agree about the tags that give stats, and these are
what the tags account for; training and death, which take the stats if either has
the tag, need both. Bonuses are added up by what they account for (`Accounts`),
so effects that overlap need no case of their own.

`PlacementProofs`, first part: `Typing`, `ListsAndLocationsAgree`,
`SlotsNameWornObjects`, `NothingHoldsItself`, for any sets of rooms, creatures,
banks, objects and slots. The invariant is the four properties together with
`StraysAreLost`: what wandered off is in no list, so no mutator can meet it
again. Four arguments carry the proof. `Inside` is the smallest set closed under
holders, so an object moved into something it does not contain leaves every set
of objects with one held from outside. `Tree` is the smallest set closed under
contents, so deleting a tree leaves no location dangling. A copy has the shape
of its original: a set of copies that hold one another would give a set of
originals that do. A slot keeps naming a worn object because every step that
relocates one also clears its slots.

`PlacementProofs`, second part, about `Restore`: `RestoredTypes`,
`NothingOnTwoFloors`, `FloorsStayTrue`, `MergesTwiceAreOne`, from the invariant
`RInv`. Its lemmas speak of
a world `w` that need not be the current one, so that they hold between two
merges and between two objects of one merge. A file holds all that is inside
what it names (`PlainFile`), and if it was written while the lists agreed it
locates nothing outside itself and lists exactly what it locates (`Sound`), so
a merge carries into the world no location that it does not also bring the
holder of. The merge of a room's file is a recursive function on the objects in
the order of their ids; `RehomedExists` shows that there is such a function,
`Unfolds` is all that the rest uses of it, and `SubsetInduction` goes along the
order. `MergesTwiceAreOne`: after the first merge every object of the file is
located where its record says, listed there, and lists what its record lists
(`InPlace`), and putting such an object in its place changes nothing
(`RehomeAgain`).
`NothingOnTwoFloors` (the first half of `FloorsAreTrue`) holds whatever the files
are. The other three results have the condition `~mixed`. For `RestoreTypeOK`
it is needed (section 4) and part of the property. For `MergedTwice` and the second
half of `FloorsAreTrue` it is not known to be: TLC checks these without it.

`PlacementProofs`, third part: `RestartsRestore`, from `FInv`. A file is `Faithful`
to a world `W` if what it says of an object is what `W` says, and it has every
object that `W` locates in its owner. `FlushSoFar`: as long as nothing is played,
every file that the flush has written so far (`Flushed`) is faithful to the world
as it is, also when a saver writes one of them again, and the rooms whose marks it
will delete are all that were marked. So at the end all files are, those that the
flush did not write included: they are of empty rooms without a mark and have
nothing in them, because whatever takes the last object off a floor marks the
room (`FilesOfEmptyRooms`; a bag takes its contents with it, and of a tree that
is destroyed only the root can lie on a floor). A flush beside the game breaks
this by its deletion of marks, hence the condition `~lost`; one that is cut off
by a crash does not, for it has deleted none.
Nothing is inside itself (`Acyclic`, also in each file, for a merge of old files
might otherwise close a circle), so going up from an object one comes to one
owner: no object is in two faithful files (`FilesDisjoint`) and each is in one
(`FilesCover`). Hence the order of the merges does not matter: when those of the
owners `R` have been merged, the world is `Built(W, R, disk)`, which is `W` where
those files have a say and empty elsewhere. A player's file extends it by copying
(`OverwriteBuilds`), a room's object by object (`RehomeBuilds`: no object of it
is anywhere yet, so none has to leave a holder), and the files of all owners
build `W` (`BuiltWhole`). After further crashes a room's file may be older than
the world; `FilesOfEmptyRooms` survives this because a merged room has on its
floor what its file says, as long as no two room files name one object (`torn`).
Here too `~mixed` is a condition of the theorem and not of the run's property.

`LoginProofs`: `LoginTypes`, `CountersAreTrue`, `PlayersKnowPassword`,
`LoginImplementsPresence`. `Connections` says which connections each counter
counts, the one that the accept loop is dealing with included, counted in the
first, the second or none; `Life` says that a session is bound only while it is
registered and never registered again. The refinement is a step simulation: every
step of `Login` is one of `Presence` (a sign-in, the creation of a name, the end
of a session, the end of a character) or leaves the mapped variables alone.

`MonstersProofs`: `MonsterTypes`, `CopiesStayFresh`, `SlotsAreNotFilledTwice`,
`LedgersAreCurrent`, `RewardsAreBounded`. `RespawnWaits` counts permanent
monsters and waiting slots; a due slot fills what is missing, and a death turns
a monster into a waiting slot, also when it stamps one that waits already.
`PermAtHome` is needed because only the monsters in the room are counted when
it is entered, `HasActed` because the monster that a player's blow back kills
must not be in the rest of the pass. `RewardIsBounded` is a fact about
integer division.

Only model-checked:

* `RestartRestores`, `MergedTwice` and the second half of `FloorsAreTrue` where a
  file was once written of a world whose lists disagreed (`mixed`).
* The liveness properties `QueuedIsSaved`, `EndedIsUnregistered`,
  `StopEndsSessions`, `EffectsEnd` and `Forgiven`: liveness under fairness is
  outside this prover's reach, as are `ENABLED` and induction over data.

## 6. Not modelled, and the plan

Parts of modelled components that are left out:

* `Effects`: the effects that are not timed skills or spells of the list above
  (shadow, absorption, choice), poison and disease, befuddling, healing, the
  expiry of enchantments, the recalculation of armour and THACO.
* `Restore`: family banks, equipment, gold, room properties, boards, the migration
  of older schemas.
* `Monsters`: hit points and dice, fights between players, charms, groups of
  followers, the monster that a death leaves behind (`MSUMMO`), prototypes that
  share a room's slots, what is carried (it is in `Placement`).
* `Placement`: gold, charges and the counts of containers, the marks.
* `SessionLoop`: pending line handlers (shops, boards, mail).

Next, in this order:

1. Proofs. `RestartRestores`, `MergedTwice` and the second half of `FloorsAreTrue`
   without the condition `~mixed`. It seems that lists which disagree after a
   restart never agree again, because only a full flush writes a room's file
   then; that would have to be in the invariant.
2. Gold: purses, money on the floor, banks, and that no command creates or loses
   any.
3. Families: membership requests, family war and the family bank as two-sided
   relations. Reading shows two gaps: the subsidy of a joining member does not
   mark the bank, and a suicide leaves the member's file and its join request.
4. Boards and family news as further entities of `Persistence`.
5. The telnet line assembler as a function with a reference definition.

Left out for good: encoders, decoders and migration tools (sequential data
conversion), the numeric rules of combat, the wording of messages, the HTTP
servers for metrics and web sockets. They, and the some 280 handlers that only
read the world and write text, are most of the source lines that the map does
not cover.
