----------------------------- MODULE WorldTick -----------------------------
(***************************************************************************)
(* The schedule of world updates: World.TickWorld (internal/world/state),  *)
(* called by the game loop about once a second, the timed exits it swaps   *)
(* and the countdown that the DM command *shutdown arms.                   *)
(*                                                                         *)
(* A busy loop misses ticks, so any time may pass between two of them, and *)
(* a tick that was late may be followed by another within the same second. *)
(***************************************************************************)
EXTENDS Integers, Sequences

CONSTANTS
    Interval,        \* seconds between the runs of each periodic update
    ShutdownPeriod,  \* 30: seconds between two looks at the shutdown timer
    Horizon,         \* 500: a shutdown further away than this is not announced
    Delays,          \* seconds a *shutdown may ask for
    Start, MaxTime   \* the clock's first and last value, for model checking

Updates == {"active", "player", "random", "time", "exit"}

ASSUME TickAssumption ==
    /\ Interval \in [Updates -> Nat \ {0}] /\ Interval["active"] = 1
    /\ ShutdownPeriod \in Nat \ {0} /\ Horizon \in Nat
    /\ Delays \subseteq Nat \ {0}
    /\ Start \in Nat /\ MaxTime \in Nat
    /\ \A u \in Updates : Interval[u] <= Start

VARIABLES
    now,          \* wall clock
    last,         \* lastActiveUpdate, lastPlayerUpdate, ...
    tx,           \* timeX[0]: the exit to hide next and the one to show
    hidden,       \* names of the room's exits that carry XNOSEE
    ltime,        \* shutdownLTime: when *shutdown was given, 0 if it was not
    delay,        \* shutdownInterval
    lastShutdown, \* lastShutdownUpdate
    announced,    \* a countdown message was broadcast
    terminated,   \* players flushed and disconnected, Terminate called
    ran           \* history: the times at which each update ran

shutdown == <<ltime, delay, lastShutdown, announced, terminated>>
vars == <<now, last, tx, hidden, shutdown, ran>>

\* The exits of room 2655: the entrance leads to 2652, the exit to 2651.
Exits == {[name |-> "in", dest |-> 2652], [name |-> "out", dest |-> 2651]}

Init ==
    /\ now = Start
    /\ last = [u \in Updates |-> 0]
    /\ tx = [name1 |-> "in", dest1 |-> 2652, name2 |-> "out", dest2 |-> 2651]
    /\ hidden \in SUBSET {"in", "out"}
    /\ ltime = 0 /\ delay = 0 /\ lastShutdown = 0
    /\ announced = FALSE /\ terminated = FALSE
    /\ ran = [u \in Updates |-> <<>>]

Clock ==
    /\ ~terminated /\ now < MaxTime
    /\ now' = now + 1
    /\ UNCHANGED <<last, tx, hidden, shutdown, ran>>

\* *shutdown: the timer can be armed again and again, as long as it can still
\* run out before the clock's bound.
SetShutdown(seconds) ==
    /\ ~terminated
    /\ now + seconds + ShutdownPeriod < MaxTime
    /\ ltime' = now
    /\ delay' = seconds
    /\ UNCHANGED <<now, last, tx, hidden, lastShutdown, announced, terminated, ran>>

-----------------------------------------------------------------------------

Due(u) == IF u = "active" THEN now # last[u] ELSE now - last[u] >= Interval[u]

\* The exits that leave with this name to this room.
Named(name, dest) == {e.name : e \in {x \in Exits : x.name = name /\ x.dest = dest}}

\* The swap of timeX at the end of UpdateTimedExits; half done, or without the
\* destinations.
HalfSwap == [tx EXCEPT !.name1 = tx.name2, !.dest1 = tx.dest2, !.name2 = ""]
SwapNames == [tx EXCEPT !.name1 = tx.name2, !.name2 = tx.name1]
Swap == [name1 |-> tx.name2, dest1 |-> tx.dest2, name2 |-> tx.name1, dest2 |-> tx.dest1]

\* UpdateTimedExits: hide one exit, show the other, swap them.
UpdateTimedExits ==
    /\ hidden' = (hidden \cup Named(tx.name1, tx.dest1)) \ Named(tx.name2, tx.dest2)
    /\ tx' = Swap

\* game.UpdateShutdown, given the LastShutdownUpdate it reads.
UpdateShutdown(lastUpdate) ==
    LET end == ltime + delay
        acts == now - lastUpdate >= ShutdownPeriod /\ end <= now + Horizon
    IN  /\ announced' = (announced \/ (acts /\ end > now))
        /\ terminated' = (acts /\ end <= now)

\* The last step of TickWorld stores the time before it calls the hook.
ShutdownStep ==
    IF ltime # 0 /\ now - lastShutdown >= ShutdownPeriod
    THEN /\ lastShutdown' = now
         /\ UpdateShutdown(now)
    ELSE UNCHANGED <<lastShutdown, announced, terminated>>

\* Each update that runs stores the time first; a loop that makes up for the
\* runs it missed would store when the run was due.
CatchUp == [u \in Updates |-> IF Due(u) THEN last[u] + Interval[u] ELSE last[u]]
Stamped == [u \in Updates |-> IF Due(u) THEN now ELSE last[u]]

Tick ==
    /\ ~terminated
    /\ last' = Stamped
    /\ ran' = [u \in Updates |-> IF Due(u) THEN Append(ran[u], now) ELSE ran[u]]
    /\ IF Due("exit") THEN UpdateTimedExits ELSE UNCHANGED <<tx, hidden>>
    /\ ShutdownStep
    /\ UNCHANGED <<now, ltime, delay>>

Next ==
    \/ Clock
    \/ \E seconds \in Delays : SetShutdown(seconds)
    \/ Tick

Spec == Init /\ [][Next]_vars

-----------------------------------------------------------------------------

\* Types of the schedule.
TypeOK ==
    /\ now \in Nat /\ last \in [Updates -> Nat] /\ ran \in [Updates -> Seq(Nat)]
    /\ tx \in [name1 : {"in", "out"}, dest1 : {2651, 2652}, name2 : {"in", "out"}, dest2 : {2651, 2652}]
    /\ hidden \in SUBSET {"in", "out"}
    /\ ltime \in Nat /\ delay \in Nat /\ lastShutdown \in Nat
    /\ announced \in BOOLEAN /\ terminated \in BOOLEAN

\* A loop that was held up does not make up for it in a burst: in any stretch of
\* time, however irregular its ticks, an update runs at most once per interval.
NoBurst ==
    \A u \in Updates : \A j \in 1..Len(ran[u]) : \A i \in 1..j :
        ran[u][j] - ran[u][i] >= (j - i) * Interval[u]

\* The timed exits alternate: from the first swap on exactly one is hidden, and
\* it is the one that the next swap shows.
ExitsAlternate == ran["exit"] # <<>> => hidden = {tx.name2}
=============================================================================
