---------------------------- MODULE SessionLoop ----------------------------
(***************************************************************************)
(* Client sessions and the game loop: internal/session/session.go, the     *)
(* event handling of internal/engine/game/loop.go and the accept loop of   *)
(* cmd/muhan-server/main.go.                                               *)
(*                                                                         *)
(* Each session is a reader, a writer and the Run that waits for them.     *)
(* All readers and writers put events into one bounded channel; the loop   *)
(* handles one event at a time and puts commands into a bounded channel    *)
(* per session, blocking while it is full.  A line's text is not modelled, *)
(* only what handling it may send.                                         *)
(***************************************************************************)
EXTENDS Integers, Sequences, FiniteSets

CONSTANTS
    Sessions,    \* session ids, numbered as the accept loop does
    EventCap,    \* capacity of the events channel (64)
    CommandCap,  \* capacity of a session's commands channel (16)
    MaxLines,    \* lines all clients send, for model checking
    MaxKicks     \* idle kicks, for model checking

ASSUME SessionAssumption ==
    /\ Sessions \subseteq Nat \ {0}
    /\ EventCap \in Nat \ {0} /\ CommandCap \in Nat \ {0}
    /\ MaxLines \in Nat /\ MaxKicks \in Nat

Kinds == {"line", "error", "closed"}
Roles == {"reader", "writer"}

VARIABLES
    conn,        \* "none", "open", "eof" or "reset" (the client's doing), "closed" (ours)
    pc,          \* pc[r][s]: where the reader and the writer of s are
    taken,       \* the command the writer of s is writing, or "none"
    closedOnce,  \* closedEvent.Do of s is over
    cancelled,   \* the context of s is cancelled
    run,         \* Session.Run: "off", "select", "waiting" for both, "done"
    lines,       \* lines read so far
    kicks,       \* idle kicks so far
    events,      \* the events channel
    commands,    \* the commands channel of each session
    registered,  \* keys of Loop.sessions
    accepting,   \* the session the accept loop still has to greet, or 0
    outbox,      \* sends the loop still has to do for the event in hand
    loop,        \* "running" or "stopped"
    stopping,    \* the server context is cancelled
    announced    \* history: EventClosed sent by s

session == <<conn, pc, taken, closedOnce, cancelled, run, lines>>
server  == <<kicks, registered, accepting, outbox, loop, stopping>>
vars    == <<session, server, events, commands, announced>>

Event(s, k) == [from |-> s, kind |-> k]

Init ==
    /\ conn = [s \in Sessions |-> "none"]
    /\ pc = [r \in Roles |-> [s \in Sessions |-> "off"]]
    /\ taken = [s \in Sessions |-> "none"]
    /\ closedOnce = [s \in Sessions |-> FALSE]
    /\ cancelled = [s \in Sessions |-> FALSE]
    /\ run = [s \in Sessions |-> "off"]
    /\ lines = 0
    /\ kicks = 0
    /\ events = <<>>
    /\ commands = [s \in Sessions |-> <<>>]
    /\ registered = {}
    /\ accepting = 0
    /\ outbox = <<>>
    /\ loop = "running"
    /\ stopping = FALSE
    /\ announced = [s \in Sessions |-> 0]

-----------------------------------------------------------------------------
(* The accept loop. *)

\* Accept the next connection and register its session.
Accept(s) ==
    /\ ~stopping /\ accepting = 0
    /\ conn[s] = "none" /\ \A t \in Sessions : t < s => conn[t] # "none"
    /\ conn' = [conn EXCEPT ![s] = "open"]
    /\ registered' = registered \cup {s}
    /\ accepting' = s
    /\ UNCHANGED <<pc, taken, closedOnce, cancelled, run, lines, kicks, events, commands,
                   outbox, loop, stopping, announced>>

\* Send the greeting, blocking while the channel is full, and start Run.
Greet ==
    /\ accepting # 0 /\ Len(commands[accepting]) < CommandCap
    /\ commands' = [commands EXCEPT ![accepting] = Append(@, "text")]
    /\ pc' = [pc EXCEPT !["reader"][accepting] = "reading",
                        !["writer"][accepting] = "waiting"]
    /\ run' = [run EXCEPT ![accepting] = "select"]
    /\ accepting' = 0
    /\ UNCHANGED <<conn, taken, closedOnce, cancelled, lines, kicks, events, registered,
                   outbox, loop, stopping, announced>>

\* The client half-closes or breaks the connection.
ClientLeaves(s) ==
    /\ conn[s] = "open"
    /\ \E how \in {"eof", "reset"} : conn' = [conn EXCEPT ![s] = how]
    /\ UNCHANGED <<pc, taken, closedOnce, cancelled, run, lines, server, events, commands, announced>>

-----------------------------------------------------------------------------
(* readLoop and writeLoop. *)

Goto(r, s, label) == pc' = [pc EXCEPT ![r][s] = label]

\* A line that passes the rate limiter (a refused one sends nothing).  Data that
\* arrived before the client left is still read.
ReadLine(s) ==
    /\ pc["reader"][s] = "reading" /\ conn[s] \in {"open", "eof"} /\ lines < MaxLines
    /\ lines' = lines + 1
    /\ Goto("reader", s, "emitLine")
    /\ UNCHANGED <<conn, taken, closedOnce, cancelled, run, server, events, commands, announced>>

\* emit: the channel has room, or the context is cancelled.
SendEvent(s, k) ==
    /\ Len(events) < EventCap
    /\ events' = Append(events, Event(s, k))

\* A plain channel send, that ignores the context.
EmitLineBlocking(s) ==
    /\ pc["reader"][s] = "emitLine"
    /\ SendEvent(s, "line") /\ Goto("reader", s, "reading")
    /\ UNCHANGED <<conn, taken, closedOnce, cancelled, run, lines, server, commands, announced>>
EmitLine(s) ==
    /\ pc["reader"][s] = "emitLine"
    /\ \/ SendEvent(s, "line") /\ Goto("reader", s, "reading")
       \/ cancelled[s] /\ UNCHANGED events /\ Goto("reader", s, "done")
    /\ UNCHANGED <<conn, taken, closedOnce, cancelled, run, lines, server, commands, announced>>

\* handleIOError: EOF and a connection we closed ourselves are expected.
ReadFails(s) ==
    /\ pc["reader"][s] = "reading" /\ conn[s] # "open"
    /\ Goto("reader", s, IF conn[s] = "reset" THEN "emitError" ELSE "emitClosed")
    /\ UNCHANGED <<conn, taken, closedOnce, cancelled, run, lines, server, events, commands, announced>>

EmitError(r, s) ==
    /\ pc[r][s] = "emitError"
    /\ \/ SendEvent(s, "error")
       \/ cancelled[s] /\ UNCHANGED events
    /\ Goto(r, s, "emitClosed")
    /\ UNCHANGED <<conn, taken, closedOnce, cancelled, run, lines, server, commands, announced>>

\* emitClosed: one of the two emits inside closedEvent.Do, the other one waits
\* for that.  A writer whose write failed on a closed connection goes on.
EmitClosed(r, s) ==
    /\ pc[r][s] \in {"emitClosed", "emitClosedGoOn"}
    /\ \/ closedOnce[s] /\ UNCHANGED <<closedOnce, events, announced>>
       \/ /\ ~closedOnce[s]
          /\ closedOnce' = [closedOnce EXCEPT ![s] = TRUE]
          /\ \/ /\ SendEvent(s, "closed")
                /\ announced' = [announced EXCEPT ![s] = @ + 1]
             \/ cancelled[s] /\ UNCHANGED <<events, announced>>
    /\ Goto(r, s, IF pc[r][s] = "emitClosed" THEN "done" ELSE "waiting")
    /\ UNCHANGED <<conn, taken, cancelled, run, lines, server, commands>>

TakeCommand(s) ==
    /\ pc["writer"][s] = "waiting" /\ commands[s] # <<>>
    /\ taken' = [taken EXCEPT ![s] = Head(commands[s])]
    /\ commands' = [commands EXCEPT ![s] = Tail(@)]
    /\ Goto("writer", s, "writing")
    /\ UNCHANGED <<conn, closedOnce, cancelled, run, lines, server, events, announced>>

WriterCancelled(s) ==
    /\ pc["writer"][s] = "waiting" /\ cancelled[s]
    /\ Goto("writer", s, "done")
    /\ UNCHANGED <<conn, taken, closedOnce, cancelled, run, lines, server, events, commands, announced>>

\* A writer that does not announce the close, or does not close the connection.
CloseSilently(s) ==
    /\ pc["writer"][s] = "writing" /\ (conn[s] \in {"open", "eof"} \/ taken[s] = "close")
    /\ taken' = [taken EXCEPT ![s] = "none"]
    /\ conn' = IF taken[s] = "text" THEN conn ELSE [conn EXCEPT ![s] = "closed"]
    /\ Goto("writer", s, IF taken[s] = "text" THEN "waiting" ELSE "done")
    /\ UNCHANGED <<closedOnce, cancelled, run, lines, server, events, commands, announced>>
AnnounceOnly(s) ==
    /\ pc["writer"][s] = "writing" /\ (conn[s] \in {"open", "eof"} \/ taken[s] = "close")
    /\ taken' = [taken EXCEPT ![s] = "none"]
    /\ Goto("writer", s, IF taken[s] = "text" THEN "waiting" ELSE "emitClosed")
    /\ UNCHANGED <<conn, closedOnce, cancelled, run, lines, server, events, commands, announced>>

\* applyCommand without an error: a command with Close closes the connection
\* and announces it ("goodbye" has text to write, "close" none).
WriteSucceeds(s) ==
    /\ pc["writer"][s] = "writing" /\ (conn[s] \in {"open", "eof"} \/ taken[s] = "close")
    /\ taken' = [taken EXCEPT ![s] = "none"]
    /\ conn' = IF taken[s] = "text" THEN conn ELSE [conn EXCEPT ![s] = "closed"]
    /\ Goto("writer", s, IF taken[s] = "text" THEN "waiting" ELSE "emitClosed")
    /\ UNCHANGED <<closedOnce, cancelled, run, lines, server, events, commands, announced>>

\* applyCommand with a failed write; a failure on a connection that the client
\* left is unexpected, one on a connection we closed is not.
WriteFails(s) ==
    /\ pc["writer"][s] = "writing" /\ conn[s] # "open" /\ taken[s] # "close"
    /\ taken' = [taken EXCEPT ![s] = "none"]
    /\ Goto("writer", s, CASE conn[s] # "closed" -> "emitError"
                           [] taken[s] = "text"  -> "emitClosedGoOn"
                           [] OTHER              -> "emitClosed")
    /\ UNCHANGED <<conn, closedOnce, cancelled, run, lines, server, events, commands, announced>>

\* Run: the first of the two to end, or the server's context, ends both.
RunWakes(s) ==
    /\ run[s] = "select"
    /\ pc["reader"][s] = "done" \/ pc["writer"][s] = "done" \/ cancelled[s]
    /\ run' = [run EXCEPT ![s] = "waiting"]
    /\ cancelled' = [cancelled EXCEPT ![s] = TRUE]
    /\ conn' = [conn EXCEPT ![s] = "closed"]
    /\ UNCHANGED <<pc, taken, closedOnce, lines, server, events, commands, announced>>

RunReturns(s) ==
    /\ run[s] = "waiting" /\ pc["reader"][s] = "done" /\ pc["writer"][s] = "done"
    /\ run' = [run EXCEPT ![s] = "done"]
    /\ UNCHANGED <<conn, pc, taken, closedOnce, cancelled, lines, server, events, commands, announced>>

-----------------------------------------------------------------------------
(* The game loop. *)

LoopFree == loop = "running" /\ outbox = <<>>

\* The members of S in the order of their ids.
InOrder(S) ==
    CHOOSE q \in [1..Cardinality(S) -> S] : \A i, j \in DOMAIN q : i < j => q[i] < q[j]

TextTo(S) == LET q == InOrder(S) IN [i \in DOMAIN q |-> [to |-> q[i], cmd |-> "text"]]

\* What handling a line of s may send: nothing, a reply, a message to the others
\* before the reply, or a goodbye.
Responses(s) ==
    {<<>>,
     <<[to |-> s, cmd |-> "text"]>>,
     Append(TextTo(registered \ {s}), [to |-> s, cmd |-> "text"]),
     <<[to |-> s, cmd |-> "goodbye"]>>}

\* handleLine of an unregistered session fails with ErrSessionNotFound.
HandleLine(s) ==
    /\ LoopFree /\ events # <<>> /\ Head(events) = Event(s, "line")
    /\ events' = Tail(events)
    /\ \/ s \in registered /\ outbox' \in Responses(s)
       \/ s \notin registered /\ UNCHANGED outbox
    /\ UNCHANGED <<session, kicks, commands, registered, accepting, loop, stopping, announced>>

\* Only one of the two kinds unregisters.
UnregisterOnError(s) ==
    /\ LoopFree /\ events # <<>> /\ Head(events) \in {Event(s, "closed"), Event(s, "error")}
    /\ events' = Tail(events)
    /\ registered' = IF Head(events).kind = "error" THEN registered \ {s} ELSE registered
    /\ UNCHANGED <<session, kicks, commands, accepting, outbox, loop, stopping, announced>>

\* EventClosed and EventError both end in UnregisterSession.
Unregister(s) ==
    /\ LoopFree /\ events # <<>> /\ Head(events) \in {Event(s, "closed"), Event(s, "error")}
    /\ events' = Tail(events)
    /\ registered' = registered \ {s}
    /\ UNCHANGED <<session, kicks, commands, accepting, outbox, loop, stopping, announced>>

\* sendCommand: blocks while the channel is full; when the server is stopping a
\* send may fail instead, which ends the whole broadcast.
SendNext ==
    /\ loop = "running" /\ outbox # <<>>
    /\ LET to == Head(outbox).to IN
         \/ /\ Len(commands[to]) < CommandCap
            /\ commands' = [commands EXCEPT ![to] = Append(@, Head(outbox).cmd)]
            /\ outbox' = Tail(outbox)
         \/ /\ stopping
            /\ outbox' = <<>>
            /\ UNCHANGED commands
    /\ UNCHANGED <<session, kicks, events, registered, accepting, loop, stopping, announced>>

\* A tick disconnects an idle player with two sends that never block:
\* whatever does not fit is dropped.
OfferOneMore(q, cmd) == IF Len(q) <= CommandCap THEN Append(q, cmd) ELSE q
Offer(q, cmd) == IF Len(q) < CommandCap THEN Append(q, cmd) ELSE q
IdleKick(s) ==
    /\ LoopFree /\ s \in registered /\ kicks < MaxKicks
    /\ kicks' = kicks + 1
    /\ commands' = [commands EXCEPT ![s] = Offer(Offer(@, "text"), "close")]
    /\ UNCHANGED <<session, events, registered, accepting, outbox, loop, stopping, announced>>

\* The server's context is cancelled, and with it that of every session.
Stop ==
    /\ ~stopping
    /\ stopping' = TRUE
    /\ cancelled' = [s \in Sessions |-> TRUE]
    /\ UNCHANGED <<conn, pc, taken, closedOnce, run, lines, kicks, registered, accepting,
                   outbox, loop, events, commands, announced>>

LoopStops ==
    /\ LoopFree /\ stopping
    /\ loop' = "stopped"
    /\ UNCHANGED <<session, kicks, events, commands, registered, accepting, outbox,
                   stopping, announced>>

-----------------------------------------------------------------------------

Reader(s) == EmitLine(s) \/ ReadFails(s) \/ EmitError("reader", s) \/ EmitClosed("reader", s)

Writer(s) ==
    \/ TakeCommand(s) \/ WriterCancelled(s)
    \/ WriteSucceeds(s) \/ WriteFails(s)
    \/ EmitError("writer", s) \/ EmitClosed("writer", s)

GameLoop ==
    \/ \E s \in Sessions : HandleLine(s) \/ Unregister(s)
    \/ SendNext
    \/ LoopStops

Next ==
    \/ \E s \in Sessions : \/ Accept(s) \/ ClientLeaves(s) \/ ReadLine(s)
                           \/ Reader(s) \/ Writer(s) \/ RunWakes(s) \/ RunReturns(s)
                           \/ IdleKick(s)
    \/ Greet \/ GameLoop \/ Stop

Spec == Init /\ [][Next]_vars

\* Goroutines are scheduled and clients keep reading what is written to them;
\* nobody has to connect, type, leave or stop the server.
FairSpec ==
    /\ Spec
    /\ \A s \in Sessions : /\ WF_vars(Reader(s)) /\ WF_vars(Writer(s))
                           /\ WF_vars(RunWakes(s)) /\ WF_vars(RunReturns(s))
    /\ WF_vars(Greet)
    /\ WF_vars(GameLoop)
-----------------------------------------------------------------------------

\* Types and capacities.
TypeOK ==
    /\ conn \in [Sessions -> {"none", "open", "eof", "reset", "closed"}]
    /\ pc \in [Roles -> [Sessions -> {"off", "reading", "emitLine", "emitError", "emitClosed",
                                      "emitClosedGoOn", "waiting", "writing", "done"}]]
    /\ taken \in [Sessions -> {"none", "text", "close", "goodbye"}]
    /\ closedOnce \in [Sessions -> BOOLEAN] /\ cancelled \in [Sessions -> BOOLEAN]
    /\ run \in [Sessions -> {"off", "select", "waiting", "done"}]
    /\ lines \in Nat /\ kicks \in Nat
    /\ events \in Seq([from : Sessions, kind : Kinds]) /\ Len(events) <= EventCap
    /\ commands \in [Sessions -> Seq({"text", "close", "goodbye"})]
    /\ \A s \in Sessions : Len(commands[s]) <= CommandCap
    /\ registered \in SUBSET Sessions
    /\ accepting \in Sessions \cup {0}
    /\ outbox \in Seq([to : Sessions, cmd : {"text", "goodbye"}])
    /\ loop \in {"running", "stopped"} /\ stopping \in BOOLEAN
    /\ announced \in [Sessions -> Nat]

\* A session never ends behind the loop's back: while the server runs, Run
\* cancels reader and writer only after the session's one EventClosed reached
\* the events channel, whichever of the two failed first.
EndIsAnnounced ==
    \A s \in Sessions :
        /\ announced[s] <= 1
        /\ run[s] \in {"waiting", "done"} /\ ~stopping => announced[s] = 1

\* A client that is still connected is known to the loop: no order of errors,
\* kicks and closes unregisters a session whose connection is intact.
ConnectedIsRegistered ==
    \A s \in Sessions : conn[s] = "open" => s \in registered

\* A session that ended is unregistered, so its actor can be bound again: every
\* EventClosed is handled (TestLoopUnregistersClosedSession, loop_test.go:420).
EndedIsUnregistered ==
    \A s \in Sessions :
        (run[s] \in {"waiting", "done"}) ~> (s \notin registered \/ stopping)

\* Cancelling the server's context ends every session that was started,
\* whatever it was blocked on.
StopEndsSessions ==
    \A s \in Sessions : (stopping /\ run[s] # "off") ~> (run[s] = "done")
=============================================================================
