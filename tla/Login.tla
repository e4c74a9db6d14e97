------------------------------- MODULE Login -------------------------------
(***************************************************************************)
(* From the accepted connection to the character a session plays: the      *)
(* connection counters of the accept loop, the login manager's state       *)
(* machine, the binding of a session to its actor in the game loop, the    *)
(* disconnection of a duplicate login, and the deletion of characters.     *)
(*                                                                         *)
(* All lines are handled by the one goroutine of the game loop, so a       *)
(* handler is one step, the password check that releases the login         *)
(* manager's lock included; what it sends is delivered afterwards, and     *)
(* meanwhile the loop does nothing else.  Time is left out: a blocked host *)
(* is let in again at any moment.                                          *)
(***************************************************************************)
EXTENDS Integers, Sequences, FiniteSets, SequencesExt

CONSTANTS
    Sessions, Hosts, Names, None,
    HostOf,         \* the host a session comes from
    Stored,         \* names with a character and a password at the start
    Hashless,       \* names with a character and no password
    Denied,         \* hosts that are locked out
    WithPassword,   \* hosts that need the site's password
    maxTotalConns, maxIPConns,
    MaxFailures,    \* wrong passwords of one login, 3 in the code
    BlockAfter,     \* wrong passwords of one host, 5 in the code
    ChanCap,        \* size of a commands channel, 16 in the code
    MaxLines        \* bound: lines of a session waiting for the loop

ASSUME LoginAssumption ==
    /\ HostOf \in [Sessions -> Hosts]
    /\ None \notin Names \cup Hosts \cup [session : Sessions, counted : BOOLEAN]
    /\ Stored \cap Hashless = {} /\ Stored \cup Hashless \subseteq Names
    /\ {maxTotalConns, maxIPConns, MaxFailures, BlockAfter, ChanCap, MaxLines} \subseteq Nat \ {0}

VARIABLES
    phase,        \* "new", "running", "ended" (connection closed), "over" (Run returned)
    accepting,    \* the connection the accept loop is dealing with, or None
    activeConns, ipConns,
    registered,   \* sessions of the game loop
    actor,        \* the character each session is bound to
    login,        \* the login manager's entries; NoEntry where the map has none
    shown,        \* what the client was last asked for
    ipFailures,   \* wrong passwords of a host; Blocked while it is blocked
    players,      \* characters: "absent", "hashless" or "stored"
    lines,        \* lines of a session that the loop has not handled
    commands,     \* commands channels
    sending,      \* what the loop has still to send before it goes on
    proved        \* names whose password a session has given or set

net  == <<phase, lines>>
conns == <<accepting, activeConns, ipConns>>
vars == <<net, conns, registered, actor, login, shown, ipFailures, players,
          commands, sending, proved>>

Blocked == -1

\* An entry of serverLoginManager.sessions.  Go's zero value, which the map
\* gives for a session it does not know, has the first step and no password.
Entry(step, name, host) == [step |-> step, name |-> name, failures |-> 0, host |-> host]
NoEntry == Entry("site", None, None)

Texts == {"text", "close"}   \* what a commands channel carries
Steps == {"site", "name", "password", "confirm", "enter", "gender", "class", "stats",
          "weapon", "alignment", "race", "newPassword"}

Init ==
    /\ phase = [s \in Sessions |-> "new"] /\ lines = [s \in Sessions |-> 0]
    /\ accepting = None /\ activeConns = 0 /\ ipConns = [h \in Hosts |-> 0]
    /\ registered = {} /\ actor = [s \in Sessions |-> None]
    /\ login = [s \in Sessions |-> NoEntry] /\ shown = [s \in Sessions |-> "nothing"]
    /\ ipFailures = [h \in Hosts |-> 0]
    /\ players = [n \in Names |-> CASE n \in Stored -> "stored" [] n \in Hashless -> "hashless"
                                    [] OTHER -> "absent"]
    /\ commands = [s \in Sessions |-> <<>>] /\ sending = <<>>
    /\ proved = [s \in Sessions |-> {}]

-----------------------------------------------------------------------------
(* The accept loop *)

\* The limits are looked at and the host's counter is raised.
Count(s) ==
    /\ accepting = None /\ phase[s] = "new"
    /\ activeConns < maxTotalConns /\ ipConns[HostOf[s]] < maxIPConns
    /\ accepting' = [session |-> s, counted |-> FALSE]
    /\ ipConns' = [ipConns EXCEPT ![HostOf[s]] = @ + 1]
    /\ UNCHANGED <<net, activeConns, registered, actor, login, shown, ipFailures, players,
                   commands, sending, proved>>

CountTotal ==
    /\ accepting /= None /\ ~accepting.counted
    /\ accepting' = [accepting EXCEPT !.counted = TRUE]
    /\ activeConns' = activeConns + 1
    /\ UNCHANGED <<net, ipConns, registered, actor, login, shown, ipFailures, players,
                   commands, sending, proved>>

\* Mutant: the host's counter is left as it is.
UncountTotal(s) == activeConns' = activeConns - 1 /\ UNCHANGED ipConns

Uncount(s) ==
    /\ activeConns' = activeConns - 1
    /\ ipConns' = [ipConns EXCEPT ![HostOf[s]] = @ - 1]

Deny ==
    /\ accepting /= None /\ accepting.counted
    /\ LET s == accepting.session IN
       /\ HostOf[s] \in Denied
       /\ Uncount(s)
       /\ phase' = [phase EXCEPT ![s] = "over"]
    /\ accepting' = None
    /\ UNCHANGED <<lines, registered, actor, login, shown, ipFailures, players, commands,
                   sending, proved>>

Register ==
    /\ accepting /= None /\ accepting.counted
    /\ LET s == accepting.session
           step == IF HostOf[s] \in WithPassword THEN "site" ELSE "name" IN
       /\ HostOf[s] \notin Denied
       /\ registered' = registered \cup {s}
       /\ login' = [login EXCEPT ![s] = Entry(step, None, HostOf[s])]
       /\ shown' = [shown EXCEPT ![s] = step]
       /\ commands' = [commands EXCEPT ![s] = <<"text">>]
       /\ phase' = [phase EXCEPT ![s] = "running"]
    /\ accepting' = None
    /\ UNCHANGED <<lines, activeConns, ipConns, actor, ipFailures, players, sending, proved>>

-----------------------------------------------------------------------------
(* The session's goroutines, in the detail that matters here *)

Read(s) ==
    /\ phase[s] = "running" /\ lines[s] < MaxLines
    /\ lines' = [lines EXCEPT ![s] = @ + 1]
    /\ UNCHANGED <<phase, conns, registered, actor, login, shown, ipFailures, players,
                   commands, sending, proved>>

Write(s) ==
    /\ phase[s] = "running" /\ commands[s] /= <<>>
    /\ commands' = [commands EXCEPT ![s] = Tail(@)]
    /\ phase' = IF Head(commands[s]) = "close" THEN [phase EXCEPT ![s] = "ended"] ELSE phase
    /\ UNCHANGED <<lines, conns, registered, actor, login, shown, ipFailures, players,
                   sending, proved>>

\* The client hangs up.
HangUp(s) ==
    /\ phase[s] = "running"
    /\ phase' = [phase EXCEPT ![s] = "ended"]
    /\ UNCHANGED <<lines, conns, registered, actor, login, shown, ipFailures, players,
                   commands, sending, proved>>

RunReturns(s) ==
    /\ phase[s] = "ended"
    /\ phase' = [phase EXCEPT ![s] = "over"]
    /\ Uncount(s)
    /\ UNCHANGED <<lines, accepting, registered, actor, login, shown, ipFailures, players,
                   commands, sending, proved>>

-----------------------------------------------------------------------------
(* The game loop *)

\* A blocking send.
SendCommand ==
    /\ sending /= <<>>
    /\ LET to == Head(sending).to IN
       /\ Len(commands[to]) < ChanCap
       /\ commands' = [commands EXCEPT ![to] = Append(@, Head(sending).what)]
    /\ sending' = Tail(sending)
    /\ UNCHANGED <<net, conns, registered, actor, login, shown, ipFailures, players, proved>>

UnregisterSession(s) ==
    /\ sending = <<>>
    /\ s \in registered /\ phase[s] \in {"ended", "over"} /\ lines[s] = 0
    /\ registered' = registered \ {s}
    /\ actor' = [actor EXCEPT ![s] = None]
    /\ UNCHANGED <<net, conns, login, shown, ipFailures, players, commands, sending, proved>>

\* Mutant: nothing is dropped.
OfferAlways(queue, what) == Append(queue, what)

\* WriteToSession and DisconnectSession drop what does not fit.
Offer(queue, what) == IF Len(queue) < ChanCap THEN Append(queue, what) ELSE queue
SayAndClose(queue) == Offer(Offer(queue, "text"), "close")

\* The loop takes a line of s.
Takes(s) ==
    /\ sending = <<>> /\ s \in registered /\ lines[s] > 0
    /\ lines' = [lines EXCEPT ![s] = @ - 1]

\* What a line is answered with is sent at once if there is room for it.
Deliver(queues, s, what) ==
    IF Len(queues[s]) < ChanCap
      THEN commands' = [queues EXCEPT ![s] = Append(@, what)] /\ UNCHANGED sending
      ELSE commands' = queues /\ sending' = <<[to |-> s, what |-> what]>>
Reply(s, what) == Deliver(commands, s, what)

\* How a handler of the login manager ends: the entry it leaves and what the
\* client is asked for.
Ask(s, entry, prompt) ==
    /\ login' = [login EXCEPT ![s] = entry]
    /\ shown' = [shown EXCEPT ![s] = prompt]
    /\ Reply(s, "text")
    /\ UNCHANGED <<actor, players, proved>>

Refuse(s) ==
    /\ login' = [login EXCEPT ![s] = NoEntry]
    /\ Reply(s, "close")
    /\ UNCHANGED <<shown, actor, players, proved>>

\* Mutant: the login manager also gets the lines of a session that plays.
AtAnyTime(s, step) == Takes(s) /\ login[s].step = step

At(s, step) == Takes(s) /\ actor[s] = None /\ login[s].step = step

Stays(s) == Ask(s, login[s], login[s].step)
Goes(s, step) == Ask(s, [login[s] EXCEPT !.step = step], step)

handleSitePassword(s) ==
    /\ At(s, "site")
    /\ \/ Ask(s, Entry("name", None, login[s].host), "name")
       \/ Refuse(s)
    /\ UNCHANGED ipFailures

handleName(s) ==
    /\ At(s, "name")
    /\ \/ Stays(s)
       \/ \E n \in Names :
            CASE players[n] = "absent" ->
                   Ask(s, [login[s] EXCEPT !.step = "confirm", !.name = n], "confirm")
              [] players[n] = "hashless" -> Ask(s, NoEntry, "name")
              [] players[n] = "stored" ->
                   Ask(s, Entry("password", n, login[s].host), "password")
    /\ UNCHANGED ipFailures

HostBlocked(s) == login[s].host /= None /\ ipFailures[login[s].host] = Blocked

passwordWhileBlocked(s) ==
    /\ At(s, "password") /\ HostBlocked(s)
    /\ Refuse(s) /\ UNCHANGED ipFailures

passwordPlayerGone(s) ==
    /\ At(s, "password") /\ ~HostBlocked(s)
    /\ players[login[s].name] = "absent"
    /\ Ask(s, NoEntry, "name") /\ UNCHANGED ipFailures

\* The session is bound to the character.
BindActor(s, n) ==
    /\ actor' = [actor EXCEPT ![s] = n]
    /\ login' = [login EXCEPT ![s] = NoEntry]
    /\ shown' = [shown EXCEPT ![s] = "game"]

Duplicates(n) == {t \in registered : actor[t] = n}
disconnectDuplicateSession(n) ==
    [t \in Sessions |->
        IF t \in Duplicates(n) THEN SayAndClose(commands[t]) ELSE commands[t]]

passwordVerified(s) ==
    /\ At(s, "password") /\ ~HostBlocked(s)
    /\ LET n == login[s].name IN
       /\ players[n] = "stored"
       /\ ipFailures' = IF login[s].host = None THEN ipFailures
                          ELSE [ipFailures EXCEPT ![login[s].host] = 0]
       /\ Deliver(disconnectDuplicateSession(n), s, "text")
       /\ BindActor(s, n)
       /\ proved' = [proved EXCEPT ![s] = @ \cup {n}]
    /\ UNCHANGED players

HostFails(h) ==
    ipFailures' = IF h = None THEN ipFailures
                    ELSE [ipFailures EXCEPT ![h] = IF @ + 1 >= BlockAfter THEN Blocked ELSE @ + 1]

\* Mutant: the result of the verification is not looked at.
passwordUnchecked(s) ==
    /\ At(s, "password") /\ ~HostBlocked(s)
    /\ players[login[s].name] /= "absent"
    /\ Deliver(disconnectDuplicateSession(login[s].name), s, "text")
    /\ BindActor(s, login[s].name)
    /\ UNCHANGED <<ipFailures, players, proved>>

passwordWrong(s) ==
    /\ At(s, "password") /\ ~HostBlocked(s)
    /\ players[login[s].name] /= "absent"
    /\ HostFails(login[s].host)
    /\ \/ Refuse(s)   \* an empty line, or one failure too many
       \/ /\ login[s].failures + 1 < MaxFailures
          /\ Ask(s, [login[s] EXCEPT !.failures = @ + 1], "password")

handleCreateConfirm(s) ==
    /\ At(s, "confirm")
    /\ \/ Goes(s, "enter")
       \/ Ask(s, [login[s] EXCEPT !.step = "name", !.name = None], "name")
    /\ UNCHANGED ipFailures

handleCreateEnter(s) == At(s, "enter") /\ Goes(s, "gender") /\ UNCHANGED ipFailures

\* A handler that repeats its question until the answer is usable.
Question(s, step, next) ==
    /\ At(s, step) /\ (Goes(s, next) \/ Stays(s))
    /\ UNCHANGED ipFailures

handleCreateGender(s)    == Question(s, "gender", "class")
handleCreateClass(s)     == Question(s, "class", "stats")
handleCreateStats(s)     == Question(s, "stats", "weapon")
handleCreateWeapon(s)    == Question(s, "weapon", "alignment")
handleCreateAlignment(s) == Question(s, "alignment", "race")
handleCreateRace(s)      == Question(s, "race", "newPassword")

createPasswordUnfit(s) ==
    At(s, "newPassword") /\ Stays(s) /\ UNCHANGED ipFailures

CanCreate(n) == players[n] = "absent"

\* The name was taken meanwhile: an error, and the step stays.
createPasswordTooLate(s) ==
    /\ At(s, "newPassword") /\ ~CanCreate(login[s].name)
    /\ Reply(s, "text")
    /\ UNCHANGED <<actor, login, shown, ipFailures, players, proved>>

\* The character is made, saved or not, and a broadcast goes to everyone.
handleCreatePasswordAfterHash(s) ==
    /\ At(s, "newPassword") /\ CanCreate(login[s].name)
    /\ players' = [players EXCEPT ![login[s].name] = "stored"]
    /\ proved' = [proved EXCEPT ![s] = @ \cup {login[s].name}]
    /\ \/ /\ Reply(s, "text")
          /\ UNCHANGED <<actor, login, shown>>
       \/ /\ BindActor(s, login[s].name)
          /\ UNCHANGED commands
          /\ sending' = SetToSeq({[to |-> t, what |-> "text"] : t \in registered})
                          \o <<[to |-> s, what |-> "text"]>>
    /\ UNCHANGED ipFailures

\* A command, or a line of the news shown after the login.
PlayLine(s) ==
    /\ Takes(s) /\ actor[s] /= None
    /\ \E what \in {"text", "close"} : Reply(s, what)
    /\ UNCHANGED <<actor, login, shown, ipFailures, players, proved>>

\* Suicide, or a quit below level 6; an error when the character is gone.
DustPlayer(s) ==
    /\ Takes(s) /\ actor[s] /= None /\ players[actor[s]] /= "absent"
    /\ players' = [players EXCEPT ![actor[s]] = "absent"]
    /\ Reply(s, "close")
    /\ UNCHANGED <<actor, login, shown, ipFailures, commands, proved>>

\* The world writes to a player, kicks an idle one, or shuts down.
Chatter(s) ==
    /\ sending = <<>> /\ s \in registered /\ actor[s] /= None
    /\ \E what \in {"text", "close"} :
         commands' = [commands EXCEPT ![s] = Offer(@, what)]
    /\ UNCHANGED <<net, conns, registered, actor, login, shown, ipFailures, players,
                   sending, proved>>

\* The five minutes of a block, or the ten of a record, have passed.
cleanupIPFailures(h) ==
    /\ ipFailures[h] /= 0
    /\ ipFailures' = [ipFailures EXCEPT ![h] = 0]
    /\ UNCHANGED <<net, conns, registered, actor, login, shown, players, commands,
                   sending, proved>>

HandleLine(s) ==
    /\ \/ handleSitePassword(s) \/ handleName(s)
       \/ passwordWhileBlocked(s) \/ passwordPlayerGone(s)
       \/ passwordVerified(s) \/ passwordWrong(s)
       \/ handleCreateConfirm(s) \/ handleCreateEnter(s) \/ handleCreateGender(s)
       \/ handleCreateClass(s) \/ handleCreateStats(s) \/ handleCreateWeapon(s)
       \/ handleCreateAlignment(s) \/ handleCreateRace(s)
       \/ createPasswordUnfit(s) \/ createPasswordTooLate(s)
       \/ handleCreatePasswordAfterHash(s)
       \/ PlayLine(s) \/ DustPlayer(s)
    /\ UNCHANGED <<phase, conns, registered>>

Next ==
    \/ CountTotal \/ Deny \/ Register \/ SendCommand
    \/ \E s \in Sessions :
         \/ Count(s) \/ Read(s) \/ Write(s) \/ HangUp(s) \/ RunReturns(s)
         \/ UnregisterSession(s) \/ HandleLine(s) \/ Chatter(s)
    \/ \E h \in Hosts : cleanupIPFailures(h)

Spec == Init /\ [][Next]_vars

-----------------------------------------------------------------------------
(* Properties *)

TypeOK ==
    /\ phase \in [Sessions -> {"new", "running", "ended", "over"}]
    /\ accepting \in {None} \cup [session : Sessions, counted : BOOLEAN]
    /\ activeConns \in 0 .. maxTotalConns /\ ipConns \in [Hosts -> 0 .. maxIPConns]
    /\ registered \subseteq Sessions
    /\ actor \in [Sessions -> Names \cup {None}]
    /\ login \in [Sessions -> [step : Steps, name : Names \cup {None},
                               failures : 0 .. MaxFailures - 1, host : Hosts \cup {None}]]
    /\ shown \in [Sessions -> Steps \cup {"nothing", "game"}]
    /\ ipFailures \in [Hosts -> {Blocked} \cup 0 .. BlockAfter - 1]
    /\ players \in [Names -> {"absent", "hashless", "stored"}]
    /\ lines \in [Sessions -> 0 .. MaxLines]
    /\ \A s \in Sessions : Len(commands[s]) <= ChanCap
    /\ proved \in [Sessions -> SUBSET Names]

\* The counters are the connections of the accept loop and of the sessions
\* that have not returned, on whichever of its paths a connection ends.
Counting(s) == phase[s] \in {"running", "ended"}
CountersMatch ==
    LET Half(s) == accepting /= None /\ accepting.session = s
        Whole(s) == Half(s) /\ accepting.counted IN
    /\ activeConns = Cardinality({s \in Sessions : Counting(s) \/ Whole(s)})
    /\ \A h \in Hosts :
         ipConns[h] = Cardinality({s \in Sessions : HostOf[s] = h /\ (Counting(s) \/ Half(s))})

\* Who is bound to a character has given its password or has made it, also when
\* two sessions ask for the same new name at the same time.
KnowsPassword == \A s \in Sessions : actor[s] /= None => actor[s] \in proved[s]

\* Logging in implements Presence: a session signs in once, to a character that
\* exists, and a name that is taken is made by nobody else.
P == INSTANCE Presence WITH
    playing  <- actor,
    accounts <- {n \in Names : players[n] /= "absent"},
    spent    <- {s \in Sessions : shown[s] = "game"}
PresenceSpec == P!Spec

=============================================================================
