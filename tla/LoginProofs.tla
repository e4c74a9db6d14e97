---------------------------- MODULE LoginProofs ----------------------------
(***************************************************************************)
(* For any sessions, hosts, names and limits: the connection counters are  *)
(* true, a session that plays has proved who it is, and logging in         *)
(* implements Presence.                                                    *)
(***************************************************************************)
EXTENDS Login, FiniteSetTheorems, SequenceTheorems, TLAPS

\* The queues hold texts and the closing of a connection.
Types ==
    /\ TypeOK
    /\ commands \in [Sessions -> Seq(Texts)]
    /\ sending \in Seq([to : Sessions, what : Texts])

Half(s) == accepting /= None /\ accepting.session = s
Whole(s) == Half(s) /\ accepting.counted

\* The sessions behind activeConns, and those behind the counter of a host.
Open == {s \in Sessions : Counting(s) \/ Whole(s)}
From(h) == {s \in Sessions : HostOf[s] = h /\ (Counting(s) \/ Half(s))}

\* The counters count finite sets; the connection that the accept loop deals
\* with is not a session yet, and there is room for it until it is counted.
Connections ==
    /\ IsFiniteSet(Open) /\ activeConns = Cardinality(Open)
    /\ \A h \in Hosts : IsFiniteSet(From(h)) /\ ipConns[h] = Cardinality(From(h))
    /\ accepting /= None =>
           /\ phase[accepting.session] = "new"
           /\ ~accepting.counted => activeConns < maxTotalConns

\* A session plays only while it is registered, and once it has played it is
\* not registered again; a step after the name has one.
Life(s) ==
    /\ actor[s] /= None => s \in registered /\ shown[s] = "game"
    /\ s \in registered /\ actor[s] = None => shown[s] /= "game"
    /\ phase[s] = "new" => s \notin registered /\ shown[s] = "nothing"
    /\ login[s].step \notin {"site", "name"} => login[s].name \in Names

Lives == IsFiniteSet(registered) /\ \A s \in Sessions : Life(s)

Inv == Types /\ Connections /\ Lives /\ KnowsPassword

\* Connections states CountersMatch with the sets named.
LEMMA CountersByName == Connections => CountersMatch
BY DEF Connections, CountersMatch, Open, From, Half, Whole

-----------------------------------------------------------------------------
(* What is sent. *)

\* What fits is appended, and the queue stays within its channel.
LEMMA OfferFits ==
    ASSUME NEW q \in Seq(Texts), Len(q) <= ChanCap, NEW what \in Texts
    PROVE  Offer(q, what) \in Seq(Texts) /\ Len(Offer(q, what)) <= ChanCap
BY LoginAssumption DEF Offer

\* A duplicate's queue stays within its channel as well.
LEMMA DisconnectFits ==
    ASSUME Types, NEW n
    PROVE  /\ disconnectDuplicateSession(n) \in [Sessions -> Seq(Texts)]
           /\ \A s \in Sessions : Len(disconnectDuplicateSession(n)[s]) <= ChanCap
<1>1. \A s \in Sessions : commands[s] \in Seq(Texts) /\ Len(commands[s]) <= ChanCap
  BY DEF Types, TypeOK
<1>2. \A s \in Sessions : /\ SayAndClose(commands[s]) \in Seq(Texts)
                          /\ Len(SayAndClose(commands[s])) <= ChanCap
  BY <1>1, OfferFits DEF SayAndClose, Texts
<1> QED BY <1>1, <1>2 DEF disconnectDuplicateSession

\* An answer is in its queue or is the next thing the loop sends.
LEMMA DeliverFits ==
    ASSUME NEW queues \in [Sessions -> Seq(Texts)],
           \A t \in Sessions : Len(queues[t]) <= ChanCap,
           sending \in Seq([to : Sessions, what : Texts]),
           NEW s \in Sessions, NEW what \in Texts, Deliver(queues, s, what)
    PROVE  /\ commands' \in [Sessions -> Seq(Texts)]
           /\ \A t \in Sessions : Len(commands'[t]) <= ChanCap
           /\ sending' \in Seq([to : Sessions, what : Texts])
<1>1. CASE Len(queues[s]) < ChanCap
  <2>1. commands' = [queues EXCEPT ![s] = Append(@, what)] /\ sending' = sending
    BY <1>1 DEF Deliver
  <2> QED BY <2>1, <1>1, LoginAssumption
<1>2. CASE ~(Len(queues[s]) < ChanCap)
  <2>1. commands' = queues /\ sending' = <<[to |-> s, what |-> what]>>
    BY <1>2 DEF Deliver
  <2>2. [to |-> s, what |-> what] \in [to : Sessions, what : Texts]
    OBVIOUS
  <2> QED BY <2>1, <2>2
<1> QED BY <1>1, <1>2

\* SetToSeq lists a finite set.
LEMMA SetToSeqType ==
    ASSUME NEW S, IsFiniteSet(S)
    PROVE  SetToSeq(S) \in Seq(S)
<1>1. Cardinality(S) \in Nat /\ ExistsBijection(1 .. Cardinality(S), S)
  BY FS_CardinalityType
<1>2. \E f \in [1 .. Cardinality(S) -> S] : IsInjective(f)
  BY <1>1 DEF ExistsBijection, Bijection, Injection
<1>3. SetToSeq(S) \in [1 .. Cardinality(S) -> S]
  BY <1>2 DEF SetToSeq
<1> QED BY <1>1, <1>3, SeqDef

\* The broadcast about a new character is a finite list of texts.
LEMMA BroadcastType ==
    ASSUME Types, Lives, NEW s \in Sessions
    PROVE  SetToSeq({[to |-> t, what |-> "text"] : t \in registered})
               \o <<[to |-> s, what |-> "text"]>> \in Seq([to : Sessions, what : Texts])
<1> DEFINE M == {[to |-> t, what |-> "text"] : t \in registered}
           f == [t \in registered |-> [to |-> t, what |-> "text"]]
<1>1. f \in Surjection(registered, M)
  BY DEF Surjection
<1>2. IsFiniteSet(M)
  <2> HIDE DEF f, M
  <2> QED BY <1>1, FS_Surjection DEF Lives
<1>3. M \subseteq [to : Sessions, what : Texts]
  BY DEF Types, TypeOK, Texts
<1>4. SetToSeq(M) \in Seq([to : Sessions, what : Texts])
  <2> HIDE DEF M
  <2> QED BY <1>2, <1>3, SetToSeqType, SeqMonotonic
<1>5. <<[to |-> s, what |-> "text"]>> \in Seq([to : Sessions, what : Texts])
  BY DEF Texts
<1> HIDE DEF M
<1>6. SetToSeq(M) \o <<[to |-> s, what |-> "text"]>> \in Seq([to : Sessions, what : Texts])
  BY <1>4, <1>5, ConcatProperties
<1> QED BY <1>6 DEF M

-----------------------------------------------------------------------------
(* The lines a session sends. *)

Entries == [step : Steps, name : Names \cup {None},
            failures : 0 .. MaxFailures - 1, host : Hosts \cup {None}]
FailureCounts == [Hosts -> {Blocked} \cup 0 .. BlockAfter - 1]

\* Handling a line leaves the connections alone.
LEMMA ConnectionsStay ==
    ASSUME Connections, UNCHANGED <<phase, conns>>
    PROVE  Connections'
BY DEF Connections, conns, Open, From, Half, Whole, Counting

\* What all lines have in common.
LEMMA TakesType ==
    ASSUME Types, NEW s \in Sessions, Takes(s)
    PROVE  sending = <<>> /\ s \in registered /\ lines' \in [Sessions -> 0 .. MaxLines]
<1>1. lines[s] \in 0 .. MaxLines /\ lines[s] - 1 \in 0 .. MaxLines
  BY LoginAssumption DEF Types, TypeOK, Takes
<1> QED BY <1>1 DEF Types, TypeOK, Takes

\* A question keeps the invariant.
LEMMA AskKeeps ==
    ASSUME Inv, NEW s \in Sessions, NEW step, At(s, step),
           NEW entry \in Entries, NEW prompt \in Steps, Ask(s, entry, prompt),
           entry.step \notin {"site", "name"} => entry.name \in Names,
           ipFailures' \in FailureCounts, UNCHANGED <<phase, conns, registered>>
    PROVE  Inv'
<1>1. s \in registered /\ actor[s] = None /\ lines' \in [Sessions -> 0 .. MaxLines]
  BY TakesType DEF At, Inv
<1>2. /\ commands' \in [Sessions -> Seq(Texts)]
      /\ \A t \in Sessions : Len(commands'[t]) <= ChanCap
      /\ sending' \in Seq([to : Sessions, what : Texts])
  BY DeliverFits DEF Inv, Types, TypeOK, Ask, Reply, Texts
<1>3. /\ login' = [login EXCEPT ![s] = entry] /\ shown' = [shown EXCEPT ![s] = prompt]
      /\ UNCHANGED <<actor, players, proved, phase, accepting, activeConns, ipConns, registered>>
  BY DEF Ask, conns
<1>4. Types'
  BY <1>1, <1>2, <1>3 DEF Inv, Types, TypeOK, Entries, FailureCounts
<1>5. Lives'
  <2>1. prompt /= "game"
    BY DEF Steps
  <2> SUFFICES ASSUME NEW t \in Sessions PROVE Life(t)'
    BY <1>3 DEF Inv, Lives
  <2> QED BY <1>1, <1>3, <2>1 DEF Inv, Types, TypeOK, Lives, Life
<1> QED BY <1>3, <1>4, <1>5, ConnectionsStay DEF Inv, KnowsPassword, conns

\* A refusal keeps the invariant.
LEMMA RefuseKeeps ==
    ASSUME Inv, NEW s \in Sessions, NEW step, At(s, step), Refuse(s),
           ipFailures' \in FailureCounts, UNCHANGED <<phase, conns, registered>>
    PROVE  Inv'
<1>1. s \in registered /\ actor[s] = None /\ lines' \in [Sessions -> 0 .. MaxLines]
  BY TakesType DEF At, Inv
<1>2. /\ commands' \in [Sessions -> Seq(Texts)]
      /\ \A t \in Sessions : Len(commands'[t]) <= ChanCap
      /\ sending' \in Seq([to : Sessions, what : Texts])
  BY DeliverFits DEF Inv, Types, TypeOK, Refuse, Reply, Texts
<1>3. /\ login' = [login EXCEPT ![s] = NoEntry]
      /\ UNCHANGED <<shown, actor, players, proved, phase, accepting, activeConns, ipConns,
                     registered>>
  BY DEF Refuse, conns
<1>4. NoEntry \in Entries /\ NoEntry.step = "site"
  BY LoginAssumption DEF NoEntry, Entry, Entries, Steps
<1>5. Types'
  BY <1>1, <1>2, <1>3, <1>4 DEF Inv, Types, TypeOK, Entries, FailureCounts
<1>6. Lives'
  BY <1>1, <1>3, <1>4 DEF Inv, Types, TypeOK, Lives, Life
<1> QED BY <1>3, <1>5, <1>6, ConnectionsStay DEF Inv, KnowsPassword, conns

\* A step that only changes who waits for what keeps the invariant.
LEMMA AnswerKeeps ==
    ASSUME Inv, Types', UNCHANGED <<phase, conns, registered, actor, login, shown>>,
           \A s \in Sessions : proved[s] \subseteq proved'[s]
    PROVE  Inv'
<1>1. Lives' /\ KnowsPassword'
  BY DEF Inv, Lives, Life, KnowsPassword
<1> QED BY <1>1, ConnectionsStay DEF Inv

\* Binding a session to a character it has proved keeps the invariant.
LEMMA BindKeeps ==
    ASSUME Inv, NEW s \in registered, NEW n \in Names, BindActor(s, n),
           lines' \in [Sessions -> 0 .. MaxLines],
           commands' \in [Sessions -> Seq(Texts)],
           \A t \in Sessions : Len(commands'[t]) <= ChanCap,
           sending' \in Seq([to : Sessions, what : Texts]),
           players' \in [Names -> {"absent", "hashless", "stored"}],
           proved' = [proved EXCEPT ![s] = @ \cup {n}],
           ipFailures' \in FailureCounts, UNCHANGED <<phase, conns, registered>>
    PROVE  Inv'
<1>1. s \in Sessions
  BY DEF Inv, Types, TypeOK
<1>2. NoEntry \in Entries /\ NoEntry.step = "site"
  BY LoginAssumption DEF NoEntry, Entry, Entries, Steps
<1>3. /\ actor' = [actor EXCEPT ![s] = n] /\ login' = [login EXCEPT ![s] = NoEntry]
      /\ shown' = [shown EXCEPT ![s] = "game"]
      /\ UNCHANGED <<phase, accepting, activeConns, ipConns, registered>>
  BY DEF BindActor, conns
<1>4. Types'
  BY <1>1, <1>2, <1>3 DEF Inv, Types, TypeOK, Entries, FailureCounts
<1>5. Lives'
  <2> SUFFICES ASSUME NEW t \in Sessions PROVE Life(t)'
    BY <1>3 DEF Inv, Lives
  <2> QED BY <1>1, <1>2, <1>3, LoginAssumption DEF Inv, Types, TypeOK, Lives, Life
<1>6. KnowsPassword'
  BY <1>1, <1>3 DEF Inv, Types, TypeOK, KnowsPassword
<1> QED BY <1>4, <1>5, <1>6, ConnectionsStay DEF Inv

\* A wrong password counts, or blocks the host.
LEMMA HostFailsType ==
    ASSUME Types, NEW h \in Hosts \cup {None}, HostFails(h)
    PROVE  ipFailures' \in FailureCounts
<1>1. ASSUME NEW k \in {Blocked} \cup 0 .. BlockAfter - 1
      PROVE  (IF k + 1 >= BlockAfter THEN Blocked ELSE k + 1) \in {Blocked} \cup 0 .. BlockAfter - 1
  BY LoginAssumption DEF Blocked
<1> QED BY <1>1 DEF Types, TypeOK, HostFails, FailureCounts

\* Each handler keeps the invariant.
LEMMA HandlersKeep ==
    ASSUME Inv, NEW s \in Sessions, HandleLine(s)
    PROVE  Inv'
<1>1. UNCHANGED <<phase, conns, registered>> /\ login[s] \in Entries /\ ipFailures \in FailureCounts
  BY DEF HandleLine, Inv, Types, TypeOK, Entries, FailureCounts
<1>2. login[s].step \notin {"site", "name"} => login[s].name \in Names
  BY DEF Inv, Lives, Life
<1>3. ASSUME NEW step, At(s, step) PROVE step \in Steps /\ step = login[s].step
  BY <1>1, <1>3 DEF At, Entries
<1>4. ASSUME NEW step, At(s, step), Stays(s), UNCHANGED ipFailures PROVE Inv'
  BY <1>1, <1>2, <1>3, <1>4, AskKeeps DEF Stays
<1>5. ASSUME NEW step, At(s, step), step \notin {"site", "name"}, NEW next \in Steps,
             Goes(s, next), UNCHANGED ipFailures
      PROVE  Inv'
  <2>1. [login[s] EXCEPT !.step = next] \in Entries /\ login[s].name \in Names
    BY <1>1, <1>2, <1>3, <1>5 DEF Entries
  <2> QED BY <1>1, <1>5, <2>1, AskKeeps DEF Goes, Entries
<1>6. ASSUME NEW step, At(s, step), Refuse(s), UNCHANGED ipFailures PROVE Inv'
  BY <1>1, <1>6, RefuseKeeps
<1>7. NoEntry \in Entries /\ NoEntry.step = "site"
  BY LoginAssumption DEF NoEntry, Entry, Entries, Steps
<1>8. ASSUME NEW step \in Steps, NEW n \in Names \cup {None}
      PROVE  /\ Entry(step, n, login[s].host) \in Entries
             /\ Entry(step, n, login[s].host).step = step /\ Entry(step, n, login[s].host).name = n
  BY <1>1, LoginAssumption DEF Entry, Entries
<1>9. CASE handleSitePassword(s)
  <2>1. At(s, "site") /\ UNCHANGED ipFailures
    BY <1>9 DEF handleSitePassword
  <2>2. ASSUME Ask(s, Entry("name", None, login[s].host), "name") PROVE Inv'
    BY <1>1, <1>8, <2>1, <2>2, AskKeeps DEF Steps
  <2> QED BY <1>6, <1>9, <2>1, <2>2 DEF handleSitePassword
<1>10. CASE handleName(s)
  <2>1. At(s, "name") /\ UNCHANGED ipFailures
    BY <1>10 DEF handleName
  <2>2. ASSUME NEW n \in Names,
               Ask(s, [login[s] EXCEPT !.step = "confirm", !.name = n], "confirm")
        PROVE  Inv'
    <3>1. /\ [login[s] EXCEPT !.step = "confirm", !.name = n] \in Entries
          /\ [login[s] EXCEPT !.step = "confirm", !.name = n].name = n
      BY <1>1 DEF Entries, Steps
    <3> QED BY <1>1, <2>1, <2>2, <3>1, AskKeeps DEF Steps
  <2>3. ASSUME Ask(s, NoEntry, "name") PROVE Inv'
    BY <1>1, <1>7, <2>1, <2>3, AskKeeps DEF Steps
  <2>4. ASSUME NEW n \in Names, Ask(s, Entry("password", n, login[s].host), "password")
        PROVE  Inv'
    BY <1>1, <1>8, <2>1, <2>4, AskKeeps DEF Steps
  <2>5. \A n \in Names : players[n] \in {"absent", "hashless", "stored"}
    BY DEF Inv, Types, TypeOK
  <2> QED BY <1>4, <1>10, <2>1, <2>2, <2>3, <2>4, <2>5 DEF handleName
<1>11. CASE passwordWhileBlocked(s)
  BY <1>6, <1>11 DEF passwordWhileBlocked
<1>12. CASE passwordPlayerGone(s)
  BY <1>1, <1>7, <1>12, AskKeeps DEF passwordPlayerGone, Steps
<1>13. CASE passwordVerified(s)
  <2> DEFINE n == login[s].name
  <2>1. At(s, "password") /\ n \in Names
    BY <1>2, <1>3, <1>13 DEF passwordVerified
  <2>2. s \in registered /\ lines' \in [Sessions -> 0 .. MaxLines]
    BY <2>1, TakesType DEF At, Inv
  <2>3. Deliver(disconnectDuplicateSession(n), s, "text")
    BY <1>13 DEF passwordVerified
  <2>4. /\ commands' \in [Sessions -> Seq(Texts)]
        /\ \A t \in Sessions : Len(commands'[t]) <= ChanCap
        /\ sending' \in Seq([to : Sessions, what : Texts])
    <3> HIDE DEF n
    <3> QED BY <2>3, DeliverFits, DisconnectFits DEF Inv, Types, TypeOK, Texts
  <2>5. ipFailures' \in FailureCounts
    <3>1. 0 \in 0 .. BlockAfter - 1 /\ login[s].host \in Hosts \cup {None}
      BY <1>1, LoginAssumption DEF Entries
    <3>2. ipFailures' = IF login[s].host = None THEN ipFailures
                          ELSE [ipFailures EXCEPT ![login[s].host] = 0]
      BY <1>13 DEF passwordVerified
    <3> QED BY <1>1, <3>1, <3>2 DEF FailureCounts
  <2>6. /\ BindActor(s, n) /\ players' = players
        /\ proved' = [proved EXCEPT ![s] = @ \cup {n}]
    BY <1>13 DEF passwordVerified
  <2>7. players' \in [Names -> {"absent", "hashless", "stored"}]
    BY <2>6 DEF Inv, Types, TypeOK
  <2> HIDE DEF n
  <2> QED BY <1>1, <2>1, <2>2, <2>4, <2>5, <2>6, <2>7, BindKeeps
<1>14. CASE passwordWrong(s)
  <2>1. At(s, "password") /\ ipFailures' \in FailureCounts
    BY <1>1, <1>14, HostFailsType DEF passwordWrong, Entries, Inv
  <2>2. ASSUME login[s].failures + 1 < MaxFailures,
               Ask(s, [login[s] EXCEPT !.failures = @ + 1], "password")
        PROVE  Inv'
    <3>1. /\ [login[s] EXCEPT !.failures = @ + 1] \in Entries
          /\ [login[s] EXCEPT !.failures = @ + 1].name \in Names
      BY <1>1, <1>2, <1>3, <2>1, <2>2, LoginAssumption DEF Entries
    <3> QED BY <1>1, <2>1, <2>2, <3>1, AskKeeps DEF Steps
  <2> QED BY <1>1, <1>14, <2>1, <2>2, RefuseKeeps DEF passwordWrong
<1>15. CASE handleCreateConfirm(s)
  <2>1. At(s, "confirm") /\ UNCHANGED ipFailures
    BY <1>15 DEF handleCreateConfirm
  <2>2. ASSUME Ask(s, [login[s] EXCEPT !.step = "name", !.name = None], "name") PROVE Inv'
    <3>1. /\ [login[s] EXCEPT !.step = "name", !.name = None] \in Entries
          /\ [login[s] EXCEPT !.step = "name", !.name = None].step = "name"
      BY <1>1 DEF Entries, Steps
    <3> QED BY <1>1, <2>1, <2>2, <3>1, AskKeeps DEF Steps
  <2> QED BY <1>5, <1>15, <2>1, <2>2 DEF handleCreateConfirm, Steps
<1>16. CASE handleCreateEnter(s)
  BY <1>5, <1>16 DEF handleCreateEnter, Steps
<1>17. ASSUME NEW step \in Steps, NEW next \in Steps, step \notin {"site", "name"},
              Question(s, step, next)
       PROVE  Inv'
  BY <1>4, <1>5, <1>17 DEF Question
<1>18. CASE createPasswordUnfit(s)
  BY <1>4, <1>18 DEF createPasswordUnfit
<1>19. ASSUME Types', UNCHANGED <<actor, login, shown>>,
              \A t \in Sessions : proved[t] \subseteq proved'[t]
       PROVE  Inv'
  BY <1>1, <1>19, AnswerKeeps
<1>20. CASE createPasswordTooLate(s)
  <2>1. /\ Takes(s) /\ Reply(s, "text")
        /\ UNCHANGED <<actor, login, shown, ipFailures, players, proved>>
    BY <1>20 DEF createPasswordTooLate, At
  <2>2. Types'
    BY <1>1, <2>1, TakesType, DeliverFits DEF Inv, Types, TypeOK, Reply, conns, Texts
  <2> QED BY <1>19, <2>1, <2>2
<1>21. CASE handleCreatePasswordAfterHash(s)
  <2> DEFINE n == login[s].name
  <2>1. At(s, "newPassword") /\ n \in Names
    BY <1>2, <1>3, <1>21 DEF handleCreatePasswordAfterHash
  <2>2. sending = <<>> /\ s \in registered /\ lines' \in [Sessions -> 0 .. MaxLines]
    BY <2>1, TakesType DEF At, Inv
  <2>3. /\ players' = [players EXCEPT ![n] = "stored"]
        /\ proved' = [proved EXCEPT ![s] = @ \cup {n}]
        /\ UNCHANGED ipFailures
    BY <1>21 DEF handleCreatePasswordAfterHash
  <2>4. /\ players' \in [Names -> {"absent", "hashless", "stored"}]
        /\ proved' \in [Sessions -> SUBSET Names]
        /\ \A t \in Sessions : proved[t] \subseteq proved'[t]
    BY <2>1, <2>3 DEF Inv, Types, TypeOK
  <2>5. CASE Reply(s, "text") /\ UNCHANGED <<actor, login, shown>>
    <3>1. Types'
      BY <1>1, <2>2, <2>3, <2>4, <2>5, DeliverFits DEF Inv, Types, TypeOK, Reply, conns, Texts
    <3> QED BY <1>19, <2>4, <2>5, <3>1
  <2>6. CASE /\ BindActor(s, n) /\ UNCHANGED commands
             /\ sending' = SetToSeq({[to |-> t, what |-> "text"] : t \in registered})
                             \o <<[to |-> s, what |-> "text"]>>
    <3>1. sending' \in Seq([to : Sessions, what : Texts])
      BY <2>6, BroadcastType DEF Inv
    <3>2. commands' \in [Sessions -> Seq(Texts)] /\ \A t \in Sessions : Len(commands'[t]) <= ChanCap
      BY <2>6 DEF Inv, Types, TypeOK
    <3> HIDE DEF n
    <3> QED BY <1>1, <2>1, <2>2, <2>3, <2>4, <2>6, <3>1, <3>2, BindKeeps
  <2> QED BY <1>21, <2>5, <2>6 DEF handleCreatePasswordAfterHash
<1>22. CASE PlayLine(s)
  <2>1. /\ Takes(s) /\ \E what \in Texts : Reply(s, what)
        /\ UNCHANGED <<actor, login, shown, ipFailures, players, proved>>
    BY <1>22 DEF PlayLine, Texts
  <2>2. Types'
    BY <1>1, <2>1, TakesType, DeliverFits DEF Inv, Types, TypeOK, Reply, conns
  <2> QED BY <1>19, <2>1, <2>2
<1>23. CASE DustPlayer(s)
  <2>1. /\ Takes(s) /\ Reply(s, "close") /\ actor[s] \in Names
        /\ players' = [players EXCEPT ![actor[s]] = "absent"]
        /\ UNCHANGED <<actor, login, shown, ipFailures, proved>>
    BY <1>23 DEF DustPlayer, Inv, Types, TypeOK
  <2>2. Types'
    BY <1>1, <2>1, TakesType, DeliverFits DEF Inv, Types, TypeOK, Reply, conns, Texts
  <2> QED BY <1>19, <2>1, <2>2
<1> QED
  BY <1>9, <1>10, <1>11, <1>12, <1>13, <1>14, <1>15, <1>16, <1>17, <1>18, <1>20, <1>21, <1>22,
     <1>23
  DEF HandleLine, handleCreateGender, handleCreateClass, handleCreateStats, handleCreateWeapon,
      handleCreateAlignment, handleCreateRace, Steps

-----------------------------------------------------------------------------
(* The connections. *)

\* A connection begins, is counted, denied or registered, and its session ends
\* and returns: the counters follow.
LEMMA ConnectionSteps ==
    ASSUME Inv,
           \/ CountTotal \/ Deny \/ Register
           \/ \E s \in Sessions : Count(s) \/ Write(s) \/ HangUp(s) \/ RunReturns(s)
    PROVE  /\ Connections'
           /\ activeConns' \in 0 .. maxTotalConns /\ ipConns' \in [Hosts -> 0 .. maxIPConns]
<1> USE DEF Inv
<1>1. /\ activeConns = Cardinality(Open) /\ IsFiniteSet(Open)
      /\ \A h \in Hosts : ipConns[h] = Cardinality(From(h)) /\ IsFiniteSet(From(h))
  BY DEF Connections
<1>2. ipConns \in [Hosts -> 0 .. maxIPConns] /\ activeConns \in 0 .. maxTotalConns
  BY DEF Types, TypeOK
<1>3. accepting /= None =>
          /\ accepting \in [session : Sessions, counted : BOOLEAN]
          /\ phase[accepting.session] = "new"
          /\ ~accepting.counted => activeConns < maxTotalConns
  BY DEF Types, TypeOK, Connections
<1>4. \A s \in Sessions, c \in BOOLEAN :
          /\ [session |-> s, counted |-> c] /= None
          /\ [session |-> s, counted |-> c] \in [session : Sessions, counted : BOOLEAN]
  BY LoginAssumption
<1>5. ASSUME NEW s \in Sessions, Count(s) PROVE Connections' /\ activeConns' \in 0 .. maxTotalConns
                                                /\ ipConns' \in [Hosts -> 0 .. maxIPConns]
  <2>1. /\ accepting = None /\ phase[s] = "new" /\ accepting' = [session |-> s, counted |-> FALSE]
        /\ ipConns' = [ipConns EXCEPT ![HostOf[s]] = @ + 1]
        /\ ipConns[HostOf[s]] < maxIPConns /\ activeConns < maxTotalConns
        /\ phase' = phase /\ activeConns' = activeConns
    BY <1>5 DEF Count, net
  <2>2. accepting' /= None /\ accepting'.session = s /\ ~accepting'.counted
    BY <2>1, <1>4
  <2>3. Open' = Open
    BY <2>1, <2>2 DEF Open, Whole, Half, Counting
  <2>4. \A h \in Hosts : From(h)' = IF h = HostOf[s] THEN From(h) \cup {s} ELSE From(h)
    BY <2>1, <2>2 DEF From, Half, Counting
  <2>5. s \notin From(HostOf[s]) /\ HostOf[s] \in Hosts
    BY <2>1, LoginAssumption DEF From, Half, Counting
  <2>6. \A h \in Hosts : ipConns'[h] = Cardinality(From(h)') /\ IsFiniteSet(From(h)')
    BY <1>1, <1>2, <2>1, <2>4, <2>5, FS_AddElement
  <2>7. ipConns' \in [Hosts -> 0 .. maxIPConns]
    BY <1>2, <2>1, <2>5, LoginAssumption
  <2> QED BY <1>1, <1>2, <2>1, <2>2, <2>3, <2>6, <2>7 DEF Connections
<1>6. CASE CountTotal
  <2> DEFINE s == accepting.session
  <2>1. /\ accepting /= None /\ ~accepting.counted /\ accepting' = [accepting EXCEPT !.counted = TRUE]
        /\ activeConns' = activeConns + 1 /\ phase' = phase /\ ipConns' = ipConns
    BY <1>6 DEF CountTotal, net
  <2>2. s \in Sessions /\ phase[s] = "new" /\ activeConns < maxTotalConns
    BY <1>3, <2>1
  <2>3. accepting' = [session |-> s, counted |-> TRUE]
    BY <1>3, <2>1
  <2>4. accepting' /= None /\ accepting'.session = s /\ accepting'.counted
    BY <2>2, <2>3, <1>4
  <2>5. Open' = Open \cup {s} /\ s \notin Open
    BY <2>1, <2>2, <2>4 DEF Open, Whole, Half, Counting
  <2>6. \A h \in Hosts : From(h)' = From(h)
    BY <2>1, <2>2, <2>4 DEF From, Half, Counting
  <2> HIDE DEF s
  <2>7. activeConns' = Cardinality(Open') /\ IsFiniteSet(Open')
    BY <1>1, <2>1, <2>5, FS_AddElement
  <2>8. activeConns' \in 0 .. maxTotalConns
    BY <1>2, <2>1, <2>2, LoginAssumption
  <2> QED BY <1>1, <1>2, <2>1, <2>2, <2>4, <2>6, <2>7, <2>8 DEF Connections
<1>7. ASSUME NEW s \in Sessions, Uncount(s), s \in Open, s \in From(HostOf[s]), accepting' = None,
             Open' = Open \ {s},
             \A h \in Hosts : From(h)' = IF h = HostOf[s] THEN From(h) \ {s} ELSE From(h)
      PROVE  Connections' /\ activeConns' \in 0 .. maxTotalConns
             /\ ipConns' \in [Hosts -> 0 .. maxIPConns]
  <2>1. activeConns' = activeConns - 1 /\ ipConns' = [ipConns EXCEPT ![HostOf[s]] = @ - 1]
    BY <1>7 DEF Uncount
  <2>2. HostOf[s] \in Hosts
    BY LoginAssumption
  <2>3. activeConns' = Cardinality(Open') /\ IsFiniteSet(Open') /\ Cardinality(Open') \in Nat
    BY <1>1, <1>2, <1>7, <2>1, FS_RemoveElement, FS_CardinalityType
  <2>4. \A h \in Hosts : ipConns'[h] = Cardinality(From(h)') /\ IsFiniteSet(From(h)')
    BY <1>1, <1>2, <1>7, <2>1, <2>2, FS_RemoveElement
  <2>5. \A h \in Hosts : ipConns'[h] \in Nat
    BY <2>4, FS_CardinalityType
  <2>6. ipConns' \in [Hosts -> 0 .. maxIPConns]
    BY <1>2, <2>1, <2>2, <2>5, LoginAssumption
  <2> QED BY <1>2, <1>7, <2>1, <2>3, <2>4, <2>6, LoginAssumption DEF Connections
<1>8. CASE Deny
  <2> DEFINE s == accepting.session
  <2>1. /\ accepting /= None /\ accepting.counted /\ accepting' = None /\ Uncount(s)
        /\ phase' = [phase EXCEPT ![s] = "over"]
    BY <1>8 DEF Deny
  <2>2. s \in Sessions /\ phase[s] = "new" /\ Whole(s)
    BY <1>3, <2>1 DEF Whole, Half
  <2>3. phase' \in [Sessions -> {"new", "running", "ended", "over"}] /\ phase'[s] = "over"
    BY <2>1, <2>2 DEF Types, TypeOK
  <2>4. \A t \in Sessions : t /= s => phase'[t] = phase[t] /\ ~Half(t)
    BY <2>1, <2>2 DEF Half, Types, TypeOK
  <2>5. s \in Open /\ s \in From(HostOf[s])
    BY <2>2 DEF Open, From, Whole
  <2>6. \A t \in Sessions : /\ t \in Open' <=> t \in Open \ {s}
                            /\ \A h \in Hosts : t \in From(h)' <=> t \in From(h) \ {s}
    BY <2>1, <2>2, <2>3, <2>4 DEF Open, From, Whole, Half, Counting
  <2>7. Open' = Open \ {s}
    BY <2>6 DEF Open
  <2>8. \A h \in Hosts : From(h)' = IF h = HostOf[s] THEN From(h) \ {s} ELSE From(h)
    BY <2>6 DEF From
  <2> HIDE DEF s
  <2> QED BY <1>7, <2>1, <2>2, <2>5, <2>7, <2>8
<1>9. CASE Register
  <2> DEFINE s == accepting.session
  <2>1. /\ accepting /= None /\ accepting.counted /\ accepting' = None
        /\ phase' = [phase EXCEPT ![s] = "running"] /\ UNCHANGED <<activeConns, ipConns>>
    BY <1>9 DEF Register
  <2>2. s \in Sessions /\ phase[s] = "new" /\ Whole(s)
    BY <1>3, <2>1 DEF Whole, Half
  <2>3. phase'[s] = "running" /\ \A t \in Sessions : t /= s => phase'[t] = phase[t] /\ ~Half(t)
    BY <2>1, <2>2 DEF Half, Types, TypeOK
  <2>4. \A t \in Sessions : /\ t \in Open' <=> t \in Open
                            /\ \A h \in Hosts : t \in From(h)' <=> t \in From(h)
    BY <2>1, <2>2, <2>3 DEF Open, From, Whole, Half, Counting
  <2>5. Open' = Open /\ \A h \in Hosts : From(h)' = From(h)
    BY <2>4 DEF Open, From
  <2> QED BY <1>1, <1>2, <2>1, <2>5 DEF Connections
<1>10. ASSUME NEW s \in Sessions, Write(s) \/ HangUp(s) PROVE Connections' /\ activeConns' \in 0 .. maxTotalConns
                                                              /\ ipConns' \in [Hosts -> 0 .. maxIPConns]
  <2>1. /\ phase[s] = "running" /\ phase' \in {phase, [phase EXCEPT ![s] = "ended"]}
        /\ UNCHANGED <<accepting, activeConns, ipConns>>
    BY <1>10 DEF Write, HangUp, conns
  <2>2. \A t \in Sessions : Counting(t)' = Counting(t) /\ (phase[t] = "new" => phase'[t] = "new")
    BY <2>1 DEF Counting, Types, TypeOK
  <2>3. \A t \in Sessions : Half(t)' = Half(t) /\ Whole(t)' = Whole(t)
    BY <2>1 DEF Half, Whole
  <2>4. Open' = Open /\ \A h \in Hosts : From(h)' = From(h)
    BY <2>2, <2>3 DEF Open, From
  <2> QED BY <1>1, <1>2, <1>3, <2>1, <2>2, <2>4 DEF Connections
<1>11. ASSUME NEW s \in Sessions, RunReturns(s) PROVE Connections' /\ activeConns' \in 0 .. maxTotalConns
                                                      /\ ipConns' \in [Hosts -> 0 .. maxIPConns]
  <2>1. /\ phase[s] = "ended" /\ phase' = [phase EXCEPT ![s] = "over"] /\ Uncount(s)
        /\ accepting' = accepting
    BY <1>11 DEF RunReturns
  <2>2. phase'[s] = "over" /\ \A t \in Sessions : t /= s => phase'[t] = phase[t]
    BY <2>1 DEF Types, TypeOK
  <2>3. ~Half(s) /\ ~Whole(s) /\ Counting(s) /\ ~Counting(s)'
    BY <1>3, <2>1, <2>2 DEF Half, Whole, Counting
  <2>4. \A t \in Sessions : /\ Half(t)' = Half(t) /\ Whole(t)' = Whole(t)
                            /\ t /= s => Counting(t)' = Counting(t)
    BY <2>1, <2>2 DEF Half, Whole, Counting
  <2>5. s \in Open /\ s \in From(HostOf[s])
    BY <2>3 DEF Open, From
  <2>6. \A t \in Sessions : /\ t \in Open' <=> t \in Open \ {s}
                            /\ \A h \in Hosts : t \in From(h)' <=> t \in From(h) \ {s}
    BY <2>3, <2>4 DEF Open, From
  <2>7. Open' = Open \ {s} /\ \A h \in Hosts : From(h)' = From(h) \ {s}
    BY <2>6 DEF Open, From
  <2>8. \A h \in Hosts : h /= HostOf[s] => s \notin From(h)
    BY DEF From
  <2>9. activeConns' = activeConns - 1 /\ ipConns' = [ipConns EXCEPT ![HostOf[s]] = @ - 1]
        /\ HostOf[s] \in Hosts
    BY <2>1, LoginAssumption DEF Uncount
  <2>10. \A h \in Hosts : ipConns'[h] = Cardinality(From(h)') /\ IsFiniteSet(From(h)')
                          /\ Cardinality(From(h)') \in Nat
    BY <1>1, <1>2, <2>5, <2>7, <2>8, <2>9, FS_RemoveElement, FS_CardinalityType
  <2>11. /\ activeConns' = Cardinality(Open') /\ IsFiniteSet(Open') /\ Cardinality(Open') \in Nat
    BY <1>1, <1>2, <2>5, <2>7, <2>9, FS_RemoveElement, FS_CardinalityType
  <2>12. /\ activeConns' \in 0 .. maxTotalConns /\ activeConns' < activeConns
         /\ ipConns' \in [Hosts -> 0 .. maxIPConns]
    BY <1>2, <2>9, <2>10, <2>11, LoginAssumption
  <2>13. accepting' /= None => /\ phase'[accepting'.session] = "new"
                               /\ ~accepting'.counted => activeConns' < maxTotalConns
    <3>1. ASSUME accepting /= None
          PROVE  accepting.session /= s /\ accepting.session \in Sessions
      BY <1>3, <2>1, <3>1
    <3> QED BY <1>2, <1>3, <2>1, <2>2, <2>12, <3>1, LoginAssumption
  <2> QED BY <2>10, <2>11, <2>12, <2>13 DEF Connections
<1> QED BY <1>5, <1>6, <1>8, <1>9, <1>10, <1>11

\* The other parts of the invariant survive the connections' steps.
LEMMA ConnectionStepsKeep ==
    ASSUME Inv,
           \/ CountTotal \/ Deny \/ Register
           \/ \E s \in Sessions : Count(s) \/ Write(s) \/ HangUp(s) \/ RunReturns(s)
    PROVE  Inv'
<1> USE DEF Inv
<1>1. /\ Connections'
      /\ activeConns' \in 0 .. maxTotalConns /\ ipConns' \in [Hosts -> 0 .. maxIPConns]
  BY ConnectionSteps
<1>2. ASSUME accepting /= None
      PROVE  /\ accepting \in [session : Sessions, counted : BOOLEAN]
             /\ accepting.session \in Sessions /\ phase[accepting.session] = "new"
             /\ [accepting EXCEPT !.counted = TRUE] \in [session : Sessions, counted : BOOLEAN]
  BY <1>2 DEF Types, TypeOK, Connections
<1>3. ASSUME Types', UNCHANGED <<registered, actor, login, shown, proved>>,
             \A s \in Sessions : phase'[s] = "new" => phase[s] = "new"
      PROVE  Inv'
  BY <1>1, <1>3 DEF Lives, Life, KnowsPassword
<1>4. ASSUME NEW s \in Sessions, Count(s) PROVE Inv'
  <2>1. Types'
    BY <1>1, <1>4 DEF Count, Types, TypeOK, net
  <2> QED BY <1>3, <1>4, <2>1 DEF Count, net
<1>5. CASE CountTotal
  <2>1. Types'
    BY <1>1, <1>2, <1>5 DEF CountTotal, Types, TypeOK, net
  <2> QED BY <1>3, <1>5, <2>1 DEF CountTotal, net
<1>6. CASE Deny
  <2>1. Types'
    BY <1>1, <1>2, <1>6 DEF Deny, Types, TypeOK
  <2> QED BY <1>2, <1>3, <1>6, <2>1 DEF Deny, Types, TypeOK
<1>7. CASE Register
  <2> DEFINE s == accepting.session
             step == IF HostOf[s] \in WithPassword THEN "site" ELSE "name"
             entry == Entry(step, None, HostOf[s])
  <2>1. /\ accepting /= None /\ accepting' = None
        /\ registered' = registered \cup {s} /\ login' = [login EXCEPT ![s] = entry]
        /\ shown' = [shown EXCEPT ![s] = step] /\ phase' = [phase EXCEPT ![s] = "running"]
        /\ commands' = [commands EXCEPT ![s] = <<"text">>]
        /\ UNCHANGED <<lines, activeConns, ipConns, actor, ipFailures, players, sending, proved>>
    BY <1>7 DEF Register
  <2>2. s \in Sessions /\ phase[s] = "new"
    BY <1>2, <2>1
  <2>3. entry \in Entries /\ entry.step \in {"site", "name"} /\ step \in Steps /\ step /= "game"
    BY <2>2, LoginAssumption DEF Entry, Entries, Steps
  <2>4. <<"text">> \in Seq(Texts) /\ Len(<<"text">>) <= ChanCap
    BY LoginAssumption DEF Texts
  <2> HIDE DEF s, step, entry
  <2>5. Types'
    BY <1>1, <2>1, <2>2, <2>3, <2>4 DEF Types, TypeOK, Entries
  <2>6. IsFiniteSet(registered')
    BY <2>1, FS_AddElement DEF Lives
  <2>7. actor[s] = None
    BY <2>2 DEF Lives, Life
  <2>8. ASSUME NEW t \in Sessions PROVE Life(t)'
    BY <2>1, <2>2, <2>3, <2>7 DEF Types, TypeOK, Lives, Life
  <2> QED BY <1>1, <2>1, <2>5, <2>6, <2>8 DEF Lives, KnowsPassword
<1>8. ASSUME NEW s \in Sessions, Write(s) PROVE Inv'
  <2>1. Tail(commands[s]) \in Seq(Texts) /\ Len(Tail(commands[s])) <= ChanCap
    <3>1. commands[s] \in Seq(Texts) /\ commands[s] /= <<>> /\ Len(commands[s]) <= ChanCap
      BY <1>8 DEF Types, TypeOK, Write
    <3> QED BY <3>1, HeadTailProperties, LoginAssumption
  <2>2. phase' \in {phase, [phase EXCEPT ![s] = "ended"]}
    BY <1>8 DEF Write
  <2>3. Types'
    BY <1>8, <2>1, <2>2 DEF Write, Types, TypeOK, conns
  <2>4. \A t \in Sessions : phase'[t] = "new" => phase[t] = "new"
    BY <2>2 DEF Types, TypeOK
  <2> QED BY <1>3, <1>8, <2>3, <2>4 DEF Write
<1>9. ASSUME NEW s \in Sessions, HangUp(s) PROVE Inv'
  <2>1. Types'
    BY <1>9 DEF HangUp, Types, TypeOK, conns
  <2>2. \A t \in Sessions : phase'[t] = "new" => phase[t] = "new"
    BY <1>9 DEF HangUp, Types, TypeOK
  <2> QED BY <1>3, <1>9, <2>1, <2>2 DEF HangUp
<1>10. ASSUME NEW s \in Sessions, RunReturns(s) PROVE Inv'
  <2>1. Types'
    BY <1>1, <1>10 DEF RunReturns, Types, TypeOK
  <2>2. \A t \in Sessions : phase'[t] = "new" => phase[t] = "new"
    BY <1>10 DEF RunReturns, Types, TypeOK
  <2> QED BY <1>3, <1>10, <2>1, <2>2 DEF RunReturns
<1> QED BY <1>4, <1>5, <1>6, <1>7, <1>8, <1>9, <1>10

-----------------------------------------------------------------------------
(* The theorems *)

\* The invariant holds before anyone connects.
LEMMA InitInv == Init => Inv
<1> SUFFICES ASSUME Init PROVE Inv
  OBVIOUS
<1> USE LoginAssumption
<1>1. NoEntry \in Entries /\ NoEntry.step = "site"
  BY DEF NoEntry, Entry, Entries, Steps
<1>2. players \in [Names -> {"absent", "hashless", "stored"}]
  BY DEF Init
<1>3. Types
  BY <1>1, <1>2 DEF Init, Types, TypeOK, Entries
<1>4. Open = {} /\ \A h \in Hosts : From(h) = {}
  BY DEF Init, Open, From, Whole, Half, Counting
<1>5. Connections
  BY <1>4, FS_EmptySet DEF Connections, Init
<1>6. Lives /\ KnowsPassword
  BY <1>1, FS_EmptySet DEF Init, Lives, Life, KnowsPassword
<1> QED BY <1>3, <1>5, <1>6 DEF Inv

\* Every step keeps the invariant.
LEMMA StepInv == Inv /\ [Next]_vars => Inv'
<1> SUFFICES ASSUME Inv, [Next]_vars PROVE Inv'
  OBVIOUS
<1>1. CASE CountTotal \/ Deny \/ Register
  BY <1>1, ConnectionStepsKeep
<1>2. ASSUME NEW s \in Sessions, Count(s) \/ Write(s) \/ HangUp(s) \/ RunReturns(s) PROVE Inv'
  BY <1>2, ConnectionStepsKeep
<1>3. CASE SendCommand
  <2> DEFINE to == Head(sending).to
  <2>1. /\ sending /= <<>> /\ sending' = Tail(sending) /\ Len(commands[to]) < ChanCap
        /\ commands' = [commands EXCEPT ![to] = Append(@, Head(sending).what)]
        /\ UNCHANGED <<net, conns, registered, actor, login, shown, ipFailures, players, proved>>
    BY <1>3 DEF SendCommand
  <2>2. /\ Head(sending) \in [to : Sessions, what : Texts]
        /\ Tail(sending) \in Seq([to : Sessions, what : Texts])
    BY <2>1, HeadTailProperties DEF Inv, Types, TypeOK
  <2>3. /\ Append(commands[to], Head(sending).what) \in Seq(Texts)
        /\ Len(Append(commands[to], Head(sending).what)) <= ChanCap
    <3>1. commands[to] \in Seq(Texts) /\ Len(commands[to]) \in Nat /\ Head(sending).what \in Texts
      BY <2>2, LenProperties DEF Inv, Types, TypeOK
    <3> HIDE DEF to
    <3>2. /\ Append(commands[to], Head(sending).what) \in Seq(Texts)
          /\ Len(Append(commands[to], Head(sending).what)) = Len(commands[to]) + 1
      BY <3>1, AppendProperties
    <3> QED BY <2>1, <3>1, <3>2, LoginAssumption
  <2> HIDE DEF to
  <2>4. Types'
    BY <2>1, <2>2, <2>3 DEF Inv, Types, TypeOK, net, conns
  <2> QED BY <2>1, <2>4, AnswerKeeps DEF net
<1>4. ASSUME NEW s \in Sessions, Read(s) PROVE Inv'
  <2>1. lines[s] + 1 \in 0 .. MaxLines
    BY <1>4, LoginAssumption DEF Read, Inv, Types, TypeOK
  <2>2. Types'
    BY <1>4, <2>1 DEF Read, Inv, Types, TypeOK, conns
  <2> QED BY <1>4, <2>2, AnswerKeeps DEF Read
<1>5. ASSUME NEW s \in Sessions, UnregisterSession(s) PROVE Inv'
  <2>1. Types'
    BY <1>5 DEF UnregisterSession, Inv, Types, TypeOK, net, conns
  <2>2. Connections' /\ KnowsPassword'
    BY <1>5, ConnectionsStay DEF UnregisterSession, Inv, Types, TypeOK, net, KnowsPassword
  <2>3. IsFiniteSet(registered')
    BY <1>5, FS_RemoveElement DEF UnregisterSession, Inv, Lives
  <2>4. ASSUME NEW t \in Sessions PROVE Life(t)'
    BY <1>5 DEF UnregisterSession, net, Inv, Types, TypeOK, Lives, Life
  <2> QED BY <2>1, <2>2, <2>3, <2>4 DEF Inv, Lives
<1>6. ASSUME NEW s \in Sessions, HandleLine(s) PROVE Inv'
  BY <1>6, HandlersKeep
<1>7. ASSUME NEW s \in Sessions, Chatter(s) PROVE Inv'
  <2>1. PICK what \in Texts : commands' = [commands EXCEPT ![s] = Offer(@, what)]
    BY <1>7 DEF Chatter, Texts
  <2>2. Offer(commands[s], what) \in Seq(Texts) /\ Len(Offer(commands[s], what)) <= ChanCap
    BY OfferFits DEF Inv, Types, TypeOK
  <2>3. Types'
    BY <1>7, <2>1, <2>2 DEF Chatter, Inv, Types, TypeOK, net, conns
  <2> QED BY <1>7, <2>3, AnswerKeeps DEF Chatter, net
<1>8. ASSUME NEW h \in Hosts, cleanupIPFailures(h) PROVE Inv'
  <2>1. 0 \in 0 .. BlockAfter - 1
    BY LoginAssumption
  <2>2. Types'
    BY <1>8, <2>1 DEF cleanupIPFailures, Inv, Types, TypeOK, net, conns
  <2> QED BY <1>8, <2>2, AnswerKeeps DEF cleanupIPFailures, net
<1>9. CASE UNCHANGED vars
  <2>1. Types'
    BY <1>9 DEF vars, net, conns, Inv, Types, TypeOK
  <2> QED BY <1>9, <2>1, AnswerKeeps DEF vars, net, conns
<1> QED BY <1>1, <1>2, <1>3, <1>4, <1>5, <1>6, <1>7, <1>8, <1>9 DEF Next

\* The inductive invariant behind all that follows.
THEOREM LoginInvariant == Spec => []Inv
<1> QED BY InitInv, StepInv, PTL DEF Spec

\* Every variable stays in its type, along every path of a connection and of a
\* login.
THEOREM LoginTypes == Spec => []TypeOK
<1>1. Inv => TypeOK
  BY DEF Inv, Types
<1> QED BY <1>1, LoginInvariant, PTL

\* activeConns and ipConns are the connections there are, whether a connection is
\* denied, refused, hung up, or closed by the server.
THEOREM CountersAreTrue == Spec => []CountersMatch
<1>1. Inv => CountersMatch
  BY CountersByName DEF Inv
<1> QED BY <1>1, LoginInvariant, PTL

\* Nobody is bound to a character without its password having been verified or
\* set in the same session.
THEOREM PlayersKnowPassword == Spec => []KnowsPassword
<1>1. Inv => KnowsPassword
  BY DEF Inv
<1> QED BY <1>1, LoginInvariant, PTL

-----------------------------------------------------------------------------
(* Logging in implements Presence. *)

\* A step after which everybody plays what they played, and as many accounts
\* exist, is a stutter.
LEMMA NobodyMoves ==
    ASSUME UNCHANGED <<actor, players>>,
           \A t \in Sessions : shown'[t] = "game" <=> shown[t] = "game"
    PROVE  UNCHANGED P!vars
BY DEF P!vars

\* What a session is asked or told before it plays is a stutter.
LEMMA QuestionStutters ==
    ASSUME Inv, NEW s \in Sessions, NEW step, At(s, step),
           \/ Refuse(s)
           \/ \E entry, prompt : prompt /= "game" /\ Ask(s, entry, prompt)
    PROVE  UNCHANGED P!vars
<1>1. s \in registered /\ actor[s] = None
  BY DEF At, Takes
<1>2. shown[s] /= "game"
  BY <1>1 DEF Inv, Lives, Life
<1>3. UNCHANGED <<actor, players>>
  BY DEF Refuse, Ask
<1>4. \A t \in Sessions : shown'[t] = "game" <=> shown[t] = "game"
  BY <1>2 DEF Refuse, Ask, Inv, Types, TypeOK
<1> QED BY <1>3, <1>4, NobodyMoves

\* Handling a line is a step of Presence or a stutter.
LEMMA HandlersImplement ==
    ASSUME Inv, NEW s \in Sessions, HandleLine(s)
    PROVE  [P!Next]_(P!vars)
<1>1. ASSUME NEW step, At(s, step), Stays(s) PROVE UNCHANGED P!vars
  <2>1. login[s].step \in Steps /\ login[s].step /= "game"
    BY DEF Inv, Types, TypeOK, Steps
  <2> QED BY <1>1, <2>1, QuestionStutters DEF Stays
<1>2. ASSUME NEW step, At(s, step), NEW next \in Steps, Goes(s, next) PROVE UNCHANGED P!vars
  BY <1>2, QuestionStutters DEF Goes, Steps
<1>3. CASE passwordVerified(s)
  <2>0. PICK n \in Names : n = login[s].name
    BY <1>3 DEF passwordVerified, At, Inv, Lives, Life
  <2>1. /\ At(s, "password") /\ players[n] = "stored" /\ players' = players
        /\ actor' = [actor EXCEPT ![s] = n] /\ shown' = [shown EXCEPT ![s] = "game"]
    BY <1>3, <2>0 DEF passwordVerified, BindActor
  <2>2. s \in registered /\ actor[s] = None
    BY <2>1 DEF At, Takes
  <2>3. shown[s] /= "game"
    BY <2>2 DEF Inv, Lives, Life
  <2>4. {t \in Sessions : shown'[t] = "game"} = {t \in Sessions : shown[t] = "game"} \cup {s}
    BY <2>1 DEF Inv, Types, TypeOK
  <2>5. P!SignIn(s, n)
    BY <2>1, <2>2, <2>3, <2>4 DEF P!SignIn
  <2> QED BY <2>2, <2>5 DEF P!Next
<1>4. CASE handleCreatePasswordAfterHash(s)
  <2>0. PICK n \in Names : n = login[s].name
    BY <1>4 DEF handleCreatePasswordAfterHash, At, Inv, Lives, Life
  <2>1. /\ At(s, "newPassword") /\ players[n] = "absent" /\ players' = [players EXCEPT ![n] = "stored"]
        /\ \/ UNCHANGED <<actor, shown>>
           \/ actor' = [actor EXCEPT ![s] = n] /\ shown' = [shown EXCEPT ![s] = "game"]
    BY <1>4, <2>0 DEF handleCreatePasswordAfterHash, CanCreate, BindActor
  <2>2. s \in registered /\ actor[s] = None
    BY <2>1 DEF At, Takes
  <2>3. shown[s] /= "game"
    BY <2>2 DEF Inv, Lives, Life
  <2>4. shown' = [shown EXCEPT ![s] = "game"]
            => {t \in Sessions : shown'[t] = "game"} = {t \in Sessions : shown[t] = "game"} \cup {s}
    BY DEF Inv, Types, TypeOK
  <2>5. {m \in Names : players'[m] /= "absent"} = {m \in Names : players[m] /= "absent"} \cup {n}
    BY <2>1, <2>2 DEF Inv, Types, TypeOK
  <2>6. P!SignUp(s, n)
    BY <2>1, <2>2, <2>3, <2>4, <2>5 DEF P!SignUp
  <2> QED BY <2>2, <2>6 DEF P!Next
<1>5. CASE DustPlayer(s)
  <2>0. PICK n \in Names : n = actor[s]
    BY <1>5 DEF DustPlayer, Inv, Types, TypeOK
  <2>1. players' = [players EXCEPT ![n] = "absent"] /\ UNCHANGED <<actor, shown>>
    BY <1>5, <2>0 DEF DustPlayer
  <2>2. {m \in Names : players'[m] /= "absent"} = {m \in Names : players[m] /= "absent"} \ {n}
    BY <2>1 DEF Inv, Types, TypeOK
  <2>3. P!Delete(n)
    BY <2>0, <2>1, <2>2 DEF P!Delete
  <2> QED BY <2>1, <2>3 DEF P!Next
<1>6. CASE PlayLine(s) \/ createPasswordTooLate(s)
  BY <1>6, NobodyMoves DEF PlayLine, createPasswordTooLate
<1>7. CASE handleSitePassword(s) \/ handleName(s) \/ passwordWhileBlocked(s) \/ passwordPlayerGone(s)
           \/ passwordWrong(s) \/ handleCreateConfirm(s)
  <2>1. \A n \in Names : players[n] \in {"absent", "hashless", "stored"}
    BY DEF Inv, Types, TypeOK
  <2> QED
    BY <1>1, <1>2, <1>7, <2>1, QuestionStutters
    DEF handleSitePassword, handleName, passwordWhileBlocked, passwordPlayerGone, passwordWrong,
        handleCreateConfirm, Steps
<1>8. ASSUME NEW step, NEW next \in Steps, Question(s, step, next) PROVE UNCHANGED P!vars
  BY <1>1, <1>2, <1>8 DEF Question
<1> QED
  BY <1>1, <1>2, <1>3, <1>4, <1>5, <1>6, <1>7, <1>8
  DEF HandleLine, handleCreateEnter, handleCreateGender, handleCreateClass, handleCreateStats,
      handleCreateWeapon, handleCreateAlignment, handleCreateRace, createPasswordUnfit, Steps

\* Every step of a login is a step of Presence or a stutter.
LEMMA StepImplements == Inv /\ [Next]_vars => [P!Next]_(P!vars)
<1> SUFFICES ASSUME Inv, [Next]_vars PROVE [P!Next]_(P!vars)
  OBVIOUS
<1>1. CASE Register
  <2>1. /\ accepting.session \in Sessions /\ shown[accepting.session] /= "game"
        /\ UNCHANGED <<actor, players>>
    BY <1>1 DEF Register, Inv, Types, TypeOK, Connections, Lives, Life
  <2>2. shown' = [shown EXCEPT ![accepting.session] =
                      IF HostOf[accepting.session] \in WithPassword THEN "site" ELSE "name"]
    BY <1>1 DEF Register
  <2>3. \A t \in Sessions : shown'[t] = "game" <=> shown[t] = "game"
    BY <2>1, <2>2 DEF Inv, Types, TypeOK
  <2> QED BY <2>1, <2>3, NobodyMoves
<1>2. ASSUME NEW s \in Sessions, UnregisterSession(s) PROVE [P!Next]_(P!vars)
  <2>1. actor' = [actor EXCEPT ![s] = None] /\ UNCHANGED <<shown, players>>
    BY <1>2 DEF UnregisterSession
  <2>2. CASE actor[s] = None
    <3>1. actor' = actor
      BY <2>1, <2>2 DEF Inv, Types, TypeOK
    <3> QED BY <2>1, <3>1, NobodyMoves
  <2>3. CASE actor[s] /= None
    <3>1. P!SignOut(s)
      BY <2>1, <2>3 DEF P!SignOut
    <3> QED BY <3>1 DEF P!Next
  <2> QED BY <2>2, <2>3
<1>3. CASE CountTotal \/ Deny \/ SendCommand \/ UNCHANGED vars
  BY <1>3, NobodyMoves DEF CountTotal, Deny, SendCommand, vars
<1>4. ASSUME NEW s \in Sessions,
             Count(s) \/ Read(s) \/ Write(s) \/ HangUp(s) \/ RunReturns(s) \/ Chatter(s)
      PROVE  UNCHANGED P!vars
  BY <1>4, NobodyMoves DEF Count, Read, Write, HangUp, RunReturns, Chatter
<1>5. ASSUME NEW h \in Hosts, cleanupIPFailures(h) PROVE UNCHANGED P!vars
  BY <1>5, NobodyMoves DEF cleanupIPFailures
<1> QED BY <1>1, <1>2, <1>3, <1>4, <1>5, HandlersImplement DEF Next

\* A session signs in once, to a character that exists or that it makes, and two
\* sessions that ask for the same new name do not both get it.
THEOREM LoginImplementsPresence == Spec => PresenceSpec
<1>1. Init => P!Init
  BY DEF Init, P!Init
<1> QED BY <1>1, StepImplements, LoginInvariant, PTL DEF Spec, PresenceSpec, P!Spec
=============================================================================
