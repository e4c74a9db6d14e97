------------------------- MODULE SessionLoopProofs -------------------------
(***************************************************************************)
(* For any sessions and channel capacities: every session that ends has    *)
(* announced it, exactly once, and no session with an intact connection is *)
(* unregistered.                                                           *)
(***************************************************************************)
EXTENDS SessionLoop, FiniteSetTheorems, WellFoundedInduction, TLAPS

Labels == {"off", "reading", "emitLine", "emitError", "emitClosed",
           "emitClosedGoOn", "waiting", "writing", "done"}
Sends == [to : Sessions, cmd : {"text", "goodbye"}]

\* What closedEvent.Do has done: an end is announced inside it or, when the
\* server is stopping, perhaps not at all.
AnnouncedOnce ==
    \A s \in Sessions :
        /\ announced[s] \in {0, 1}
        /\ ~closedOnce[s] => announced[s] = 0
        /\ closedOnce[s] /\ ~stopping => announced[s] = 1

\* Whoever ended while the server runs has announced it before.
EndsAfterAnnouncing ==
    ~stopping => \A s \in Sessions :
        /\ cancelled[s] => run[s] \in {"waiting", "done"}
        /\ run[s] \in {"waiting", "done"} => closedOnce[s]
        /\ \A r \in Roles : pc[r][s] = "done" => closedOnce[s]

\* Only a connection that somebody left or closed makes the session emit a
\* farewell or leaves one in the events channel.
FarewellFrom(s) ==
    \E i \in 1 .. Len(events) : events[i] = Event(s, "closed") \/ events[i] = Event(s, "error")
Farewells ==
    \A s \in Sessions : conn[s] \in {"none", "open"} =>
        /\ \A r \in Roles : pc[r][s] \notin {"emitError", "emitClosed", "emitClosedGoOn"}
        /\ ~FarewellFrom(s)

\* Nothing runs for a connection that is not there yet.
NotYet ==
    /\ \A s \in Sessions :
         conn[s] = "none" => run[s] = "off" /\ \A r \in Roles : pc[r][s] = "off"
    /\ accepting # 0 => conn[accepting] # "none" /\ run[accepting] = "off"

Inv ==
    /\ TypeOK /\ IsFiniteSet(registered)
    /\ AnnouncedOnce /\ EndsAfterAnnouncing
    /\ Farewells /\ NotYet /\ ConnectedIsRegistered

-----------------------------------------------------------------------------
(* Recipients in order *)

\* Every nonempty set of naturals has a least element.
LEMMA LeastNatural ==
    ASSUME NEW T \in SUBSET Nat, T # {}
    PROVE  \E x \in T : \A y \in T : x <= y
<1>1. IsWellFoundedOn(OpToRel(<, Nat), Nat)
  BY NatLessThanWellFounded
<1>2. PICK x \in T : \A y \in T : ~(<<y, x>> \in OpToRel(<, Nat))
  BY <1>1, WFMin
<1>3. \A y \in T : ~(y < x)
  BY <1>2 DEF OpToRel
<1> QED BY <1>3

\* The enumerations InOrder chooses from.
Increasing(S) ==
    {q \in [1 .. Cardinality(S) -> S] : \A i, j \in DOMAIN q : i < j => q[i] < q[j]}

\* An enumeration of what is left when the least member is taken out, with that
\* member in front, is one of the whole set.
LEMMA PutInFront ==
    ASSUME NEW S \in SUBSET Nat, IsFiniteSet(S), NEW x \in S, \A y \in S : x <= y,
           NEW q \in Increasing(S \ {x})
    PROVE  Increasing(S) # {}
<1> DEFINE n == Cardinality(S)
           f == [i \in 1 .. n |-> IF i = 1 THEN x ELSE q[i - 1]]
<1>1. n \in Nat /\ Cardinality(S \ {x}) = n - 1
  BY FS_RemoveElement, FS_CardinalityType
<1>2. /\ q \in [1 .. n - 1 -> S \ {x}]
      /\ \A i, j \in 1 .. n - 1 : i < j => q[i] < q[j]
  BY <1>1 DEF Increasing
<1> HIDE DEF n
<1>3. \A i \in 1 .. n : i # 1 => i - 1 \in 1 .. n - 1
  BY <1>1
<1>4. f \in [1 .. n -> S]
  BY <1>2, <1>3
<1>5. \A i, j \in 1 .. n : i < j => f[i] < f[j]
  <2> SUFFICES ASSUME NEW i \in 1 .. n, NEW j \in 1 .. n, i < j PROVE f[i] < f[j]
    OBVIOUS
  <2>1. j # 1 /\ j - 1 \in 1 .. n - 1 /\ f[j] = q[j - 1] /\ f[j] \in S \ {x}
    BY <1>1, <1>2
  <2>2. CASE i = 1
    <3>1. f[i] = x
      BY <2>2
    <3>2. x \in Nat /\ f[j] \in Nat /\ x <= f[j] /\ x # f[j]
      BY <2>1
    <3> HIDE DEF f
    <3> QED BY <3>1, <3>2
  <2>3. CASE i # 1
    <3>1. i - 1 \in 1 .. n - 1 /\ f[i] = q[i - 1] /\ i - 1 < j - 1
      BY <1>1, <2>3
    <3> QED BY <1>2, <2>1, <3>1
  <2> QED BY <2>2, <2>3
<1>6. DOMAIN f = 1 .. n
  OBVIOUS
<1> HIDE DEF f
<1>7. f \in Increasing(S)
  BY <1>4, <1>5, <1>6 DEF Increasing, n
<1> QED BY <1>7

\* Every finite set of ids can be put in order: a smallest one that could not
\* would have a smaller one that cannot.
LEMMA OrderExists ==
    ASSUME NEW S \in SUBSET Nat, IsFiniteSet(S)
    PROVE  InOrder(S) \in Increasing(S)
<1> DEFINE Fails(U) == U \in SUBSET Nat /\ IsFiniteSet(U) /\ Increasing(U) = {}
           Sizes == {n \in Nat : \E U \in SUBSET Nat : Fails(U) /\ Cardinality(U) = n}
<1>1. Sizes = {}
  <2> SUFFICES ASSUME Sizes # {} PROVE FALSE
    OBVIOUS
  <2>1. PICK n \in Sizes : \A m \in Sizes : n <= m
    <3>1. Sizes \in SUBSET Nat
      OBVIOUS
    <3> HIDE DEF Sizes
    <3> QED BY <3>1, LeastNatural
  <2>2. PICK U \in SUBSET Nat : Fails(U) /\ Cardinality(U) = n
    OBVIOUS
  <2>3. U # {}
    <3> SUFFICES ASSUME U = {} PROVE FALSE
      OBVIOUS
    <3>1. Cardinality(U) = 0
      BY FS_EmptySet
    <3>2. [i \in 1 .. 0 |-> 0] \in Increasing(U)
      BY <3>1 DEF Increasing
    <3> QED BY <2>2, <3>2
  <2>4. PICK x \in U : \A y \in U : x <= y
    BY <2>3, LeastNatural
  <2>5. /\ IsFiniteSet(U \ {x}) /\ Cardinality(U \ {x}) = n - 1
        /\ Cardinality(U \ {x}) \in Nat
    BY <2>2, FS_RemoveElement, FS_CardinalityType
  <2>6. Increasing(U \ {x}) = {}
    BY <2>2, <2>4, PutInFront
  <2>7. n - 1 \in Sizes
    BY <2>5, <2>6
  <2> QED BY <2>1, <2>7
<1>2. Increasing(S) # {}
  <2>1. Cardinality(S) \in Nat
    BY FS_CardinalityType
  <2> QED BY <1>1, <2>1
<1> QED BY <1>2 DEF Increasing, InOrder

\* What handling a line may send has the type of the outbox.
LEMMA ResponseTypes ==
    ASSUME IsFiniteSet(registered), registered \in SUBSET Sessions, NEW s \in Sessions
    PROVE  Responses(s) \subseteq Seq(Sends)
<1> DEFINE S == registered \ {s}
<1>1. S \in SUBSET Nat /\ IsFiniteSet(S) /\ Cardinality(S) \in Nat
  BY SessionAssumption, FS_RemoveElement, FS_CardinalityType
<1>2. InOrder(S) \in [1 .. Cardinality(S) -> S]
  BY <1>1, OrderExists DEF Increasing
<1>3. TextTo(S) \in Seq(Sends)
  <2> DEFINE n == Cardinality(S)
             q == InOrder(S)
  <2>1. n \in Nat /\ q \in [1 .. n -> Sessions] /\ DOMAIN q = 1 .. n
    BY <1>1, <1>2
  <2>2. TextTo(S) = [i \in 1 .. n |-> [to |-> q[i], cmd |-> "text"]]
    BY <2>1 DEF TextTo
  <2> HIDE DEF n, q
  <2>3. [i \in 1 .. n |-> [to |-> q[i], cmd |-> "text"]] \in [1 .. n -> Sends]
    BY <2>1 DEF Sends
  <2> QED BY <2>1, <2>2, <2>3
<1>4. [to |-> s, cmd |-> "text"] \in Sends /\ [to |-> s, cmd |-> "goodbye"] \in Sends
  BY DEF Sends
<1> HIDE DEF S
<1> DEFINE text == [to |-> s, cmd |-> "text"]
           bye == [to |-> s, cmd |-> "goodbye"]
<1>5. Responses(s) = {<<>>, <<text>>, Append(TextTo(S), text), <<bye>>}
  BY DEF Responses, S
<1> HIDE DEF text, bye
<1>6. text \in Sends /\ bye \in Sends
  BY <1>4 DEF text, bye
<1>7. /\ <<>> \in Seq(Sends) /\ <<text>> \in Seq(Sends) /\ <<bye>> \in Seq(Sends)
      /\ Append(TextTo(S), text) \in Seq(Sends)
  BY <1>3, <1>6
<1> QED BY <1>5, <1>7

-----------------------------------------------------------------------------
(* What the steps have in common *)

Farewell == {"emitError", "emitClosed", "emitClosedGoOn"}

\* Going to a label moves one goroutine of one session.
LEMMA GotoMoves ==
    ASSUME TypeOK, NEW r \in Roles, NEW s \in Sessions, NEW label \in Labels, Goto(r, s, label)
    PROVE  /\ pc' \in [Roles -> [Sessions -> Labels]]
           /\ pc'[r][s] = label
           /\ \A r2 \in Roles, s2 \in Sessions :
                r2 # r \/ s2 # s => pc'[r2][s2] = pc[r2][s2]
BY DEF TypeOK, Goto, Labels

\* A sent event is the only new one.
LEMMA SendTypes ==
    ASSUME TypeOK, NEW s \in Sessions, NEW k \in Kinds, SendEvent(s, k)
    PROVE  /\ events' \in Seq([from : Sessions, kind : Kinds]) /\ Len(events') <= EventCap
           /\ \A t \in Sessions : FarewellFrom(t)' => FarewellFrom(t) \/ (t = s /\ k # "line")
<1>1. /\ events \in Seq([from : Sessions, kind : Kinds]) /\ Len(events) < EventCap
      /\ Event(s, k) \in [from : Sessions, kind : Kinds]
      /\ events' = Append(events, Event(s, k))
      /\ EventCap \in Nat
  BY SessionAssumption DEF TypeOK, SendEvent, Event
<1>2. events' \in Seq([from : Sessions, kind : Kinds]) /\ Len(events') = Len(events) + 1
  BY <1>1
<1>3. ASSUME NEW t \in Sessions, FarewellFrom(t)', ~FarewellFrom(t)
      PROVE  t = s /\ k # "line"
  <2>1. PICK i \in 1 .. Len(events') :
          events'[i] = Event(t, "closed") \/ events'[i] = Event(t, "error")
    BY <1>3 DEF FarewellFrom
  <2>2. i \notin 1 .. Len(events)
    BY <1>1, <1>3, <2>1 DEF FarewellFrom
  <2>3. events'[i] = Event(s, k)
    BY <1>1, <1>2, <2>2
  <2> QED BY <2>1, <2>3 DEF Event
<1> QED BY <1>1, <1>2, <1>3

\* Handling an event takes it out of the channel and adds none.
LEMMA HandleTypes ==
    ASSUME TypeOK, events # <<>>, events' = Tail(events)
    PROVE  /\ events' \in Seq([from : Sessions, kind : Kinds]) /\ Len(events') <= EventCap
           /\ \A t \in Sessions : FarewellFrom(t)' => FarewellFrom(t)
<1>1. events \in Seq([from : Sessions, kind : Kinds]) /\ Len(events) <= EventCap
  BY DEF TypeOK
<1>2. /\ events' \in Seq([from : Sessions, kind : Kinds]) /\ Len(events') = Len(events) - 1
      /\ Len(events) \in Nat \ {0}
      /\ \A i \in 1 .. Len(events') : i + 1 \in 1 .. Len(events) /\ events'[i] = events[i + 1]
  BY <1>1
<1>3. \A t \in Sessions : FarewellFrom(t)' => FarewellFrom(t)
  BY <1>2 DEF FarewellFrom
<1> QED BY <1>1, <1>2, <1>3, SessionAssumption

\* Who is announced depends on the event channel only.
LEMMA SameEvents ==
    ASSUME UNCHANGED events
    PROVE  \A t \in Sessions : FarewellFrom(t)' => FarewellFrom(t)
BY DEF FarewellFrom

\* A command that fits keeps its channel within its capacity.
LEMMA PutTypes ==
    ASSUME TypeOK, NEW s \in Sessions, NEW cmd \in {"text", "close", "goodbye"},
           Len(commands[s]) < CommandCap, commands' = [commands EXCEPT ![s] = Append(@, cmd)]
    PROVE  /\ commands' \in [Sessions -> Seq({"text", "close", "goodbye"})]
           /\ \A t \in Sessions : Len(commands'[t]) <= CommandCap
<1> DEFINE C == {"text", "close", "goodbye"}
<1> HIDE DEF C
<1>1. /\ commands \in [Sessions -> Seq(C)] /\ CommandCap \in Nat
      /\ \A t \in Sessions : commands[t] \in Seq(C) /\ Len(commands[t]) <= CommandCap
  BY SessionAssumption DEF TypeOK, C
<1>2. cmd \in C
  BY DEF C
<1>3. Append(commands[s], cmd) \in Seq(C) /\ Len(Append(commands[s], cmd)) = Len(commands[s]) + 1
  BY <1>1, <1>2
<1>4. Len(commands[s]) \in Nat
  BY <1>1
<1>5. commands' \in [Sessions -> Seq(C)]
  BY <1>1, <1>3
<1>6. \A t \in Sessions : Len(commands'[t]) <= CommandCap
  BY <1>1, <1>3, <1>4
<1> QED BY <1>5, <1>6 DEF C

\* A send that does not block either appends or changes nothing.
LEMMA OfferTypes ==
    ASSUME NEW q \in Seq({"text", "close", "goodbye"}), Len(q) <= CommandCap,
           NEW cmd \in {"text", "close", "goodbye"}
    PROVE  /\ Offer(q, cmd) \in Seq({"text", "close", "goodbye"})
           /\ Len(Offer(q, cmd)) <= CommandCap
<1> DEFINE C == {"text", "close", "goodbye"}
<1>1. q \in Seq(C) /\ cmd \in C
  OBVIOUS
<1> HIDE DEF C
<1>2. Append(q, cmd) \in Seq(C) /\ Len(Append(q, cmd)) = Len(q) + 1 /\ Len(q) \in Nat
  BY <1>1
<1>3. Offer(q, cmd) \in Seq(C) /\ Len(Offer(q, cmd)) <= CommandCap
  BY <1>1, <1>2, SessionAssumption DEF Offer
<1> QED BY <1>3 DEF C

-----------------------------------------------------------------------------
(* The invariant *)

\* The invariant holds before anyone connects.
LEMMA InitInv == Init => Inv
<1> SUFFICES ASSUME Init PROVE Inv
  OBVIOUS
<1>1. TypeOK /\ IsFiniteSet(registered)
  <2>1. /\ <<>> \in Seq([from : Sessions, kind : Kinds]) /\ Len(events) = 0
        /\ <<>> \in Seq({"text", "close", "goodbye"}) /\ \A t \in Sessions : Len(commands[t]) = 0
        /\ <<>> \in Seq([to : Sessions, cmd : {"text", "goodbye"}])
    BY DEF Init
  <2>2. 0 <= EventCap /\ 0 <= CommandCap
    BY SessionAssumption
  <2>3. IsFiniteSet(registered)
    BY FS_EmptySet DEF Init
  <2> QED BY <2>1, <2>2, <2>3 DEF Init, TypeOK, Roles
<1>2. AnnouncedOnce /\ EndsAfterAnnouncing /\ NotYet /\ ConnectedIsRegistered
  BY DEF Init, AnnouncedOnce, EndsAfterAnnouncing, NotYet, ConnectedIsRegistered, Roles
<1>3. Farewells
  BY DEF Init, Farewells, FarewellFrom, Roles
<1> QED BY <1>1, <1>2, <1>3 DEF Inv

\* Every step is one of these.
Step(s) ==
    \/ Accept(s) \/ ClientLeaves(s) \/ ReadLine(s) \/ EmitLine(s) \/ ReadFails(s)
    \/ \E r \in Roles : EmitError(r, s) \/ EmitClosed(r, s)
    \/ TakeCommand(s) \/ WriterCancelled(s) \/ WriteSucceeds(s) \/ WriteFails(s)
    \/ RunWakes(s) \/ RunReturns(s) \/ IdleKick(s) \/ HandleLine(s) \/ Unregister(s)

\* Each action is a step of one session, of the game loop or of the shutdown.
LEMMA Steps ==
    Next => (\E s \in Sessions : Step(s)) \/ Greet \/ SendNext \/ LoopStops \/ Stop
BY DEF Next, Reader, Writer, GameLoop, Step, Roles

\* Types, and the registry stays finite.
LEMMA TypeStep ==
    ASSUME Inv, [Next]_vars
    PROVE  TypeOK' /\ IsFiniteSet(registered')
<1> USE DEF session, server
<1>0. TypeOK /\ IsFiniteSet(registered) /\ SessionAssumption
  BY SessionAssumption DEF Inv
<1>1. CASE UNCHANGED vars
  BY <1>0, <1>1 DEF TypeOK, vars
<1>2. ASSUME NEW s \in Sessions, Accept(s) PROVE TypeOK' /\ IsFiniteSet(registered')
  <2>1. IsFiniteSet(registered')
    BY <1>0, <1>2, FS_AddElement DEF Accept
  <2> QED BY <1>0, <1>2, <2>1 DEF Accept, TypeOK
<1>3. ASSUME NEW s \in Sessions, ClientLeaves(s) PROVE TypeOK' /\ IsFiniteSet(registered')
  BY <1>0, <1>3 DEF ClientLeaves, TypeOK
<1>4. ASSUME NEW s \in Sessions, ReadLine(s) PROVE TypeOK' /\ IsFiniteSet(registered')
  <2>1. pc' \in [Roles -> [Sessions -> Labels]]
    BY <1>0, <1>4, GotoMoves DEF ReadLine, Roles, Labels
  <2>2. lines' \in Nat
    BY <1>0, <1>4 DEF ReadLine, TypeOK
  <2>3. UNCHANGED <<conn, taken, closedOnce, cancelled, run, server, events, commands, announced>>
    BY <1>4 DEF ReadLine
  <2> QED BY <1>0, <2>1, <2>2, <2>3 DEF TypeOK, Labels
<1>5. ASSUME NEW s \in Sessions, EmitLine(s) PROVE TypeOK' /\ IsFiniteSet(registered')
  <2>1. pc' \in [Roles -> [Sessions -> Labels]]
    BY <1>0, <1>5, GotoMoves DEF EmitLine, Roles, Labels
  <2>2. events' \in Seq([from : Sessions, kind : Kinds]) /\ Len(events') <= EventCap
    BY <1>0, <1>5, SendTypes DEF EmitLine, Kinds, TypeOK
  <2> QED BY <1>0, <1>5, <2>1, <2>2 DEF EmitLine, TypeOK, Labels
<1>6. ASSUME NEW s \in Sessions, ReadFails(s) PROVE TypeOK' /\ IsFiniteSet(registered')
  BY <1>0, <1>6, GotoMoves DEF ReadFails, TypeOK, Roles, Labels
<1>7. ASSUME NEW s \in Sessions, NEW r \in Roles, EmitError(r, s)
      PROVE  TypeOK' /\ IsFiniteSet(registered')
  <2>1. pc' \in [Roles -> [Sessions -> Labels]]
    BY <1>0, <1>7, GotoMoves DEF EmitError, Labels
  <2>2. events' \in Seq([from : Sessions, kind : Kinds]) /\ Len(events') <= EventCap
    BY <1>0, <1>7, SendTypes DEF EmitError, Kinds, TypeOK
  <2> QED BY <1>0, <1>7, <2>1, <2>2 DEF EmitError, TypeOK, Labels
<1>8. ASSUME NEW s \in Sessions, NEW r \in Roles, EmitClosed(r, s)
      PROVE  TypeOK' /\ IsFiniteSet(registered')
  <2>1. pc' \in [Roles -> [Sessions -> Labels]]
    BY <1>0, <1>8, GotoMoves DEF EmitClosed, Labels
  <2>2. events' \in Seq([from : Sessions, kind : Kinds]) /\ Len(events') <= EventCap
    BY <1>0, <1>8, SendTypes DEF EmitClosed, Kinds, TypeOK
  <2>3. closedOnce' \in [Sessions -> BOOLEAN] /\ announced' \in [Sessions -> Nat]
    <3>1. CASE UNCHANGED <<closedOnce, announced>>
      BY <1>0, <3>1 DEF TypeOK
    <3>2. CASE closedOnce' = [closedOnce EXCEPT ![s] = TRUE]
      BY <1>0, <1>8, <3>2 DEF EmitClosed, TypeOK
    <3> QED BY <1>8, <3>1, <3>2 DEF EmitClosed
  <2> QED BY <1>0, <1>8, <2>1, <2>2, <2>3 DEF EmitClosed, TypeOK, Labels
<1>9. ASSUME NEW s \in Sessions, TakeCommand(s) PROVE TypeOK' /\ IsFiniteSet(registered')
  <2>1. pc' \in [Roles -> [Sessions -> Labels]]
    BY <1>0, <1>9, GotoMoves DEF TakeCommand, Roles, Labels
  <2> DEFINE C == {"text", "close", "goodbye"}
  <2> HIDE DEF C
  <2>2. /\ commands[s] \in Seq(C) /\ commands[s] # <<>> /\ commands \in [Sessions -> Seq(C)]
        /\ \A t \in Sessions : Len(commands[t]) <= CommandCap
    BY <1>0, <1>9 DEF TakeCommand, TypeOK, C
  <2>3. /\ Head(commands[s]) \in C /\ Tail(commands[s]) \in Seq(C)
        /\ Len(Tail(commands[s])) = Len(commands[s]) - 1 /\ Len(commands[s]) \in Nat
    BY <2>2
  <2>4. Len(Tail(commands[s])) <= CommandCap
    BY <1>0, <2>2, <2>3
  <2>5. commands' \in [Sessions -> Seq(C)] /\ \A t \in Sessions : Len(commands'[t]) <= CommandCap
    BY <1>9, <2>2, <2>3, <2>4 DEF TakeCommand
  <2>6. taken' \in [Sessions -> {"none", "text", "close", "goodbye"}]
    BY <1>0, <1>9, <2>3 DEF TakeCommand, TypeOK, C
  <2> QED BY <1>0, <1>9, <2>1, <2>5, <2>6 DEF TakeCommand, TypeOK, Labels, C
<1>10. ASSUME NEW s \in Sessions, WriterCancelled(s) PROVE TypeOK' /\ IsFiniteSet(registered')
  BY <1>0, <1>10, GotoMoves DEF WriterCancelled, TypeOK, Roles, Labels
<1>11. ASSUME NEW s \in Sessions, WriteSucceeds(s) PROVE TypeOK' /\ IsFiniteSet(registered')
  <2>1. pc' \in [Roles -> [Sessions -> Labels]]
    BY <1>0, <1>11, GotoMoves DEF WriteSucceeds, Roles, Labels
  <2> QED BY <1>0, <1>11, <2>1 DEF WriteSucceeds, TypeOK, Labels
<1>12. ASSUME NEW s \in Sessions, WriteFails(s) PROVE TypeOK' /\ IsFiniteSet(registered')
  <2>1. pc' \in [Roles -> [Sessions -> Labels]]
    BY <1>0, <1>12, GotoMoves DEF WriteFails, Roles, Labels
  <2> QED BY <1>0, <1>12, <2>1 DEF WriteFails, TypeOK, Labels
<1>13. ASSUME NEW s \in Sessions, RunWakes(s) PROVE TypeOK' /\ IsFiniteSet(registered')
  BY <1>0, <1>13 DEF RunWakes, TypeOK
<1>14. ASSUME NEW s \in Sessions, RunReturns(s) PROVE TypeOK' /\ IsFiniteSet(registered')
  BY <1>0, <1>14 DEF RunReturns, TypeOK
<1>15. ASSUME NEW s \in Sessions, IdleKick(s) PROVE TypeOK' /\ IsFiniteSet(registered')
  <2> DEFINE q == Offer(Offer(commands[s], "text"), "close")
  <2>1. q \in Seq({"text", "close", "goodbye"}) /\ Len(q) <= CommandCap
    BY <1>0, OfferTypes DEF TypeOK
  <2>2. commands' = [commands EXCEPT ![s] = q]
    BY <1>15 DEF IdleKick
  <2> HIDE DEF q
  <2> QED BY <1>0, <1>15, <2>1, <2>2 DEF IdleKick, TypeOK
<1>16. ASSUME NEW s \in Sessions, HandleLine(s) PROVE TypeOK' /\ IsFiniteSet(registered')
  <2>1. events' \in Seq([from : Sessions, kind : Kinds]) /\ Len(events') <= EventCap
    BY <1>0, <1>16, HandleTypes DEF HandleLine
  <2>2. outbox' \in Seq(Sends)
    BY <1>0, <1>16, ResponseTypes DEF HandleLine, TypeOK, Sends
  <2> QED BY <1>0, <1>16, <2>1, <2>2 DEF HandleLine, TypeOK, Sends
<1>17. ASSUME NEW s \in Sessions, Unregister(s) PROVE TypeOK' /\ IsFiniteSet(registered')
  <2>1. events' \in Seq([from : Sessions, kind : Kinds]) /\ Len(events') <= EventCap
    BY <1>0, <1>17, HandleTypes DEF Unregister
  <2>2. IsFiniteSet(registered')
    BY <1>0, <1>17, FS_RemoveElement DEF Unregister
  <2> QED BY <1>0, <1>17, <2>1, <2>2 DEF Unregister, TypeOK
<1>18. CASE Greet
  <2>1. accepting \in Sessions
    BY <1>0, <1>18 DEF Greet, TypeOK
  <2>2. /\ commands' \in [Sessions -> Seq({"text", "close", "goodbye"})]
        /\ \A t \in Sessions : Len(commands'[t]) <= CommandCap
    BY <1>0, <1>18, <2>1, PutTypes DEF Greet
  <2>3. pc' \in [Roles -> [Sessions -> Labels]]
    BY <1>0, <1>18, <2>1 DEF Greet, TypeOK, Roles, Labels
  <2> QED BY <1>0, <1>18, <2>1, <2>2, <2>3 DEF Greet, TypeOK, Labels
<1>19. CASE SendNext
  <2>1. outbox \in Seq(Sends) /\ outbox # <<>>
    BY <1>0, <1>19 DEF SendNext, TypeOK, Sends
  <2>2. Head(outbox) \in Sends /\ Tail(outbox) \in Seq(Sends) /\ <<>> \in Seq(Sends)
    BY <2>1
  <2>3. Head(outbox).to \in Sessions /\ Head(outbox).cmd \in {"text", "goodbye"}
    BY <2>2 DEF Sends
  <2>4. /\ commands' \in [Sessions -> Seq({"text", "close", "goodbye"})]
        /\ \A t \in Sessions : Len(commands'[t]) <= CommandCap
    <3>1. CASE UNCHANGED commands
      BY <1>0, <3>1 DEF TypeOK
    <3>2. CASE ~UNCHANGED commands
      BY <1>0, <1>19, <2>3, <3>2, PutTypes DEF SendNext
    <3> QED BY <3>1, <3>2
  <2>5. outbox' \in Seq(Sends)
    BY <1>19, <2>2 DEF SendNext
  <2> QED BY <1>0, <1>19, <2>4, <2>5 DEF SendNext, TypeOK, Sends
<1>20. CASE LoopStops
  BY <1>0, <1>20 DEF LoopStops, TypeOK
<1>21. CASE Stop
  BY <1>0, <1>21 DEF Stop, TypeOK
<1> QED BY <1>1, <1>2, <1>3, <1>4, <1>5, <1>6, <1>7, <1>8, <1>9, <1>10, <1>11, <1>12,
           <1>13, <1>14, <1>15, <1>16, <1>17, <1>18, <1>19, <1>20, <1>21, Steps DEF Step

\* A session announces its end at most once, and no reader, writer or Run of a
\* running server is over before that.
LEMMA AnnounceStep ==
    ASSUME Inv, [Next]_vars
    PROVE  AnnouncedOnce' /\ EndsAfterAnnouncing'
<1> USE DEF session, server
<1>0. TypeOK /\ AnnouncedOnce /\ EndsAfterAnnouncing
  BY DEF Inv
<1>1. ASSUME UNCHANGED <<pc, closedOnce, cancelled, run, stopping, announced>>
      PROVE  AnnouncedOnce' /\ EndsAfterAnnouncing'
  BY <1>0, <1>1 DEF AnnouncedOnce, EndsAfterAnnouncing
\* A step of one goroutine that announces nothing and is not its last one.
<1>2. ASSUME NEW s \in Sessions, NEW r \in Roles, NEW label \in Labels, Goto(r, s, label),
             label = "done" /\ ~stopping => closedOnce[s],
             UNCHANGED <<closedOnce, cancelled, run, stopping, announced>>
      PROVE  AnnouncedOnce' /\ EndsAfterAnnouncing'
  <2>1. AnnouncedOnce'
    BY <1>0, <1>2 DEF AnnouncedOnce
  <2>2. \A r2 \in Roles, t \in Sessions : ~stopping /\ pc'[r2][t] = "done" => closedOnce[t]
    BY <1>0, <1>2, GotoMoves DEF EndsAfterAnnouncing
  <2> QED BY <1>0, <1>2, <2>1, <2>2 DEF EndsAfterAnnouncing
<1>3. ASSUME NEW s \in Sessions, cancelled[s], ~stopping PROVE closedOnce[s]
  BY <1>0, <1>3 DEF EndsAfterAnnouncing
<1>4. ASSUME NEW s \in Sessions, Step(s) PROVE AnnouncedOnce' /\ EndsAfterAnnouncing'
  <2>1. CASE Accept(s) \/ ClientLeaves(s) \/ IdleKick(s) \/ HandleLine(s) \/ Unregister(s)
    BY <1>1, <2>1 DEF Accept, ClientLeaves, IdleKick, HandleLine, Unregister
  <2>2. CASE ReadLine(s)
    BY <1>2, <2>2 DEF ReadLine, Roles, Labels
  <2>3. CASE EmitLine(s)
    BY <1>2, <1>3, <2>3 DEF EmitLine, Roles, Labels
  <2>4. CASE ReadFails(s)
    BY <1>2, <2>4 DEF ReadFails, Roles, Labels
  <2>5. ASSUME NEW r \in Roles, EmitError(r, s) PROVE AnnouncedOnce' /\ EndsAfterAnnouncing'
    BY <1>2, <2>5 DEF EmitError, Labels
  <2>6. ASSUME NEW r \in Roles, EmitClosed(r, s) PROVE AnnouncedOnce' /\ EndsAfterAnnouncing'
    <3> DEFINE label == IF pc[r][s] = "emitClosed" THEN "done" ELSE "waiting"
    <3>1. Goto(r, s, label) /\ label \in Labels
      BY <2>6 DEF EmitClosed, Labels
    <3> HIDE DEF label
    <3>2. CASE closedOnce[s] /\ UNCHANGED <<closedOnce, announced>>
      BY <1>2, <2>6, <3>1, <3>2 DEF EmitClosed
    <3>3. CASE /\ ~closedOnce[s]
               /\ closedOnce' = [closedOnce EXCEPT ![s] = TRUE]
               /\ \/ announced' = [announced EXCEPT ![s] = @ + 1]
                  \/ cancelled[s] /\ UNCHANGED announced
      <4>1. announced[s] = 0 /\ announced \in [Sessions -> Nat] /\ closedOnce \in [Sessions -> BOOLEAN]
        BY <1>0, <3>3 DEF AnnouncedOnce, TypeOK
      <4>2. UNCHANGED <<cancelled, run, stopping>>
        BY <2>6 DEF EmitClosed
      <4>3. announced'[s] \in {0, 1} /\ (~stopping => announced'[s] = 1)
        BY <1>3, <3>3, <4>1
      <4>4. closedOnce'[s] = TRUE
        BY <3>3, <4>1
      <4>5. \A t \in Sessions \ {s} : announced'[t] = announced[t] /\ closedOnce'[t] = closedOnce[t]
        BY <3>3, <4>1
      <4>6. AnnouncedOnce'
        BY <1>0, <4>2, <4>3, <4>4, <4>5 DEF AnnouncedOnce
      <4>7. \A r2 \in Roles, t \in Sessions : t # s => pc'[r2][t] = pc[r2][t]
        BY <1>0, <3>1, GotoMoves
      <4>8. EndsAfterAnnouncing'
        BY <1>0, <4>2, <4>4, <4>5, <4>7 DEF EndsAfterAnnouncing
      <4> QED BY <4>6, <4>8
    <3> QED BY <2>6, <3>2, <3>3 DEF EmitClosed
  <2>7. CASE TakeCommand(s)
    BY <1>2, <2>7 DEF TakeCommand, Roles, Labels
  <2>8. CASE WriterCancelled(s)
    BY <1>2, <1>3, <2>8 DEF WriterCancelled, Roles, Labels
  <2>9. CASE WriteSucceeds(s)
    BY <1>2, <2>9 DEF WriteSucceeds, Roles, Labels
  <2>10. CASE WriteFails(s)
    BY <1>2, <2>10 DEF WriteFails, Roles, Labels
  <2>11. CASE RunWakes(s)
    <3>1. ~stopping => closedOnce[s]
      BY <1>0, <1>3, <2>11 DEF RunWakes, EndsAfterAnnouncing, Roles
    <3>2. AnnouncedOnce'
      BY <1>0, <2>11 DEF RunWakes, AnnouncedOnce
    <3> QED BY <1>0, <2>11, <3>1, <3>2 DEF RunWakes, EndsAfterAnnouncing, TypeOK
  <2>12. CASE RunReturns(s)
    <3>1. AnnouncedOnce'
      BY <1>0, <2>12 DEF RunReturns, AnnouncedOnce
    <3> QED BY <1>0, <2>12, <3>1 DEF RunReturns, EndsAfterAnnouncing, TypeOK
  <2> QED BY <1>4, <2>1, <2>2, <2>3, <2>4, <2>5, <2>6, <2>7, <2>8, <2>9, <2>10, <2>11, <2>12 DEF Step
<1>5. CASE Greet
  <2>1. accepting \in Sessions
    BY <1>0, <1>5 DEF Greet, TypeOK
  <2>2. AnnouncedOnce'
    BY <1>0, <1>5 DEF Greet, AnnouncedOnce
  <2>3. \A r \in Roles, t \in Sessions : pc'[r][t] = "done" => pc[r][t] = "done"
    BY <1>0, <1>5, <2>1 DEF Greet, TypeOK, Roles
  <2>4. \A t \in Sessions : run'[t] \in {"waiting", "done"} => run[t] \in {"waiting", "done"}
    BY <1>0, <1>5, <2>1 DEF Greet, TypeOK
  <2>5. \A t \in Sessions : t # accepting => run'[t] = run[t]
    BY <1>0, <1>5, <2>1 DEF Greet, TypeOK
  <2>6. ~stopping => ~cancelled[accepting]
    BY <1>0, <1>5, <2>1 DEF Inv, NotYet, EndsAfterAnnouncing, Greet
  <2> QED BY <1>0, <1>5, <2>2, <2>3, <2>4, <2>5, <2>6 DEF Greet, EndsAfterAnnouncing
<1>6. CASE SendNext \/ LoopStops
  BY <1>1, <1>6 DEF SendNext, LoopStops
<1>7. CASE Stop
  BY <1>0, <1>7 DEF Stop, AnnouncedOnce, EndsAfterAnnouncing
<1>8. CASE UNCHANGED vars
  BY <1>1, <1>8 DEF vars
<1> QED BY <1>4, <1>5, <1>6, <1>7, <1>8, Steps

\* Nothing starts before its connection.
LEMMA NotYetStep ==
    ASSUME Inv, [Next]_vars
    PROVE  NotYet'
<1> USE DEF session, server
<1>0. TypeOK /\ NotYet
  BY DEF Inv
<1>1. ASSUME UNCHANGED <<conn, pc, run, accepting>> PROVE NotYet'
  BY <1>0, <1>1 DEF NotYet
\* A step of a goroutine that runs already.
<1>2. ASSUME NEW s \in Sessions, NEW r \in Roles, NEW label \in Labels, Goto(r, s, label),
             pc[r][s] # "off", UNCHANGED <<run, accepting>>,
             UNCHANGED conn \/ conn' = [conn EXCEPT ![s] = "closed"]
      PROVE  NotYet'
  <2>1. conn[s] # "none"
    BY <1>0, <1>2 DEF NotYet
  <2>2. \A t \in Sessions : conn'[t] = "none" => conn[t] = "none" /\ t # s
    BY <1>0, <1>2, <2>1 DEF TypeOK
  <2>3. \A t \in Sessions, r2 \in Roles : t # s => pc'[r2][t] = pc[r2][t]
    BY <1>0, <1>2, GotoMoves
  <2>4. accepting # 0 => conn'[accepting] # "none"
    BY <1>0, <1>2, <2>2 DEF NotYet, TypeOK
  <2> QED BY <1>0, <1>2, <2>2, <2>3, <2>4 DEF NotYet
<1>3. ASSUME NEW s \in Sessions, Step(s) PROVE NotYet'
  <2>1. CASE Accept(s)
    <3>1. conn' = [conn EXCEPT ![s] = "open"] /\ conn[s] = "none" /\ accepting' = s
          /\ UNCHANGED <<pc, run>>
      BY <2>1 DEF Accept
    <3> QED BY <1>0, <3>1 DEF NotYet, TypeOK
  <2>2. CASE ClientLeaves(s)
    <3>1. conn[s] = "open" /\ conn'[s] \in {"eof", "reset"} /\ UNCHANGED <<pc, run, accepting>>
          /\ \A t \in Sessions : t # s => conn'[t] = conn[t]
      BY <1>0, <2>2 DEF ClientLeaves, TypeOK
    <3> QED BY <1>0, <3>1 DEF NotYet, TypeOK
  <2>3. CASE ReadLine(s)
    BY <1>2, <2>3 DEF ReadLine, Roles, Labels
  <2>4. CASE EmitLine(s)
    BY <1>2, <2>4 DEF EmitLine, Roles, Labels
  <2>5. CASE ReadFails(s)
    BY <1>2, <2>5 DEF ReadFails, Roles, Labels
  <2>6. ASSUME NEW r \in Roles, EmitError(r, s) \/ EmitClosed(r, s) PROVE NotYet'
    BY <1>2, <2>6 DEF EmitError, EmitClosed, Labels
  <2>7. CASE TakeCommand(s)
    BY <1>2, <2>7 DEF TakeCommand, Roles, Labels
  <2>8. CASE WriterCancelled(s)
    BY <1>2, <2>8 DEF WriterCancelled, Roles, Labels
  <2>9. CASE WriteSucceeds(s)
    BY <1>2, <2>9 DEF WriteSucceeds, Roles, Labels
  <2>10. CASE WriteFails(s)
    BY <1>2, <2>10 DEF WriteFails, Roles, Labels
  <2>11. CASE RunWakes(s)
    <3>1. /\ run[s] = "select" /\ UNCHANGED <<pc, accepting>>
          /\ run' = [run EXCEPT ![s] = "waiting"] /\ conn' = [conn EXCEPT ![s] = "closed"]
      BY <2>11 DEF RunWakes
    <3> QED BY <1>0, <3>1 DEF NotYet, TypeOK
  <2>12. CASE RunReturns(s)
    <3>1. /\ run[s] = "waiting" /\ UNCHANGED <<conn, pc, accepting>>
          /\ run' = [run EXCEPT ![s] = "done"]
      BY <2>12 DEF RunReturns
    <3> QED BY <1>0, <3>1 DEF NotYet, TypeOK
  <2>13. CASE IdleKick(s) \/ HandleLine(s) \/ Unregister(s)
    BY <1>1, <2>13 DEF IdleKick, HandleLine, Unregister
  <2> QED BY <1>3, <2>1, <2>2, <2>3, <2>4, <2>5, <2>6, <2>7, <2>8, <2>9, <2>10, <2>11, <2>12,
             <2>13 DEF Step
<1>4. CASE Greet
  <2>1. accepting \in Sessions /\ conn[accepting] # "none" /\ accepting' = 0 /\ UNCHANGED conn
    BY <1>0, <1>4 DEF Greet, TypeOK, NotYet
  <2>2. \A t \in Sessions, r \in Roles : t # accepting => pc'[r][t] = pc[r][t]
    BY <1>0, <1>4, <2>1 DEF Greet, TypeOK, Roles
  <2>3. \A t \in Sessions : conn'[t] = "none" => conn[t] = "none" /\ t # accepting
    BY <2>1
  <2>4. \A t \in Sessions : conn'[t] = "none" => run'[t] = "off" /\ \A r \in Roles : pc'[r][t] = "off"
    <3>1. \A t \in Sessions : t # accepting => run'[t] = run[t]
      BY <1>0, <1>4, <2>1 DEF Greet, TypeOK
    <3> QED BY <1>0, <2>2, <2>3, <3>1 DEF NotYet
  <2> QED BY <2>1, <2>4 DEF NotYet
<1>5. CASE SendNext \/ LoopStops \/ Stop \/ UNCHANGED vars
  BY <1>1, <1>5 DEF SendNext, LoopStops, Stop, vars
<1> QED BY <1>3, <1>4, <1>5, Steps

\* Farewells come from connections that are not intact, and only they
\* unregister a session.
LEMMA FarewellStep ==
    ASSUME Inv, [Next]_vars
    PROVE  Farewells' /\ ConnectedIsRegistered'
<1> USE DEF session, server
<1>0. TypeOK /\ Farewells /\ NotYet /\ ConnectedIsRegistered
  BY DEF Inv
<1>1. ASSUME UNCHANGED <<conn, pc, events, registered>>
      PROVE  Farewells' /\ ConnectedIsRegistered'
  BY <1>0, <1>1, SameEvents DEF Farewells, ConnectedIsRegistered
\* A step of s that emits at most an event of s, only on a connection that is
\* not intact, and makes no connection intact.
<1>2. ASSUME NEW s \in Sessions, NEW r \in Roles, NEW label \in Labels, Goto(r, s, label),
             label \in Farewell => conn'[s] \notin {"none", "open"},
             UNCHANGED conn \/ conn' = [conn EXCEPT ![s] = "closed"],
             UNCHANGED registered,
             \A t \in Sessions : FarewellFrom(t)' =>
                FarewellFrom(t) \/ (t = s /\ conn[s] \notin {"none", "open"})
      PROVE  Farewells' /\ ConnectedIsRegistered'
  <2>1. \A t \in Sessions : conn'[t] \in {"none", "open"} => conn'[t] = conn[t]
    BY <1>0, <1>2 DEF TypeOK
  <2>2. \A r2 \in Roles, t \in Sessions :
          \/ pc'[r2][t] = pc[r2][t]
          \/ r2 = r /\ t = s /\ pc'[r2][t] = label
    BY <1>0, <1>2, GotoMoves
  <2>3. Farewells'
    BY <1>0, <1>2, <2>1, <2>2 DEF Farewells, Farewell
  <2> QED BY <1>0, <1>2, <2>1, <2>3 DEF ConnectedIsRegistered
<1>3. ASSUME NEW s \in Sessions, Step(s) PROVE Farewells' /\ ConnectedIsRegistered'
  <2>1. CASE Accept(s)
    <3>1. /\ conn' = [conn EXCEPT ![s] = "open"] /\ conn[s] = "none"
          /\ registered' = registered \cup {s} /\ UNCHANGED <<pc, events>>
      BY <2>1 DEF Accept
    <3>2. \A t \in Sessions : conn'[t] \in {"none", "open"} => conn[t] \in {"none", "open"}
      BY <1>0, <3>1 DEF TypeOK
    <3>3. Farewells'
      BY <1>0, <3>1, <3>2, SameEvents DEF Farewells
    <3>4. ConnectedIsRegistered'
      BY <1>0, <3>1 DEF ConnectedIsRegistered, TypeOK
    <3> QED BY <3>3, <3>4
  <2>2. CASE ClientLeaves(s)
    <3>1. UNCHANGED <<pc, events, registered>>
          /\ \A t \in Sessions : conn'[t] \in {"none", "open"} => conn'[t] = conn[t]
      BY <1>0, <2>2 DEF ClientLeaves, TypeOK
    <3> QED BY <1>0, <3>1, SameEvents DEF Farewells, ConnectedIsRegistered
  <2>3. CASE ReadLine(s)
    BY <1>2, <2>3, SameEvents DEF ReadLine, Roles, Labels, Farewell
  <2>4. CASE EmitLine(s)
    <3>1. \A t \in Sessions : FarewellFrom(t)' => FarewellFrom(t)
      BY <1>0, <2>4, SendTypes, SameEvents DEF EmitLine, Kinds
    <3> QED BY <1>2, <2>4, <3>1 DEF EmitLine, Roles, Labels, Farewell
  <2>5. CASE ReadFails(s)
    <3>1. conn[s] \notin {"none", "open"}
      BY <1>0, <2>5 DEF ReadFails, NotYet, Roles
    <3> QED BY <1>2, <2>5, <3>1, SameEvents DEF ReadFails, Roles, Labels
  <2>6. ASSUME NEW r \in Roles, EmitError(r, s) PROVE Farewells' /\ ConnectedIsRegistered'
    <3>1. conn[s] \notin {"none", "open"}
      BY <1>0, <2>6 DEF EmitError, Farewells
    <3>2. \A t \in Sessions : FarewellFrom(t)' => FarewellFrom(t) \/ t = s
      BY <1>0, <2>6, SendTypes, SameEvents DEF EmitError, Kinds
    <3> QED BY <1>2, <2>6, <3>1, <3>2 DEF EmitError, Labels
  <2>7. ASSUME NEW r \in Roles, EmitClosed(r, s) PROVE Farewells' /\ ConnectedIsRegistered'
    <3>1. conn[s] \notin {"none", "open"}
      BY <1>0, <2>7 DEF EmitClosed, Farewells
    <3>2. \A t \in Sessions : FarewellFrom(t)' => FarewellFrom(t) \/ t = s
      BY <1>0, <2>7, SendTypes, SameEvents DEF EmitClosed, Kinds
    <3> QED BY <1>2, <2>7, <3>1, <3>2 DEF EmitClosed, Labels
  <2>8. CASE TakeCommand(s)
    BY <1>2, <2>8, SameEvents DEF TakeCommand, Roles, Labels, Farewell
  <2>9. CASE WriterCancelled(s)
    BY <1>2, <2>9, SameEvents DEF WriterCancelled, Roles, Labels, Farewell
  <2>10. CASE WriteSucceeds(s)
    <3> DEFINE label == IF taken[s] = "text" THEN "waiting" ELSE "emitClosed"
    <3>1. /\ Goto("writer", s, label) /\ label \in Labels
          /\ UNCHANGED conn \/ conn' = [conn EXCEPT ![s] = "closed"]
          /\ UNCHANGED <<events, registered>>
      BY <2>10 DEF WriteSucceeds, Labels
    <3>2. label \in Farewell => conn'[s] \notin {"none", "open"}
      BY <1>0, <2>10 DEF WriteSucceeds, Farewell, TypeOK
    <3> HIDE DEF label
    <3> QED BY <1>2, <3>1, <3>2, SameEvents DEF Roles
  <2>11. CASE WriteFails(s)
    <3>1. conn[s] \notin {"none", "open"}
      BY <1>0, <2>11 DEF WriteFails, NotYet, Roles
    <3> QED BY <1>2, <2>11, <3>1, SameEvents DEF WriteFails, Roles, Labels
  <2>12. CASE RunWakes(s)
    <3>1. UNCHANGED <<pc, events, registered>>
          /\ \A t \in Sessions : conn'[t] \in {"none", "open"} => conn'[t] = conn[t]
      BY <1>0, <2>12 DEF RunWakes, TypeOK
    <3> QED BY <1>0, <3>1, SameEvents DEF Farewells, ConnectedIsRegistered
  <2>13. CASE RunReturns(s) \/ IdleKick(s)
    BY <1>1, <2>13 DEF RunReturns, IdleKick
  <2>14. CASE HandleLine(s)
    <3>1. \A t \in Sessions : FarewellFrom(t)' => FarewellFrom(t)
      BY <1>0, <2>14, HandleTypes DEF HandleLine
    <3> QED BY <1>0, <2>14, <3>1 DEF HandleLine, Farewells, ConnectedIsRegistered
  <2>15. CASE Unregister(s)
    <3>1. \A t \in Sessions : FarewellFrom(t)' => FarewellFrom(t)
      BY <1>0, <2>15, HandleTypes DEF Unregister
    <3>2. FarewellFrom(s)
      BY <1>0, <2>15 DEF Unregister, FarewellFrom, TypeOK
    <3>3. conn[s] # "open"
      BY <1>0, <3>2 DEF Farewells
    <3> QED BY <1>0, <2>15, <3>1, <3>3 DEF Unregister, Farewells, ConnectedIsRegistered
  <2> QED BY <1>3, <2>1, <2>2, <2>3, <2>4, <2>5, <2>6, <2>7, <2>8, <2>9, <2>10, <2>11, <2>12,
             <2>13, <2>14, <2>15 DEF Step
<1>4. CASE Greet
  <2>1. accepting \in Sessions /\ UNCHANGED <<conn, events, registered>>
    BY <1>0, <1>4 DEF Greet, TypeOK
  <2>2. \A r \in Roles, t \in Sessions :
          pc'[r][t] = pc[r][t] \/ pc'[r][t] \in {"reading", "waiting"}
    BY <1>0, <1>4, <2>1 DEF Greet, TypeOK, Roles
  <2> QED BY <1>0, <2>1, <2>2, SameEvents DEF Farewells, ConnectedIsRegistered
<1>5. CASE SendNext \/ LoopStops \/ Stop \/ UNCHANGED vars
  BY <1>1, <1>5 DEF SendNext, LoopStops, Stop, vars
<1> QED BY <1>3, <1>4, <1>5, Steps

\* Every step keeps the invariant.
LEMMA StepInv == Inv /\ [Next]_vars => Inv'
BY TypeStep, AnnounceStep, NotYetStep, FarewellStep DEF Inv

-----------------------------------------------------------------------------
(* Theorems *)

\* What always holds of the sessions, the event channel and the registry.
THEOREM SessionsInvariant == Spec => []Inv
BY InitInv, StepInv, PTL DEF Spec

\* Types; no channel holds more than its capacity, and the members of a
\* broadcast can always be put in order.
THEOREM SessionTypes == Spec => []TypeOK
<1>1. Inv => TypeOK
  BY DEF Inv
<1> QED BY <1>1, SessionsInvariant, PTL

\* closedEvent.Do and Run together: while the server runs, whoever fails first,
\* a session is cancelled only after its one EventClosed is in the channel.
THEOREM EndsAreAnnounced == Spec => []EndIsAnnounced
<1>1. Inv => EndIsAnnounced
  BY DEF Inv, EndIsAnnounced, AnnouncedOnce, EndsAfterAnnouncing
<1> QED BY <1>1, SessionsInvariant, PTL

\* UnregisterSession never meets a session whose connection is intact: errors,
\* kicks and closes of any sessions, in any order, leave it registered.
THEOREM ConnectedStayRegistered == Spec => []ConnectedIsRegistered
<1>1. Inv => ConnectedIsRegistered
  BY DEF Inv
<1> QED BY <1>1, SessionsInvariant, PTL
=============================================================================
