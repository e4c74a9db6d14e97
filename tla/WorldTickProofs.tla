-------------------------- MODULE WorldTickProofs --------------------------
(***************************************************************************)
(* For any intervals, clock and delays: no update runs in a burst, the     *)
(* timed exits alternate, and an ordered shutdown does not happen.         *)
(***************************************************************************)
EXTENDS WorldTick, TLAPS

\* Runs at the times of q, at least k seconds apart for each run between them.
Spaced(q, k) == \A j \in 1..Len(q) : \A i \in 1..j : q[j] - q[i] >= (j - i) * k

\* The time stored by an update is the time of its last run.
StoredTime ==
    \A u \in Updates :
        /\ last[u] <= now
        /\ ran[u] # <<>> => last[u] = ran[u][Len(ran[u])]
        /\ Spaced(ran[u], Interval[u])

\* timeX names the two exits of the room, each with its own destination.
Forth == [name1 |-> "in", dest1 |-> 2652, name2 |-> "out", dest2 |-> 2651]
Back  == [name1 |-> "out", dest1 |-> 2651, name2 |-> "in", dest2 |-> 2652]
NamesExits == tx \in {Forth, Back}

\* No countdown is announced and the server is not terminated.
NothingShutsDown == announced = FALSE /\ terminated = FALSE

Inv ==
    /\ TypeOK /\ Start <= now
    /\ StoredTime /\ NamesExits /\ ExitsAlternate /\ NothingShutsDown

\* The two settings of the timed exits are of the type.
LEMMA ExitTypes ==
    {Forth, Back} \subseteq
        [name1 : {"in", "out"}, dest1 : {2651, 2652}, name2 : {"in", "out"}, dest2 : {2651, 2652}]
BY DEF Forth, Back

\* The invariant holds at the start of the process.
LEMMA InitInv == Init => Inv
<1> SUFFICES ASSUME Init PROVE Inv
  OBVIOUS
<1>1. TypeOK /\ Start <= now
  <2>1. tx = Forth /\ last \in [Updates -> Nat] /\ ran \in [Updates -> Seq(Nat)]
    BY DEF Init, Forth
  <2>2. now \in Nat /\ Start <= now /\ ltime \in Nat /\ delay \in Nat /\ lastShutdown \in Nat
    BY TickAssumption DEF Init
  <2>3. hidden \in SUBSET {"in", "out"} /\ announced \in BOOLEAN /\ terminated \in BOOLEAN
    BY DEF Init
  <2> QED BY <2>1, <2>2, <2>3, ExitTypes DEF TypeOK
<1>2. StoredTime
  BY TickAssumption DEF Init, StoredTime, Spaced
<1>3. NamesExits /\ ExitsAlternate /\ NothingShutsDown
  BY DEF Init, NamesExits, Forth, ExitsAlternate, NothingShutsDown, Updates
<1> QED BY <1>1, <1>2, <1>3 DEF Inv

\* A run an interval after the last one keeps the distance from all before it.
LEMMA AppendSpaced ==
    ASSUME NEW q \in Seq(Nat), NEW k \in Nat, NEW t \in Nat, Spaced(q, k),
           q # <<>> => t - q[Len(q)] >= k
    PROVE  Spaced(Append(q, t), k)
<1> DEFINE n == Len(q)
           p == Append(q, t)
<1>1. n \in Nat /\ Len(p) = n + 1 /\ p[n + 1] = t /\ \A i \in 1..n : p[i] = q[i] /\ q[i] \in Nat
  OBVIOUS
<1>2. \A j \in 1..n : \A i \in 1..j : q[j] - q[i] >= (j - i) * k
  BY DEF Spaced
<1>3. n > 0 => t - q[n] >= k
  OBVIOUS
<1> HIDE DEF n, p
<1>4. ASSUME NEW j \in 1..(n + 1), NEW i \in 1..j
      PROVE  p[j] - p[i] >= (j - i) * k
  <2>1. CASE j <= n
    <3>1. j \in 1..n /\ i \in 1..n
      BY <1>1, <2>1
    <3> QED BY <1>1, <1>2, <3>1
  <2>2. CASE j = n + 1 /\ i = j
    <3>1. (j - i) * k = 0 /\ p[j] = t /\ p[i] = t
      BY <1>1, <2>2
    <3> QED BY <3>1
  <2>3. CASE j = n + 1 /\ i # j
    <3>1. i \in 1..n /\ n \in 1..n /\ n > 0
      BY <1>1, <2>3
    <3> DEFINE d == (n - i) * k
    <3>2. d \in Int /\ (j - i) * k = d + k
      BY <1>1, <2>3, <3>1
    <3>3. q[n] - q[i] >= d
      BY <1>2, <3>1
    <3> HIDE DEF d
    <3>4. p[j] = t /\ p[i] = q[i] /\ q[i] \in Nat /\ q[n] \in Nat /\ t - q[n] >= k
      BY <1>1, <1>3, <2>3, <3>1
    <3> QED BY <3>2, <3>3, <3>4
  <2> QED BY <1>1, <2>1, <2>2, <2>3
<1> QED BY <1>1, <1>4 DEF Spaced, p

\* An update that runs now ran last an interval ago, or never.
LEMMA RunStep ==
    ASSUME Inv, Tick, NEW u \in Updates
    PROVE  /\ last'[u] \in Nat /\ last'[u] <= now /\ ran'[u] \in Seq(Nat)
           /\ ran'[u] # <<>> => last'[u] = ran'[u][Len(ran'[u])]
           /\ Spaced(ran'[u], Interval[u])
<1>1. /\ last[u] \in Nat /\ ran[u] \in Seq(Nat) /\ now \in Nat
      /\ Interval[u] \in Nat \ {0} /\ (u = "active" => Interval[u] = 1)
      /\ last[u] <= now
      /\ ran[u] # <<>> => last[u] = ran[u][Len(ran[u])]
      /\ Spaced(ran[u], Interval[u])
  BY TickAssumption DEF Inv, TypeOK, StoredTime
<1>2. /\ last'[u] = IF Due(u) THEN now ELSE last[u]
      /\ ran'[u] = IF Due(u) THEN Append(ran[u], now) ELSE ran[u]
  BY DEF Tick, Stamped
<1>3. CASE ~Due(u)
  BY <1>1, <1>2, <1>3
<1>4. CASE Due(u)
  <2>1. now - last[u] >= Interval[u]
    BY <1>1, <1>4 DEF Due
  <2>2. Spaced(Append(ran[u], now), Interval[u])
    BY <1>1, <2>1, AppendSpaced
  <2>3. /\ Append(ran[u], now) \in Seq(Nat)
        /\ now = Append(ran[u], now)[Len(Append(ran[u], now))]
    BY <1>1
  <2> QED BY <1>1, <1>2, <1>4, <2>2, <2>3
<1> QED BY <1>3, <1>4

\* The swap hides the first exit of timeX, shows the second, and turns it round.
LEMMA SwapStep ==
    ASSUME NamesExits, hidden \in SUBSET {"in", "out"}, UpdateTimedExits
    PROVE  /\ NamesExits' /\ hidden' = {tx'.name2} /\ hidden' \in SUBSET {"in", "out"}
<1>1. Named("in", 2652) = {"in"} /\ Named("out", 2651) = {"out"}
  <2> DEFINE in == [name |-> "in", dest |-> 2652]
             out == [name |-> "out", dest |-> 2651]
  <2>1. /\ {x \in Exits : x.name = "in" /\ x.dest = 2652} = {in}
        /\ {x \in Exits : x.name = "out" /\ x.dest = 2651} = {out}
    BY DEF Exits
  <2>2. in.name = "in" /\ out.name = "out"
    OBVIOUS
  <2> HIDE DEF in, out
  <2> QED BY <2>1, <2>2 DEF Named
<1>2. CASE tx = Forth
  <2>1. hidden' = (hidden \cup {"in"}) \ {"out"}
    BY <1>1, <1>2 DEF UpdateTimedExits, Forth
  <2>2. hidden' = {"in"}
    BY <2>1
  <2>3. tx' = Back
    BY <1>2 DEF UpdateTimedExits, Swap, Forth, Back
  <2> QED BY <2>2, <2>3 DEF NamesExits, Back
<1>3. CASE tx = Back
  <2>1. hidden' = (hidden \cup {"out"}) \ {"in"}
    BY <1>1, <1>3 DEF UpdateTimedExits, Back
  <2>2. hidden' = {"out"}
    BY <2>1
  <2>3. tx' = Forth
    BY <1>3 DEF UpdateTimedExits, Swap, Forth, Back
  <2> QED BY <2>2, <2>3 DEF NamesExits, Forth
<1> QED BY <1>2, <1>3 DEF NamesExits

\* The hook reads the time that was stored a moment ago, so for it no time has
\* passed and it returns.
LEMMA HookReturns ==
    ASSUME Inv, ShutdownStep
    PROVE  NothingShutsDown' /\ lastShutdown' \in Nat
<1>1. now \in Nat /\ lastShutdown \in Nat /\ announced = FALSE /\ terminated = FALSE
  BY DEF Inv, TypeOK, NothingShutsDown
<1>2. CASE UNCHANGED <<lastShutdown, announced, terminated>>
  BY <1>1, <1>2 DEF NothingShutsDown
<1>3. CASE lastShutdown' = now /\ UpdateShutdown(now)
  <2>1. ~(now - now >= ShutdownPeriod)
    BY <1>1, TickAssumption
  <2> QED BY <1>1, <1>3, <2>1 DEF UpdateShutdown, NothingShutsDown
<1> QED BY <1>2, <1>3 DEF ShutdownStep

\* A tick of the world keeps the invariant.
LEMMA TickInv == Inv /\ Tick => Inv'
<1> SUFFICES ASSUME Inv, Tick PROVE Inv'
  OBVIOUS
<1>1. UNCHANGED <<now, ltime, delay>> /\ ShutdownStep
  BY DEF Tick
<1>2. last' \in [Updates -> Nat] /\ ran' \in [Updates -> Seq(Nat)]
  <2>1. last' = [u \in Updates |-> last'[u]] /\ ran' = [u \in Updates |-> ran'[u]]
    BY DEF Tick, Stamped
  <2> QED BY <2>1, RunStep
<1>3. StoredTime'
  BY <1>1, RunStep DEF StoredTime
<1>4. NamesExits' /\ ExitsAlternate' /\ hidden' \in SUBSET {"in", "out"}
  <2>1. CASE Due("exit")
    BY <2>1, SwapStep DEF Inv, TypeOK, Tick, ExitsAlternate
  <2>2. CASE ~Due("exit")
    <3>1. UNCHANGED <<tx, hidden>> /\ ran'["exit"] = ran["exit"]
      BY <2>2 DEF Tick, Updates
    <3> QED BY <3>1 DEF Inv, TypeOK, NamesExits, ExitsAlternate
  <2> QED BY <2>1, <2>2
<1>5. NothingShutsDown' /\ lastShutdown' \in Nat
  BY <1>1, HookReturns
<1>6. TypeOK'
  <2>1. /\ now' \in Nat /\ ltime' \in Nat /\ delay' \in Nat
        /\ announced' \in BOOLEAN /\ terminated' \in BOOLEAN
    <3>1. now \in Nat /\ ltime \in Nat /\ delay \in Nat
      BY DEF Inv, TypeOK
    <3>2. announced' = FALSE /\ terminated' = FALSE
      BY <1>5 DEF NothingShutsDown
    <3> QED BY <1>1, <3>1, <3>2
  <2>2. tx' \in {Forth, Back}
    BY <1>4 DEF NamesExits, Forth, Back
  <2> QED BY <1>2, <1>4, <1>5, <2>1, <2>2, ExitTypes DEF TypeOK
<1> QED BY <1>1, <1>3, <1>4, <1>5, <1>6 DEF Inv

\* Every step keeps the invariant.
LEMMA StepInv == Inv /\ [Next]_vars => Inv'
<1> SUFFICES ASSUME Inv, [Next]_vars PROVE Inv'
  OBVIOUS
<1> USE DEF shutdown
<1>1. CASE Clock
  <2>1. now' = now + 1 /\ UNCHANGED <<last, tx, hidden, shutdown, ran>>
    BY <1>1 DEF Clock
  <2>2. now \in Nat /\ Start \in Nat /\ \A u \in Updates : last[u] \in Nat
    BY TickAssumption DEF Inv, TypeOK
  <2>3. TypeOK' /\ Start <= now'
    BY <2>1, <2>2 DEF Inv, TypeOK
  <2>4. StoredTime'
    BY <2>1, <2>2 DEF Inv, StoredTime
  <2> QED BY <2>1, <2>3, <2>4 DEF Inv, NamesExits, ExitsAlternate, NothingShutsDown
<1>2. ASSUME NEW seconds \in Delays, SetShutdown(seconds) PROVE Inv'
  <2>1. /\ ltime' = now /\ delay' = seconds /\ seconds \in Nat
        /\ UNCHANGED <<now, last, tx, hidden, lastShutdown, announced, terminated, ran>>
    BY <1>2, TickAssumption DEF SetShutdown
  <2> QED BY <2>1 DEF Inv, TypeOK, StoredTime, NamesExits, ExitsAlternate, NothingShutsDown
<1>3. CASE UNCHANGED vars
  BY <1>3 DEF vars, Inv, TypeOK, StoredTime, NamesExits, ExitsAlternate, NothingShutsDown
<1> QED BY <1>1, <1>2, <1>3, TickInv DEF Next

-----------------------------------------------------------------------------
(* Theorems *)

\* What always holds of the schedule.
THEOREM TickInvariant == Spec => []Inv
BY InitInv, StepInv, PTL DEF Spec

\* Types of the stored times, the exits and the shutdown timer.
THEOREM TickTypes == Spec => []TypeOK
<1>1. Inv => TypeOK
  BY DEF Inv
<1> QED BY <1>1, TickInvariant, PTL

\* TickWorld stores the time before it runs an update: between any two of its
\* runs, the next one or a later one, lie as many intervals as runs, however
\* long a tick was late and however close together the next ones come.
THEOREM UpdatesDoNotBurst == Spec => []NoBurst
<1>1. Inv => NoBurst
  BY DEF Inv, StoredTime, Spaced, NoBurst
<1> QED BY <1>1, TickInvariant, PTL

\* UpdateTimedExits: from the first swap on one exit is hidden, the one that
\* the next swap shows, whatever was hidden at the start.
THEOREM TimedExitsAlternate == Spec => []ExitsAlternate
<1>1. Inv => ExitsAlternate
  BY DEF Inv
<1> QED BY <1>1, TickInvariant, PTL

\* A defect, for every delay and period: TickWorld stores the time that
\* UpdateShutdown then compares with, so an ordered shutdown is never announced
\* and never happens.
THEOREM ShutdownNeverHappens == Spec => []NothingShutsDown
<1>1. Inv => NothingShutsDown
  BY DEF Inv
<1> QED BY <1>1, TickInvariant, PTL
=============================================================================
