------------------------- MODULE RateLimiterProofs -------------------------
(***************************************************************************)
(* The throttle's window bound, for every burst, rate, window and clock.   *)
(***************************************************************************)
EXTENDS RateLimiter, SequenceTheorems, TLAPS

\* newRateLimiter's defaults make the effective limit positive and no larger
\* than either of the two rates allow() tests.
LEMMA LimitPositive ==
    /\ Limit \in Nat \ {0}
    /\ burst \in Int /\ maxInWindow \in Int
    /\ \A k \in Int : (k < burst /\ k < maxInWindow) <=> k < Limit
    /\ \A k \in Int : (k >= burst \/ k >= maxInWindow) <=> k >= Limit
<1>1. burst \in Nat \ {0}
  BY RateAssumption DEF burst, DefaultBurstRate
<1>2. sustain \in Nat \ {0}
  BY RateAssumption DEF sustain, DefaultSustainRate
<1>3. maxInWindow \in Nat \ {0}
  <2> DEFINE product == sustain * Window
             scaled == product \div Second
  <2>1. product \in Nat
    BY <1>2, RateAssumption
  <2>2. scaled \in Int
    <3> HIDE DEF product
    <3> QED  BY <2>1, RateAssumption
  <2>3. maxInWindow = IF scaled <= 0 THEN sustain ELSE scaled
    BY DEF maxInWindow
  <2> HIDE DEF scaled
  <2> QED  BY <1>2, <2>2, <2>3
<1> QED  BY <1>1, <1>3 DEF Limit

\* What pruning i stamps leaves.
LEMMA KeptTail ==
    ASSUME TypeOK, NEW i \in 0..Len(stamps)
    PROVE  /\ Kept(i) \in Seq(Nat)
           /\ Len(Kept(i)) = Len(stamps) - i
           /\ \A j \in 1..Len(Kept(i)) : Kept(i)[j] = stamps[i + j]
BY DEF TypeOK, Kept

\* The invariant holds of a new limiter.
LEMMA InitIInv == Init => IInv
BY LimitPositive DEF Init, IInv, TypeOK, History, WindowBound, RefusalJustified

\* Time passes: stamps only get older.
LEMMA TickIInv == IInv /\ Tick => IInv'
<1> SUFFICES ASSUME IInv, Tick PROVE IInv'
  OBVIOUS
<1> USE RateAssumption DEF IInv, TypeOK
<1>1. TypeOK'
  BY DEF Tick
<1>2. History'
  <2>1. /\ now' = now + 1 /\ now \in Nat
        /\ UNCHANGED <<stamps, accepted, dropped>>
        /\ accepted \in Seq(Nat) /\ dropped \in 0..Len(accepted)
    BY DEF Tick
  <2>2. \A i \in 1..Len(accepted) : accepted[i] \in Nat /\ accepted[i] <= now'
    BY <2>1 DEF History
  <2>3. \A i \in 1..dropped : accepted[i] <= now' - Window
    BY <2>1, <2>2 DEF History
  <2> QED  BY <2>1, <2>2, <2>3 DEF History
<1>3. WindowBound' /\ RefusalJustified'
  BY DEF Tick, WindowBound, RefusalJustified
<1> QED  BY <1>1, <1>2, <1>3

\* An accepted command is stamped last.
LEMMA AcceptIInv == IInv /\ Accept => IInv'
<1> SUFFICES ASSUME IInv, Accept PROVE IInv'
  OBVIOUS
<1> Window \in Nat /\ Limit \in Nat \ {0}
  BY RateAssumption, LimitPositive
<1>1. PICK i \in 0..Len(stamps) :
        /\ Prunes(i)
        /\ Len(stamps) - i < burst
        /\ Len(stamps) - i < maxInWindow
        /\ stamps' = Append(Kept(i), now)
        /\ dropped' = dropped + i
  BY DEF Accept
<1>a. Len(stamps) - i \in Int
  BY <1>1 DEF IInv, TypeOK
<1>2. /\ Len(stamps) - i < Limit
      /\ now' = now /\ now \in Nat
      /\ accepted' = Append(accepted, now)
      /\ stamps \in Seq(Nat) /\ accepted \in Seq(Nat) /\ dropped \in 0..Len(accepted)
  BY <1>1, <1>a, LimitPositive DEF Accept, IInv, TypeOK
<1>3. /\ Len(accepted') = Len(accepted) + 1
      /\ \A k \in 1..Len(accepted) : accepted'[k] = accepted[k]
      /\ accepted'[Len(accepted) + 1] = now
  BY <1>2
<1>4. /\ Len(stamps') = Len(stamps) - i + 1
      /\ \A j \in 1..(Len(stamps) - i) : stamps'[j] = stamps[i + j]
      /\ stamps'[Len(stamps) - i + 1] = now
      /\ stamps' \in Seq(Nat)
  BY <1>1, <1>2, KeptTail DEF IInv
<1>5. TypeOK'
  BY <1>1, <1>2, <1>3, <1>4 DEF IInv, TypeOK, History, Accept
<1>6. History'
  <2>1. /\ Len(stamps') = Len(accepted') - dropped'
        /\ Len(stamps') <= Limit
    BY <1>1, <1>2, <1>3, <1>4 DEF IInv, History
  <2>2. \A k \in 1..Len(stamps') : stamps'[k] = accepted'[dropped' + k]
    <3> SUFFICES ASSUME NEW k \in 1..Len(stamps')
                 PROVE  stamps'[k] = accepted'[dropped' + k]
      OBVIOUS
    <3> i \in Nat /\ Len(stamps) \in Nat /\ Len(accepted) \in Nat /\ dropped \in Nat
      BY <1>1, <1>2
    <3> k \in Int
      BY <1>4
    <3>1. Len(stamps) = Len(accepted) - dropped /\ dropped' + k = dropped + (i + k)
      BY <1>1 DEF IInv, History
    <3>2. CASE k <= Len(stamps) - i
      <4>1. i + k \in 1..Len(stamps) /\ dropped + (i + k) \in 1..Len(accepted)
        BY <3>1, <3>2, <1>4
      <4>2. stamps[i + k] = accepted[dropped + (i + k)]
        BY <4>1 DEF IInv, History
      <4> QED  BY <3>1, <3>2, <4>1, <4>2, <1>3, <1>4
    <3>3. CASE k = Len(stamps) - i + 1
      <4>1. dropped' + k = Len(accepted) + 1
        BY <3>1, <3>3
      <4>2. stamps'[k] = now
        BY <3>3, <1>4
      <4> QED  BY <4>1, <4>2, <1>3
    <3>4. k \in Nat /\ k <= Len(stamps) - i + 1
      BY <1>4
    <3> QED  BY <3>2, <3>3, <3>4
  <2>3. \A k \in 1..Len(accepted') : accepted'[k] <= now'
    BY <1>2, <1>3 DEF IInv, History, TypeOK
  <2>4. \A j, k \in 1..Len(accepted') : j <= k => accepted'[j] <= accepted'[k]
    BY <1>2, <1>3 DEF IInv, History, TypeOK
  <2>5. \A k \in 1..dropped' : accepted'[k] <= now' - Window
    <3> SUFFICES ASSUME NEW k \in 1..dropped' PROVE accepted'[k] <= now' - Window
      OBVIOUS
    <3>1. CASE k <= dropped
      BY <3>1, <1>1, <1>2, <1>3 DEF IInv, History
    <3>2. CASE k > dropped
      <4>1. k - dropped \in 1..i /\ k \in 1..Len(accepted)
        BY <3>2, <1>1, <1>2 DEF IInv, History
      <4>2. stamps[k - dropped] = accepted[k]
        BY <4>1, <1>2 DEF IInv, History
      <4>3. stamps[k - dropped] <= now - Window
        BY <4>1, <1>1 DEF Prunes
      <4> QED  BY <4>1, <4>2, <4>3, <1>2, <1>3
    <3> k \in Int /\ dropped \in Int
      BY <1>1, <1>2
    <3> QED  BY <3>1, <3>2
  <2> QED  BY <2>1, <2>2, <2>3, <2>4, <2>5 DEF History
<1>7. WindowBound'
  <2> SUFFICES ASSUME NEW j \in 1..Len(accepted'), NEW k \in 1..Len(accepted'),
                      j + Limit <= k
               PROVE  accepted'[j] + Window <= accepted'[k]
    BY DEF WindowBound
  <2>1. CASE k <= Len(accepted)
    BY <2>1, <1>2, <1>3 DEF IInv, WindowBound
  <2>2. CASE k = Len(accepted) + 1
    <3>1. j \in 1..dropped'
      BY <2>2, <1>1, <1>2 DEF IInv, History
    <3>2. accepted'[j] <= now - Window
      BY <3>1, <1>6, <1>2 DEF History
    <3>3. accepted'[j] \in Nat /\ accepted'[k] = now
      BY <2>2, <1>3, <1>5 DEF TypeOK
    <3> QED  BY <3>2, <3>3, <1>2
  <2> Len(accepted) \in Nat /\ k \in Int /\ k <= Len(accepted) + 1
    BY <1>2, <1>3
  <2> QED  BY <2>1, <2>2
<1>8. RefusalJustified'
  BY DEF Accept, RefusalJustified
<1> QED  BY <1>5, <1>6, <1>7, <1>8 DEF IInv

\* A refused command leaves no stamp.
LEMMA RefuseIInv == IInv /\ Refuse => IInv'
<1> SUFFICES ASSUME IInv, Refuse PROVE IInv'
  OBVIOUS
<1> Window \in Nat /\ Limit \in Nat \ {0}
  BY RateAssumption, LimitPositive
<1>1. PICK i \in 0..Len(stamps) :
        /\ Prunes(i)
        /\ Len(stamps) - i >= burst \/ Len(stamps) - i >= maxInWindow
        /\ stamps' = Kept(i)
        /\ dropped' = dropped + i
  BY DEF Refuse
<1>a. Len(stamps) - i \in Int
  BY <1>1 DEF IInv, TypeOK
<1>2. /\ Len(stamps) - i >= Limit
      /\ now' = now /\ now \in Nat
      /\ accepted' = accepted
      /\ stamps \in Seq(Nat) /\ accepted \in Seq(Nat) /\ dropped \in 0..Len(accepted)
  BY <1>1, <1>a, LimitPositive DEF Refuse, IInv, TypeOK
<1>3. /\ Len(stamps') = Len(stamps) - i
      /\ \A j \in 1..(Len(stamps) - i) : stamps'[j] = stamps[i + j]
      /\ stamps' \in Seq(Nat)
  BY <1>1, <1>2, KeptTail DEF IInv
\* a full window has nothing to prune
<1>4. i = 0 /\ Len(stamps) = Limit
  <2>1. i \in Nat /\ Len(stamps) \in Nat
    BY <1>1, <1>2
  <2>2. Len(stamps) <= Limit
    BY DEF IInv, History
  <2> QED  BY <2>1, <2>2, <1>2
<1>b. stamps' = stamps /\ dropped' = dropped
  <2>1. Kept(i) = stamps
    BY <1>2, <1>4, SubSeqFull DEF Kept
  <2> QED  BY <1>1, <1>2, <1>4, <2>1
<1>5. TypeOK'
  BY <1>2, <1>b DEF IInv, TypeOK, Refuse
<1>6. History' /\ WindowBound'
  BY <1>2, <1>b DEF IInv, History, WindowBound
<1>7. RefusalJustified'
  <2>a. Len(stamps) = Len(accepted) - dropped /\ Len(accepted) \in Nat /\ dropped \in Nat
    BY <1>2 DEF IInv, History
  <2>1. /\ Len(stamps) = Limit /\ Len(accepted) >= Limit /\ 1 \in 1..Len(stamps)
        /\ dropped + 1 = Len(accepted) - Limit + 1
    BY <1>4, <2>a
  <2>2. stamps[1] > now - Window
    BY <1>1, <1>2, <1>4, <2>1 DEF Prunes
  <2>3. stamps[1] = accepted[Len(accepted) - Limit + 1]
    <3>1. stamps[1] = accepted[dropped + 1]
      BY <2>1 DEF IInv, History
    <3> QED  BY <2>1, <3>1
  <2> QED  BY <1>2, <2>1, <2>2, <2>3 DEF RefusalJustified
<1> QED  BY <1>5, <1>6, <1>7 DEF IInv

\* Every step keeps the invariant.
LEMMA StepIInv == IInv /\ [Next]_vars => IInv'
<1>1. IInv /\ UNCHANGED vars => IInv'
  BY DEF vars, IInv, TypeOK, History, WindowBound, RefusalJustified
<1> QED  BY <1>1, TickIInv, AcceptIInv, RefuseIInv DEF Next

\* The invariant behind the throttle: what allow() remembers is the unexpired
\* tail of what it accepted.
THEOREM LimiterInvariant == Spec => []IInv
BY InitIInv, StepIInv, PTL DEF Spec

\* No window of any length holds more accepted commands than the burst and the
\* sustained rate allow (the comment on rateLimiter), for every setting.
THEOREM LimiterWindowBound == Spec => []WindowBound
<1>1. IInv => WindowBound
  BY DEF IInv
<1> QED  BY <1>1, LimiterInvariant, PTL

\* A refused command found a full window: allow() never throttles a client
\* that kept to the rate.
THEOREM LimiterRefusalJustified == Spec => []RefusalJustified
<1>1. IInv => RefusalJustified
  BY DEF IInv
<1> QED  BY <1>1, LimiterInvariant, PTL

\* The state of the limiter and its histories keep their types.
THEOREM LimiterTypes == Spec => []TypeOK
<1>1. IInv => TypeOK
  BY DEF IInv
<1> QED  BY <1>1, LimiterInvariant, PTL

\* allow() remembers, in order, exactly the accepted stamps it has not pruned,
\* never more than the limit, and prunes only what has left the window.
THEOREM LimiterRemembers == Spec => []History
<1>1. IInv => History
  BY DEF IInv
<1> QED  BY <1>1, LimiterInvariant, PTL
=============================================================================
