---------------------------- MODULE RateLimiter ----------------------------
(***************************************************************************)
(* The sliding-window command throttle of one session                      *)
(* (internal/session/ratelimit.go).  Every decoded line asks allow(now);   *)
(* the limiter forgets the stamps that left the window, refuses when the   *)
(* window is full and remembers the stamp otherwise.                       *)
(*                                                                         *)
(* accepted and dropped are history variables: every stamp ever accepted,  *)
(* and how many of them the limiter has pruned.                            *)
(***************************************************************************)
EXTENDS Integers, Sequences

CONSTANTS Burst,      \* requested burst size; <= 0 asks for the default
          Sustain,    \* requested commands per second; <= 0 asks for the default
          Window,     \* length of the window, in clock units
          Second,     \* clock units per second
          MaxTime     \* bound on the clock, for model checking

DefaultBurstRate   == 10
DefaultSustainRate == 30

ASSUME RateAssumption ==
    /\ Burst \in Int
    /\ Sustain \in Int
    /\ Window \in Nat \ {0}
    /\ Second \in Nat \ {0}
    /\ MaxTime \in Nat

burst   == IF Burst <= 0 THEN DefaultBurstRate ELSE Burst
sustain == IF Sustain <= 0 THEN DefaultSustainRate ELSE Sustain

\* The sustained rate scaled to the window; a window too short for one whole
\* command falls back to the per-second rate.
maxInWindow ==
    LET scaled == (sustain * Window) \div Second
    IN  IF scaled <= 0 THEN sustain ELSE scaled

Limit == IF burst < maxInWindow THEN burst ELSE maxInWindow

VARIABLES now, stamps, accepted, dropped,
          verdict     \* what allow returned last at this instant
vars == <<now, stamps, accepted, dropped, verdict>>

Init ==
    /\ now = 0
    /\ stamps = <<>>
    /\ accepted = <<>>
    /\ dropped = 0
    /\ verdict = "none"

Tick ==
    /\ now < MaxTime
    /\ now' = now + 1
    /\ verdict' = "none"
    /\ UNCHANGED <<stamps, accepted, dropped>>

\* A cutoff one instant early, or late.
EarlyPrune(i) ==
    /\ \A j \in 1..i : stamps[j] <= now - Window + 1
    /\ i < Len(stamps) => stamps[i + 1] > now - Window + 1
LatePrune(i) ==
    /\ \A j \in 1..i : stamps[j] < now - Window
    /\ i < Len(stamps) => stamps[i + 1] >= now - Window

\* i stamps at the front have left the window, and the one after them has not.
Prunes(i) ==
    /\ \A j \in 1..i : stamps[j] <= now - Window
    /\ i < Len(stamps) => stamps[i + 1] > now - Window

KeptShort(i) == SubSeq(stamps, i + 2, Len(stamps))
Kept(i) == SubSeq(stamps, i + 1, Len(stamps))

\* allow(now): prune, then refuse on a full window or record the stamp.
Accept ==
    /\ \E i \in 0..Len(stamps) :
         /\ Prunes(i)
         /\ Len(stamps) - i < burst
         /\ Len(stamps) - i < maxInWindow
         /\ stamps' = Append(Kept(i), now)
         /\ dropped' = dropped + i
    /\ accepted' = Append(accepted, now)
    /\ verdict' = "accepted"
    /\ UNCHANGED now

\* A limiter that also counts what it refused.
RefuseRemembers ==
    /\ \E i \in 0..Len(stamps) :
         /\ Prunes(i)
         /\ \/ Len(stamps) - i >= burst
            \/ Len(stamps) - i >= maxInWindow
         /\ stamps' = Append(Kept(i), now)
         /\ dropped' = dropped + i
    /\ verdict' = "refused"
    /\ UNCHANGED <<now, accepted>>

Refuse ==
    /\ \E i \in 0..Len(stamps) :
         /\ Prunes(i)
         /\ \/ Len(stamps) - i >= burst
            \/ Len(stamps) - i >= maxInWindow
         /\ stamps' = Kept(i)
         /\ dropped' = dropped + i
    /\ verdict' = "refused"
    /\ UNCHANGED <<now, accepted>>

Next == Tick \/ Accept \/ Refuse

Spec == Init /\ [][Next]_vars

-----------------------------------------------------------------------------

\* Types of the limiter's state and of the two histories.
TypeOK ==
    /\ now \in Nat
    /\ stamps \in Seq(Nat)
    /\ accepted \in Seq(Nat)
    /\ dropped \in 0..Len(accepted)
    /\ verdict \in {"none", "accepted", "refused"}

\* What allow remembers is the unpruned tail of what it accepted, in order,
\* and everything it forgot had left the window.
History ==
    /\ Len(stamps) = Len(accepted) - dropped
    /\ Len(stamps) <= Limit
    /\ \A i \in 1..Len(stamps) : stamps[i] = accepted[dropped + i]
    /\ \A i \in 1..Len(accepted) : accepted[i] <= now
    /\ \A i, j \in 1..Len(accepted) : i <= j => accepted[i] <= accepted[j]
    /\ \A i \in 1..dropped : accepted[i] <= now - Window

\* The comment on rateLimiter: however the clock and the commands interleave,
\* no window ever holds more accepted commands than the burst and the
\* sustained rate allow - the command Limit places later comes at least one
\* whole window later.
WindowBound ==
    \A i, j \in 1..Len(accepted) : i + Limit <= j => accepted[i] + Window <= accepted[j]

\* allow refuses only when it must: after a refused command, Limit accepted
\* commands lie inside the window that ends now.
RefusalJustified ==
    verdict = "refused" =>
        /\ Len(accepted) >= Limit
        /\ accepted[Len(accepted) - Limit + 1] > now - Window

IInv == TypeOK /\ History /\ WindowBound /\ RefusalJustified
=============================================================================
