------------------------------ MODULE Presence ------------------------------
(* What logging in promises: a session plays at most one character in its   *)
(* life, the character exists when it begins, and a name that is taken is   *)
(* not taken a second time.                                                 *)
CONSTANTS Sessions, Names, None

VARIABLES
    playing,    \* the name a session plays, or None
    accounts,   \* the names that exist
    spent       \* sessions that have played

vars == <<playing, accounts, spent>>

Init ==
    /\ playing = [s \in Sessions |-> None]
    /\ accounts \in SUBSET Names
    /\ spent = {}

SignIn(s, n) ==
    /\ s \notin spent /\ n \in accounts
    /\ playing' = [playing EXCEPT ![s] = n]
    /\ spent' = spent \cup {s}
    /\ UNCHANGED accounts

\* A new character, which its creator plays unless it could not be saved.
SignUp(s, n) ==
    /\ s \notin spent /\ n \notin accounts
    /\ accounts' = accounts \cup {n}
    /\ \/ playing' = [playing EXCEPT ![s] = n] /\ spent' = spent \cup {s}
       \/ UNCHANGED <<playing, spent>>

\* A player leaves a name for good: suicide, or quitting below level 6.
Delete(n) ==
    /\ \E s \in Sessions : playing[s] = n
    /\ accounts' = accounts \ {n}
    /\ UNCHANGED <<playing, spent>>

SignOut(s) ==
    /\ playing[s] /= None
    /\ playing' = [playing EXCEPT ![s] = None]
    /\ UNCHANGED <<accounts, spent>>

Next ==
    \/ \E s \in Sessions, n \in Names : SignIn(s, n) \/ SignUp(s, n)
    \/ \E n \in Names : Delete(n)
    \/ \E s \in Sessions : SignOut(s)

Spec == Init /\ [][Next]_vars
=============================================================================
