--------------------------- MODULE MCPersistence ---------------------------
(***************************************************************************)
(* Instances of Persistence: a player, a bank account, a room, and what    *)
(* the commands of the game touch and save.                                *)
(***************************************************************************)
EXTENDS Persistence, TLC

CONSTANTS p1, b1, r1, s1

MCBankOf == p1 :> b1
MCNoBank == [p \in {} |-> b1]

\* Calls of QueueSave, or of the Save functions.
Queued(S) == <<[inLine |-> FALSE, what |-> S]>>
InLine(S) == <<[inLine |-> TRUE, what |-> S]>>

\* Drop or get an object; fill or empty a container on the floor; make an object
\* in the room; walk; buy or sell; a potion of youth; deposit or withdraw; a
\* tick's updates.
Drop     == [marked |-> {p1, r1}, silent |-> {},   asks |-> Queued({p1})]
Search   == [marked |-> {r1},     silent |-> {},   asks |-> <<>>]
Make     == [marked |-> {},       silent |-> {r1}, asks |-> <<>>]
Walk     == [marked |-> {},       silent |-> {p1}, asks |-> <<>>]
Buy      == [marked |-> {p1},     silent |-> {},   asks |-> Queued({p1})]
Drink    == [marked |-> {p1},     silent |-> {},   asks |-> InLine({p1})]
Deposit  == [marked |-> {p1, b1}, silent |-> {},   asks |-> Queued({p1, b1})]
Nothing  == [marked |-> {},       silent |-> {},   asks |-> <<>>]

MCPlay       == {Drop, Search, Make, Walk}
MCTrading    == {Buy, Deposit, Drink}
MCQuietTicks == {Nothing}

\* How often each entity changes: the floor of a room twice, or a player.
MCBankOnce   == [e \in Entity |-> IF e \in Players THEN 2 ELSE 1]
MCTwoOnFloor == [e \in Entity |-> IF e \in Rooms THEN 2 ELSE 1]
=============================================================================
