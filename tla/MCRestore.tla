----------------------------- MODULE MCRestore -----------------------------
\* A player with a bank account, two rooms, and objects that are made while
\* the game runs.  The player is saved alone, too; banks and rooms are written
\* by full flushes, which a crash cuts off anywhere and in which one command
\* comes between the players and the rooms.
EXTENDS Restore, TLC

CONSTANTS r1, r2, p1, b1

MCWearSlot == [o \in Objects |-> None]
MCBankOf == p1 :> b1
MCNoStatic == [o \in Objects |-> None]
MCBeside == {<<"none", FALSE>>, <<"owners", TRUE>>}
RoomSymmetry == Permutations({r1, r2})
=============================================================================
