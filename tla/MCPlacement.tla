---------------------------- MODULE MCPlacement ----------------------------
\* Two helmets and two weapons.  The mutators let any object hold any other,
\* so these are the containers too.
EXTENDS Placement, TLC

CONSTANTS r1, p1, p2, m1, b1, hat1, hat2, club1, club2

MCWearSlot == [o \in Objects |-> IF o \in {hat1, hat2} THEN "head" ELSE Wield]

Alike ==
    Permutations({hat1, hat2}) \cup Permutations({club1, club2}) \cup Permutations({p1, p2})
=============================================================================
