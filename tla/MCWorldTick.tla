---------------------------- MODULE MCWorldTick ----------------------------
(* Instances of WorldTick: the code's intervals of 20, 150 and 3600 seconds *)
(* scaled down, each different from the others.                             *)
EXTENDS WorldTick

MCInterval == [u \in Updates |-> CASE u = "active" -> 1
                                   [] u = "player" -> 2
                                   [] u = "random" -> 2
                                   [] u = "time"   -> 3
                                   [] u = "exit"   -> 4]
=============================================================================
