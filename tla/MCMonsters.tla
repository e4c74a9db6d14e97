----------------------------- MODULE MCMonsters -----------------------------
(* Two players, two slots that wait two seconds, and no more ids than slots. *)
EXTENDS Monsters
=============================================================================
