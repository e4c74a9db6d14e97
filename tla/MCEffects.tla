----------------------------- MODULE MCEffects -----------------------------
(* Haste, which gives one stat; the damage bonus, which gives three and is  *)
(* lost in several ways; a timed spell that traps and DMs know; and hiding, *)
(* which has no time.                                                      *)
EXTENDS Effects
=============================================================================
