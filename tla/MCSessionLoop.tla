--------------------------- MODULE MCSessionLoop ---------------------------
(* Model checking instance of SessionLoop. *)
EXTENDS SessionLoop
=============================================================================
