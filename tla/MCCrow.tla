------------------------------- MODULE MCCrow -------------------------------
(* The instance of Crow for TLC: two clients on one worker, as an id can be  *)
(* met again only by connections of the same timer.                          *)
EXTENDS Crow
=============================================================================
