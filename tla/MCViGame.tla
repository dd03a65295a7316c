------------------------------ MODULE MCViGame ------------------------------
(* ViGame with the numbers of the game itself, except that SKIP_COUNT and  *)
(* KILL_COUNT, which nothing but the final score reads, wrap at two.       *)
EXTENDS ViGame
=============================================================================
