---------------------------- MODULE MCPs2Keyboard ----------------------------
(* Ps2Keyboard with a buffer of four, a plain key and an extended one: the  *)
(* pointers wrap, and the buffer can fill up at every step of the taking.  *)
EXTENDS Ps2Keyboard
=============================================================================
