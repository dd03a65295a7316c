----------------------------- MODULE MCDebugger -----------------------------
(* Debugger on a main loop that calls a routine from one place, which may  *)
(* call itself or return.                                                  *)
EXTENDS Debugger

Recursion ==
  ( 0 :> [op |-> "JSR", to |-> {2}] @@
    1 :> [op |-> "GO",  to |-> {0, 5}] @@
    2 :> [op |-> "GO",  to |-> {3, 4}] @@
    3 :> [op |-> "JSR", to |-> {2}] @@
    4 :> [op |-> "RTS", to |-> {}] @@
    5 :> [op |-> "FF",  to |-> {}] )

Strays == {Elsewhere, 2}
=============================================================================
