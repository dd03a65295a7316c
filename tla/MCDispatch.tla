----------------------------- MODULE MCDispatch -----------------------------
(* Dispatch on every name, names with something behind them, names cut     *)
(* short, lines that share a beginning with a name, and lines that share   *)
(* none.                                                                   *)
EXTENDS Dispatch

Tails == { << >>, <<" ">>, <<" ", ".", ".">>, <<"2">> }

CommandLines ==
  { Name[u] \o t : u \in Utility, t \in Tails }
    \cup UNION { { SubSeq(Name[u], 1, n) : n \in 1 .. Len(Name[u]) - 1 } : u \in Utility }
    \cup { <<"w">>, <<"w", "d">>, <<"c", "w", "d">>, <<"p", "s">>, <<"s">>, <<" ">>,
           <<"h", "e", "l", "p">>, <<"w", "o", "r", "l", "d">>, <<" ", "l", "s">> }
=============================================================================
