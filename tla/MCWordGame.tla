----------------------------- MODULE MCWordGame -----------------------------
(* WordGame on a buffer of three lines of three columns, so that prompts   *)
(* wrap and every answer drops lines.  The list has three words, short and *)
(* long, of which two are reached: the first comes round again and the     *)
(* last is never asked.                                                    *)
EXTENDS WordGame

Words == [i \in 0 .. 2 |-> CASE i = 0 -> <<"a", "b">>
                              [] i = 1 -> <<"b", "a", "b">>
                              [] i = 2 -> <<"a", "a">>]
Command == <<"a">>
Intro == <<"b">>
Question == <<"a">>
GuessPrompt == <<">", " ">>
Verdict == <<"b">>
=============================================================================
