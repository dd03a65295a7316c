------------------------------ MODULE KeyQueue ------------------------------
(***************************************************************************)
(* What the keyboard buffer of the vi-move game promises the game: the     *)
(* scan codes that arrived, each once and in the order they came.  It does *)
(* not promise to keep them: a restart forgets what is waiting, and so     *)
(* does one scan code too many, because the buffer does not tell full from *)
(* empty.                                                                  *)
(***************************************************************************)
EXTENDS Naturals, Sequences

CONSTANTS Capacity,  \* KEY_BUF_SIZE
          Item       \* the scan codes

VARIABLES pending,   \* the scan codes that wait, oldest first
          taken,     \* the scan code the game is handling
          quiet      \* none has arrived since the restart

vars == <<pending, taken, quiet>>

Init ==
  /\ pending = << >>
  /\ taken \in Item
  /\ quiet = TRUE

Arrive ==
  /\ Len(pending) < Capacity
  /\ \E k \in Item : pending' = Append(pending, k)
  /\ quiet' = FALSE
  /\ UNCHANGED taken

(* A byte that is no scan code for the game.                               *)
Ignore ==
  /\ quiet' = FALSE
  /\ UNCHANGED <<pending, taken>>

(* One too many: nothing is left, or only the newest when the game was     *)
(* about to take the oldest.                                               *)
Overflow ==
  /\ \/ Len(pending) = Capacity - 1 /\ pending' = << >>
     \/ Len(pending) = Capacity /\ \E k \in Item : pending' = <<k>>
  /\ quiet' = FALSE
  /\ UNCHANGED taken

Take ==
  /\ pending # << >>
  /\ taken' = Head(pending)
  /\ pending' = Tail(pending)
  /\ UNCHANGED quiet

Restart ==
  /\ pending' = << >>
  /\ quiet' = TRUE
  /\ UNCHANGED taken

Next == Arrive \/ Ignore \/ Overflow \/ Take \/ Restart

Spec == Init /\ [][Next]_vars
=============================================================================
