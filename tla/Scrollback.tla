------------------------------ MODULE Scrollback ------------------------------
(***************************************************************************)
(* What the LCD driver promises (lcd_driver/test.s, "proposal 1"): a two   *)
(* row terminal over the last Capacity lines printed.                      *)
(*                                                                         *)
(* text.history is the sequence of those lines, the one being written      *)
(* last.  back is how many lines the user has scrolled away from the       *)
(* bottom, and shown what the two rows of the display show.                *)
(***************************************************************************)
EXTENDS Naturals, Sequences

CONSTANTS Capacity, Width, Char, Blank, PromptSign

VARIABLES text, back, shown
vars == <<text, back, shown>>

EmptyLine == [i \in 0 .. Width - 1 |-> Blank]

(* A new line at the bottom; the oldest one is forgotten when full.        *)
Feed(x) ==
  [history |-> Append(IF Len(x.history) = Capacity THEN Tail(x.history) ELSE x.history,
                      EmptyLine),
   column  |-> 0]

Write(x, c) ==
  LET y == IF x.column = Width THEN Feed(x) ELSE x
  IN [history |-> [y.history EXCEPT ![Len(y.history)][y.column] = c],
      column  |-> y.column + 1]

Erase(x) ==
  IF x.column = 0
    THEN x
    ELSE [history |-> [x.history EXCEPT ![Len(x.history)][x.column - 1] = Blank],
          column  |-> x.column - 1]

Prompted(x) == Write(Write(x, PromptSign), Blank)

(* The two rows seen from b lines above the bottom.                        *)
Window(h, b) ==
  << IF Len(h) = 1 THEN EmptyLine ELSE h[Len(h) - 1 - b], h[Len(h) - b] >>

TypeOK ==
  /\ Len(text.history) \in 1 .. Capacity
  /\ text.column \in 0 .. Width
  /\ back \in Nat /\ (back > 0 => back + 2 <= Len(text.history))

Init ==
  /\ text = Prompted([history |-> <<EmptyLine>>, column |-> 0])
  /\ back = 0
  /\ shown = Window(text.history, 0)

-----------------------------------------------------------------------------
(* Whatever changes the text, or merely ends scrolling, shows the bottom.  *)
AtBottom ==
  /\ back' = 0
  /\ shown' = Window(text'.history, 0)

Type(c)   == text' = Write(text, c) /\ AtBottom
Rubout    == text' = Erase(text) /\ AtBottom
NewPrompt == text' = Prompted(Feed(text)) /\ AtBottom
Settle    == text' = text /\ AtBottom

(* Up and Down move the window one line, and stop at the ends.             *)
Move(b) ==
  /\ Len(text.history) >= 2
  /\ text' = text
  /\ back' = b
  /\ shown' = Window(text.history, b)

Up   == Move(IF back + 2 < Len(text.history) THEN back + 1 ELSE back)
Down == Move(IF back > 0 THEN back - 1 ELSE 0)

(* With a single line there is nothing to scroll to.  What the rows show   *)
(* when a scroll key is pressed all the same is left open here: the        *)
(* driver shows lines never written (see ScrollsOnlyWrittenLines in        *)
(* ShellTerminal).                                                         *)
NothingToScroll ==
  /\ Len(text.history) = 1
  /\ text' = text
  /\ back' = 0
  /\ shown' \in Seq([0 .. Width - 1 -> Char])

Next ==
  \/ \E c \in Char : Type(c)
  \/ Rubout \/ NewPrompt \/ Settle
  \/ Up \/ Down \/ NothingToScroll

Spec == Init /\ [][Next]_vars
=============================================================================
