---------------------------- MODULE ShellTerminal ----------------------------
(***************************************************************************)
(* The key loop of lcd_driver/test.s and the LCD terminal it drives: one   *)
(* action for each way a key is handled, and the output of a running       *)
(* command.  Where keys come from is left to Console.tla, and what a       *)
(* command line makes the shell do to Dispatch.tla: here a command prints  *)
(* any characters it likes before it returns to the key loop.  The word    *)
(* game of shell/test.s is not such a command: it reads keys itself, can   *)
(* scroll, and prints in scroll mode.                                      *)
(***************************************************************************)
EXTENDS LcdTerminal, Sequences

CONSTANTS CmdMax   \* CMD_MAX, 64 in the program

ASSUME CmdMaxAssumption == CmdMax \in Nat

VARIABLES
  tty,       \* the terminal
  cmd,       \* CMD_BUFFER up to CMD_INDEX
  running    \* process_shell_cmd has been called and has not returned

vars == <<tty, cmd, running>>

(* The driver's variables stay in their ranges (a column is stored to only *)
(* below LCD_COLS, and is LCD_COLS while the wrap is pending) and          *)
(* CMD_INDEX in CMD_BUFFER.                                                *)
TypeOK ==
  /\ tty \in Terminal
  /\ cmd \in Seq(Char) /\ Len(cmd) <= CmdMax
  /\ running \in BOOLEAN

Init ==
  /\ tty = PrintPrompt(PoweredOn)
  /\ cmd = << >>
  /\ running = FALSE

-----------------------------------------------------------------------------
(* Every key but the two scroll keys first ends scroll mode.               *)
LeaveScrollMode(t) == IF t.scrollMode = 0 THEN t ELSE ExitScrollMode(t)

KeyUp ==
  /\ ~running
  /\ tty' = ScrollUp(tty)
  /\ UNCHANGED <<cmd, running>>

KeyDown ==
  /\ ~running
  /\ tty' = ScrollDown(tty)
  /\ UNCHANGED <<cmd, running>>

(* Mutant: CMD_MAX is not checked.                                          *)
KeyChar_NoLimit(c) ==
  /\ ~running
  /\ tty' = PrintChar(LeaveScrollMode(tty), c)
  /\ cmd' = Append(cmd, c)
  /\ UNCHANGED running

KeyChar(c) ==
  /\ ~running
  /\ Len(cmd) < CmdMax
  /\ tty' = PrintChar(LeaveScrollMode(tty), c)
  /\ cmd' = Append(cmd, c)
  /\ UNCHANGED running

(* Mutant: the character is echoed before CMD_MAX is checked.               *)
KeyCharRefused_Echoed ==
  /\ ~running
  /\ Len(cmd) >= CmdMax
  /\ tty' = PrintChar(LeaveScrollMode(tty), Blank)
  /\ UNCHANGED <<cmd, running>>

(* The command buffer is full: the character is not taken.                 *)
KeyCharRefused ==
  /\ ~running
  /\ Len(cmd) >= CmdMax
  /\ tty' = LeaveScrollMode(tty)
  /\ UNCHANGED <<cmd, running>>

KeyBackspace ==
  /\ ~running
  /\ cmd # << >>
  /\ tty' = LcdBackspace(LeaveScrollMode(tty))
  /\ cmd' = SubSeq(cmd, 1, Len(cmd) - 1)
  /\ UNCHANGED running

KeyBackspaceRefused ==
  /\ ~running
  /\ cmd = << >>
  /\ tty' = LeaveScrollMode(tty)
  /\ UNCHANGED <<cmd, running>>

ResetShell(t) == PrintPrompt(LcdNewLine(t))

KeyEnterEmpty ==
  /\ ~running
  /\ cmd = << >>
  /\ tty' = ResetShell(LeaveScrollMode(tty))
  /\ UNCHANGED <<cmd, running>>

(* process_shell_cmd resets CMD_INDEX before it looks at the command.      *)
KeyEnterCommand ==
  /\ ~running
  /\ cmd # << >>
  /\ tty' = LeaveScrollMode(tty)
  /\ cmd' = << >>
  /\ running' = TRUE

CommandPrints(c) ==
  /\ running
  /\ tty' = PrintChar(tty, c)
  /\ UNCHANGED <<cmd, running>>

CommandReturns ==
  /\ running
  /\ tty' = ResetShell(tty)
  /\ cmd' = << >>
  /\ running' = FALSE

Next ==
  \/ KeyUp \/ KeyDown
  \/ \E c \in Char : KeyChar(c)
  \/ KeyCharRefused
  \/ KeyBackspace \/ KeyBackspaceRefused
  \/ KeyEnterEmpty \/ KeyEnterCommand
  \/ \E c \in Char : CommandPrints(c)
  \/ CommandReturns

Spec == Init /\ [][Next]_vars

-----------------------------------------------------------------------------
(* Properties                                                              *)

(* What a user sees is what the driver's buffer holds.  The driver writes  *)
(* the display twice over, character by character as it prints and in      *)
(* whole rows when it scrolls; after any number of both, wraps and         *)
(* backspaces included, the two agree.                                     *)
DisplayShowsBuffer == ShowsBuffer(tty)

(* The controller's own cursor, which moves by itself after every data     *)
(* write, is in the lower row at the driver's column whenever the next     *)
(* character would be written through it (bug report 55cdfec).             *)
CursorAtColumn == CursorInPlace(tty)

(* Once there are two lines, scrolling never shows a line that has been    *)
(* overwritten or was never written: the rows of the view are two          *)
(* successive lines between the oldest and the current one.                *)
ViewWithinHistory == ViewInHistory(tty)

(* The same without the condition, as the comment of the driver states it: *)
(* "Up button should not do anything if row 1 displays the oldest entry in *)
(* the scroll buffer", and up works "when ... scroll buffer got something  *)
(* to show".                                                               *)
ScrollsOnlyWrittenLines ==
  tty.scrollMode = 1 =>
    \/ tty.lcd = MeantRows([tty EXCEPT !.scrollMode = 0])
    \/ Distance(tty.oldestLine, tty.viewTop) < Distance(tty.oldestLine, tty.currentLine)

(* Down takes back what Up did and Up what Down did, wherever the view is  *)
(* and wherever the circular buffer wraps ("the behavior is opposite").    *)
UpAndDownAreOpposite ==
  Retained(tty) >= 2 =>
    LET up == ScrollUp(tty)
        down == ScrollDown(tty)
    IN /\ up.lcd # tty.lcd => ScrollDown(up).lcd = tty.lcd
       /\ down.lcd # tty.lcd => ScrollUp(down).lcd = tty.lcd

(* What is to the left of the cursor is the end of the prompt and the      *)
(* command typed after it, so what a user reads on the last line is what   *)
(* Enter will run, however the line was wrapped and edited.                *)
EchoIsEndOfCommand ==
  ~running =>
    LET echoed == <<PromptSign, Blank>> \o cmd
        n == Len(echoed)
    IN /\ tty.currentCol <= n
       /\ \A i \in 0 .. tty.currentCol - 1 :
            tty.buffer[tty.currentLine][i] = echoed[n - tty.currentCol + i + 1]

(* A backspace takes a character from the command only together with one   *)
(* from the display ("At start of line, can't backspace").                 *)
BackspaceErasesOne ==
  [][ ~running' /\ Len(cmd') = Len(cmd) - 1 =>
        tty'.currentCol = tty.currentCol - 1 ]_vars

-----------------------------------------------------------------------------
(* The abstract terminal this one implements.                              *)

History(t) ==
  [i \in 1 .. Retained(t) |->
     t.buffer[LET at == t.oldestLine + i - 1 IN IF at < Lines THEN at ELSE at - Lines]]

Abstract ==
  INSTANCE Scrollback WITH
    Capacity <- Lines,
    Width <- Cols,
    text <- [history |-> History(tty), column |-> tty.currentCol],
    back <- IF tty.scrollMode = 0 \/ Retained(tty) = 1
              THEN 0
              ELSE Distance(tty.viewTop, tty.currentLine) - 1,
    shown <- <<tty.lcd[0], tty.lcd[1]>>

(* The driver implements the scrollback terminal.                          *)
ScrollbackSpec == Abstract!Spec
=============================================================================
