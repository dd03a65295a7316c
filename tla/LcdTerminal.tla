----------------------------- MODULE LcdTerminal -----------------------------
(***************************************************************************)
(* The data of the LCD driver (lcd_driver/test.s) and its routines.        *)
(*                                                                         *)
(* A terminal is a record: the driver's variables in RAM, together with    *)
(* the two things the HD44780 holds that the driver can change, the cells  *)
(* a user sees and the address the next data write goes to.  A routine is  *)
(* an operator from the terminal it is called on to the terminal it        *)
(* leaves, all the calls it makes included; the 6502 takes no interrupt in *)
(* this program, so nothing else touches a terminal while a routine runs.  *)
(*                                                                         *)
(* The driver's flat 256 byte buffer is a function from line numbers to    *)
(* lines: every store is at currentLine * LCD_COLS + currentCol with       *)
(* currentCol < LCD_COLS, so no store crosses from one line to another.    *)
(***************************************************************************)
EXTENDS Naturals

CONSTANTS
  Lines,    \* UNIFIED_BUFFER_LINES, 16 in the program
  Cols,     \* LCD_COLS, 16 in the program
  Char,     \* the characters that can be on the display
  Blank,    \* ' '
  PromptSign \* '>'

ASSUME LcdTerminalAssumption ==
  /\ Lines \in Nat /\ Lines >= 2
  /\ Cols \in Nat /\ Cols >= 1
  /\ Blank \in Char
  /\ PromptSign \in Char

Slot == 0 .. Lines - 1
Column == 0 .. Cols - 1
Row == 0 .. 1
Line == [Column -> Char]
BlankLine == [i \in Column |-> Blank]

(* The line after and the line before l in the circular buffer.            *)
Succ(l) == IF l + 1 = Lines THEN 0 ELSE l + 1
Pred(l) == IF l = 0 THEN Lines - 1 ELSE l - 1

(* How many steps of Succ lead from line a to line b.                      *)
Distance(a, b) == IF a <= b THEN b - a ELSE b + Lines - a

Terminal ==
  [ buffer      : [Slot -> Line],
    currentLine : Slot,
    oldestLine  : Slot,
    currentCol  : 0 .. Cols,
    viewTop     : Slot,
    scrollMode  : 0 .. 1,
    lcd         : [Row -> Line],     \* the visible cells of the display
    cursor      : Row \X Nat ]       \* where the next LCD_DATA write goes

(* The lines a terminal still holds, the one being written included.       *)
Retained(t) == Distance(t.oldestLine, t.currentLine) + 1

-----------------------------------------------------------------------------
(* The display                                                             *)

(* STA LCD_DATA: the cell at the cursor, then the cursor moves right.  The *)
(* controller has 40 cells a row and shows the first Cols of them.         *)
LcdData(t, c) ==
  [t EXCEPT
     !.lcd = IF t.cursor[2] < Cols
               THEN [@ EXCEPT ![t.cursor[1]][t.cursor[2]] = c]
               ELSE @,
     !.cursor = << @[1], @[2] + 1 >>]

LcdHomeCursor(t) == [t EXCEPT !.currentCol = 0, !.cursor = <<1, 0>>]

LcdUpdateCursor(t) ==
  IF t.scrollMode = 0 THEN [t EXCEPT !.cursor = <<1, t.currentCol>>] ELSE t

(* Redraws both rows from the view and leaves the cursor past the second.  *)
LcdRedrawFromUnifiedBuffer(t) ==
  [t EXCEPT
     !.lcd = [r \in Row |-> t.buffer[IF r = 0 THEN t.viewTop ELSE Succ(t.viewTop)]],
     !.cursor = <<1, Cols>>]

-----------------------------------------------------------------------------
(* Writing                                                                 *)

StoreCharInUnifiedBuffer(t, c) ==
  [t EXCEPT
     !.buffer[t.currentLine][t.currentCol] = c,
     !.currentCol = IF t.scrollMode = 0 THEN @ + 1 ELSE @]

(* Mutant: a full buffer does not drop its oldest line.                    *)
AdvanceLine_KeepsOldest(t) ==
  [t EXCEPT
     !.currentLine = Succ(@),
     !.buffer[Succ(t.currentLine)] = BlankLine,
     !.currentCol  = 0]

(* The first half of lcd_new_line, clear_current_line_in_buffer included:  *)
(* the circular buffer moves on and drops its oldest line when full.       *)
AdvanceLine(t) ==
  [t EXCEPT
     !.currentLine = Succ(@),
     !.oldestLine  = IF Succ(t.currentLine) = @ THEN Succ(@) ELSE @,
     !.buffer[Succ(t.currentLine)] = BlankLine,
     !.currentCol  = 0]

(* The view with the current line at its bottom, and the display with it.  *)
ShowCurrentLine(t) ==
  LcdRedrawFromUnifiedBuffer([t EXCEPT !.viewTop = Pred(t.currentLine)])

LcdNewLine(t) ==
  IF t.scrollMode = 0
    THEN LcdHomeCursor(ShowCurrentLine(AdvanceLine(t)))
    ELSE AdvanceLine(t)

PrintChar(t, c) ==
  LET room   == IF t.currentCol >= Cols THEN LcdNewLine(t) ELSE t
      stored == StoreCharInUnifiedBuffer(room, c)
  IN IF t.scrollMode = 0 THEN LcdData(stored, c) ELSE stored

PrintPrompt(t) == PrintChar(PrintChar(t, PromptSign), Blank)

(* Mutant: the column is not taken back after the store advanced it, the    *)
(* bug that bug report 55cdfec fixed.                                      *)
LcdBackspace_OneTooFar(t) ==
  LET stored == StoreCharInUnifiedBuffer([t EXCEPT !.currentCol = @ - 1], Blank)
  IN IF t.currentCol = 0 THEN t
     ELSE LcdUpdateCursor(LcdData(LcdUpdateCursor(stored), Blank))

LcdBackspace(t) ==
  LET stored == StoreCharInUnifiedBuffer([t EXCEPT !.currentCol = @ - 1], Blank)
      back   == LcdUpdateCursor([stored EXCEPT !.currentCol = @ - 1])
  IN IF t.currentCol = 0 THEN t
     ELSE IF t.scrollMode = 1 THEN stored
     ELSE LcdUpdateCursor(LcdData(back, Blank))

-----------------------------------------------------------------------------
(* Scrolling                                                               *)

(* Mutant: the view is not stopped at the oldest line.                      *)
ScrollUp_PastOldest(t) ==
  LET entered == IF t.scrollMode = 0
                   THEN [t EXCEPT !.scrollMode = 1, !.viewTop = Pred(t.currentLine)]
                   ELSE t
  IN LcdRedrawFromUnifiedBuffer([entered EXCEPT !.viewTop = Pred(@)])

ScrollUp(t) ==
  LET entered == IF t.scrollMode = 0
                   THEN [t EXCEPT !.scrollMode = 1, !.viewTop = Pred(t.currentLine)]
                   ELSE t
  IN IF entered.viewTop = entered.oldestLine
       THEN entered
       ELSE LcdRedrawFromUnifiedBuffer([entered EXCEPT !.viewTop = Pred(@)])

(* Mutant: the test of scroll_up, top of the view against oldest line.      *)
ScrollDown_TestsOldest(t) ==
  IF t.scrollMode = 0 \/ t.viewTop = t.oldestLine
    THEN t
    ELSE LcdRedrawFromUnifiedBuffer([t EXCEPT !.viewTop = Succ(@)])

ScrollDown(t) ==
  IF t.scrollMode = 0 \/ Succ(t.viewTop) = t.currentLine
    THEN t
    ELSE LcdRedrawFromUnifiedBuffer([t EXCEPT !.viewTop = Succ(@)])

(* Mutant: the cursor stays where the redraw left it.                       *)
ExitScrollMode_CursorLeft(t) == ShowCurrentLine([t EXCEPT !.scrollMode = 0])

ExitScrollMode(t) ==
  LcdUpdateCursor(ShowCurrentLine([t EXCEPT !.scrollMode = 0]))

-----------------------------------------------------------------------------
(* lcd_init and lcd_home_cursor: every cell blank, line 0 being written and *)
(* shown, if the view is to be believed, in the upper row.                  *)
PoweredOn ==
  LcdHomeCursor(
    [ buffer      |-> [l \in Slot |-> BlankLine],
      currentLine |-> 0,
      oldestLine  |-> 0,
      currentCol  |-> 0,
      viewTop     |-> 0,
      scrollMode  |-> 0,
      lcd         |-> [r \in Row |-> BlankLine],
      cursor      |-> <<0, 0>> ])

-----------------------------------------------------------------------------
(* What the properties of the modules that use a terminal say of one.      *)

(* The two rows as the terminal means them: what is being written below    *)
(* the line before it, or the two lines of the view.                       *)
MeantRows(t) ==
  LET top == IF t.scrollMode = 0 THEN Pred(t.currentLine) ELSE t.viewTop
  IN [r \in Row |-> t.buffer[IF r = 0 THEN top ELSE Succ(top)]]

ShowsBuffer(t) == t.lcd = MeantRows(t)

CursorInPlace(t) == t.scrollMode = 0 => t.cursor = <<1, t.currentCol>>

ViewInHistory(t) ==
  t.scrollMode = 1 /\ Retained(t) >= 2 =>
    Distance(t.oldestLine, t.viewTop) < Distance(t.oldestLine, t.currentLine)
=============================================================================
