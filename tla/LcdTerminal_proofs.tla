-------------------------- MODULE LcdTerminal_proofs --------------------------
(***************************************************************************)
(* What the routines of LcdTerminal preserve, for every size of buffer and *)
(* display and every set of characters.                                    *)
(*                                                                         *)
(* The lemmas follow the calls.  The first part gives, for each routine    *)
(* that calls no other, the fields of the terminal it returns; the second  *)
(* shows that the routines the key loop calls take a sound terminal to a   *)
(* sound one, from the first part alone.  Then come what the scroll keys   *)
(* undo of each other, what is echoed of the characters typed, and what    *)
(* the routines do when they are called in scroll mode.                    *)
(***************************************************************************)
EXTENDS LcdTerminal, SequenceTheorems, TLAPS

(* A terminal of the right type whose display, cursor and view agree with  *)
(* its buffer.                                                             *)
Sound(t) ==
  /\ t \in Terminal
  /\ ShowsBuffer(t)
  /\ CursorInPlace(t)
  /\ ViewInHistory(t)

(* Two terminals whose text is the same, wherever their views are.         *)
SameText(t, u) ==
  /\ t.buffer = u.buffer /\ t.currentLine = u.currentLine
  /\ t.oldestLine = u.oldestLine /\ t.currentCol = u.currentCol

-----------------------------------------------------------------------------
(* The circular buffer.                                                    *)

(* Succ and Pred stay in the buffer, undo each other and move.             *)
LEMMA SuccPred ==
  ASSUME NEW l \in Slot
  PROVE  /\ Succ(l) \in Slot /\ Pred(l) \in Slot
         /\ Succ(Pred(l)) = l /\ Pred(Succ(l)) = l
         /\ Succ(l) # l /\ Pred(l) # l
BY LcdTerminalAssumption DEF Slot, Succ, Pred

(* Distances along the buffer: how they change with one step, and that a   *)
(* distance determines the line it leads to.                               *)
LEMMA DistanceFacts ==
  ASSUME NEW a \in Slot, NEW b \in Slot, NEW c \in Slot
  PROVE  /\ Distance(a, b) \in 0 .. Lines - 1
         /\ Distance(a, b) = 0 <=> a = b
         /\ Distance(a, b) = Distance(a, c) => b = c
         /\ a # b => Distance(a, Pred(b)) = Distance(a, b) - 1
         /\ a # Succ(b) => Distance(a, Succ(b)) = Distance(a, b) + 1
         /\ a = Succ(b) => Distance(a, b) = Lines - 1
BY LcdTerminalAssumption DEF Slot, Succ, Pred, Distance

(* clear_current_line_in_buffer leaves a line.                              *)
LEMMA BlankLineType == BlankLine \in Line
BY LcdTerminalAssumption DEF BlankLine, Line

-----------------------------------------------------------------------------
(* The fields each routine sets.                                           *)

(* AdvanceLine moves the current line on, over a cleared line.             *)
LEMMA AdvanceLineFields ==
  ASSUME NEW t \in Terminal
  PROVE  /\ AdvanceLine(t) \in Terminal
         /\ AdvanceLine(t).currentLine = Succ(t.currentLine)
         /\ AdvanceLine(t).currentCol = 0
         /\ AdvanceLine(t).scrollMode = t.scrollMode
         /\ AdvanceLine(t).buffer = [t.buffer EXCEPT ![Succ(t.currentLine)] = BlankLine]
         /\ AdvanceLine(t).oldestLine = IF Succ(t.currentLine) = t.oldestLine
                                          THEN Succ(t.oldestLine) ELSE t.oldestLine
<1> USE DEF Terminal
<1>1. Succ(t.currentLine) \in Slot /\ Succ(t.oldestLine) \in Slot
  BY SuccPred
<1>2. 0 \in 0 .. Cols
  BY LcdTerminalAssumption
<1>3. [t.buffer EXCEPT ![Succ(t.currentLine)] = BlankLine] \in [Slot -> Line]
  BY BlankLineType, <1>1
<1>4. QED
  BY <1>1, <1>2, <1>3 DEF AdvanceLine

(* LcdRedrawFromUnifiedBuffer shows the lines of the view.                 *)
LEMMA RedrawFields ==
  ASSUME NEW t \in Terminal
  PROVE  LET u == LcdRedrawFromUnifiedBuffer(t) IN
         /\ u \in Terminal
         /\ u.lcd = [r \in Row |-> t.buffer[IF r = 0 THEN t.viewTop ELSE Succ(t.viewTop)]]
         /\ u.buffer = t.buffer
         /\ u.currentLine = t.currentLine /\ u.oldestLine = t.oldestLine
         /\ u.currentCol = t.currentCol
         /\ u.viewTop = t.viewTop /\ u.scrollMode = t.scrollMode
<1> USE DEF Terminal
<1>1. Succ(t.viewTop) \in Slot
  BY SuccPred
<1>2. [r \in Row |-> t.buffer[IF r = 0 THEN t.viewTop ELSE Succ(t.viewTop)]] \in [Row -> Line]
  BY <1>1 DEF Row
<1>3. <<1, Cols>> \in Row \X Nat
  BY LcdTerminalAssumption DEF Row
<1>4. QED
  BY <1>2, <1>3 DEF LcdRedrawFromUnifiedBuffer

(* StoreCharInUnifiedBuffer in normal mode, where the column advances.     *)
LEMMA StoreCharFields ==
  ASSUME NEW t \in Terminal, NEW c \in Char,
         t.scrollMode = 0, t.currentCol < Cols
  PROVE  LET u == StoreCharInUnifiedBuffer(t, c) IN
         /\ u \in Terminal
         /\ u.buffer = [t.buffer EXCEPT ![t.currentLine] =
                          [t.buffer[t.currentLine] EXCEPT ![t.currentCol] = c]]
         /\ u.currentLine = t.currentLine /\ u.oldestLine = t.oldestLine
         /\ u.currentCol = t.currentCol + 1
         /\ u.scrollMode = 0
         /\ u.lcd = t.lcd /\ u.cursor = t.cursor
<1> USE DEF Terminal
<1>1. t.currentCol + 1 \in 0 .. Cols /\ t.currentCol \in Column
  BY LcdTerminalAssumption DEF Column
<1>2. [t.buffer[t.currentLine] EXCEPT ![t.currentCol] = c] \in Line
  BY <1>1 DEF Line
<1>3. [t.buffer EXCEPT ![t.currentLine] =
         [t.buffer[t.currentLine] EXCEPT ![t.currentCol] = c]] \in [Slot -> Line]
  BY <1>2
<1>4. QED
  BY <1>1, <1>3 DEF StoreCharInUnifiedBuffer

(* LcdData writes at the cursor and moves it.                              *)
LEMMA LcdDataFields ==
  ASSUME NEW t \in Terminal, NEW c \in Char, NEW i \in Column,
         t.cursor = <<1, i>>
  PROVE  LET u == LcdData(t, c) IN
         /\ u \in Terminal
         /\ u.lcd = [t.lcd EXCEPT ![1] = [t.lcd[1] EXCEPT ![i] = c]]
         /\ u.cursor = <<1, i + 1>>
         /\ SameText(u, t)
         /\ u.scrollMode = t.scrollMode
<1> USE DEF Terminal
<1>1. i \in Nat /\ i < Cols /\ i + 1 \in Nat
  BY LcdTerminalAssumption DEF Column
<1>2. 1 \in Row
  BY DEF Row
<1>3. [t.lcd EXCEPT ![1] = [t.lcd[1] EXCEPT ![i] = c]] \in [Row -> Line]
  BY <1>2 DEF Line
<1>4. <<1, i + 1>> \in Row \X Nat
  BY <1>1, <1>2
<1>5. LcdData(t, c) =
        [t EXCEPT !.lcd = [t.lcd EXCEPT ![1] = [t.lcd[1] EXCEPT ![i] = c]],
                  !.cursor = <<1, i + 1>>]
  <2>1. t.cursor[1] = 1 /\ t.cursor[2] = i
    OBVIOUS
  <2>2. QED
    BY <2>1, <1>1 DEF LcdData
<1>6. QED
  BY <1>3, <1>4, <1>5 DEF SameText

(* LcdHomeCursor sets both columns to 0.                                   *)
LEMMA LcdHomeCursorFields ==
  ASSUME NEW t \in Terminal
  PROVE  LET u == LcdHomeCursor(t) IN
         /\ u \in Terminal
         /\ u.currentCol = 0 /\ u.cursor = <<1, 0>>
         /\ u.scrollMode = t.scrollMode
         /\ u.currentLine = t.currentLine /\ u.oldestLine = t.oldestLine
         /\ u.buffer = t.buffer /\ u.lcd = t.lcd
         /\ MeantRows(u) = MeantRows(t)
<1>1. 0 \in 0 .. Cols /\ <<1, 0>> \in Row \X Nat
  BY LcdTerminalAssumption DEF Row
<1>2. QED
  BY <1>1 DEF LcdHomeCursor, Terminal, MeantRows

-----------------------------------------------------------------------------
(* The routines the key loop calls.                                        *)

(* A redraw makes the display agree with the buffer, whatever it showed.   *)
LEMMA RedrawShowsBuffer ==
  ASSUME NEW t \in Terminal,
         t.scrollMode = 0 => t.viewTop = Pred(t.currentLine)
  PROVE  ShowsBuffer(LcdRedrawFromUnifiedBuffer(t))
<1> DEFINE u == LcdRedrawFromUnifiedBuffer(t)
<1>1. /\ u.lcd = [r \in Row |-> t.buffer[IF r = 0 THEN t.viewTop ELSE Succ(t.viewTop)]]
      /\ u.buffer = t.buffer /\ u.currentLine = t.currentLine
      /\ u.viewTop = t.viewTop /\ u.scrollMode = t.scrollMode
  BY RedrawFields
<1>2. (IF u.scrollMode = 0 THEN Pred(u.currentLine) ELSE u.viewTop) = t.viewTop
  BY <1>1
<1> HIDE DEF u
<1>3. MeantRows(u) = [r \in Row |-> t.buffer[IF r = 0 THEN t.viewTop ELSE Succ(t.viewTop)]]
  BY <1>1, <1>2 DEF MeantRows
<1>4. QED
  BY <1>1, <1>3 DEF ShowsBuffer, u

(* ShowCurrentLine in normal mode, up to the cursor, which its callers set. *)
LEMMA ShowCurrentLineFields ==
  ASSUME NEW t \in Terminal, t.scrollMode = 0
  PROVE  LET u == ShowCurrentLine(t) IN
         /\ u \in Terminal
         /\ ShowsBuffer(u)
         /\ u.scrollMode = 0
         /\ SameText(u, t)
<1> DEFINE v == [t EXCEPT !.viewTop = Pred(t.currentLine)]
<1>1. Pred(t.currentLine) \in Slot
  BY SuccPred DEF Terminal
<1>2. /\ v \in Terminal /\ v.viewTop = Pred(v.currentLine)
      /\ v.scrollMode = 0 /\ SameText(v, t)
  BY <1>1 DEF Terminal, SameText
<1> HIDE DEF v
<1>3. QED
  BY <1>2, RedrawFields, RedrawShowsBuffer DEF ShowCurrentLine, v, SameText

(* A new line, called in normal mode, leaves a sound terminal at column 0  *)
(* even if the display was not sound before.                               *)
LEMMA LcdNewLineSound ==
  ASSUME NEW t \in Terminal, t.scrollMode = 0
  PROVE  /\ Sound(LcdNewLine(t))
         /\ LcdNewLine(t).scrollMode = 0
         /\ LcdNewLine(t).currentCol = 0
         /\ SameText(LcdNewLine(t), AdvanceLine(t))
<1> DEFINE a == AdvanceLine(t)
           u == ShowCurrentLine(a)
<1>1. a \in Terminal /\ a.scrollMode = 0 /\ a.currentCol = 0
  BY AdvanceLineFields
<1>2. u \in Terminal /\ ShowsBuffer(u) /\ u.scrollMode = 0 /\ SameText(u, a)
  BY <1>1, ShowCurrentLineFields
<1>3. LcdNewLine(t) = LcdHomeCursor(u)
  BY DEF LcdNewLine
<1> HIDE DEF u
<1>5. /\ LcdHomeCursor(u) \in Terminal
      /\ LcdHomeCursor(u).scrollMode = 0
      /\ LcdHomeCursor(u).currentCol = 0
      /\ LcdHomeCursor(u).cursor = <<1, 0>>
      /\ LcdHomeCursor(u).lcd = u.lcd
      /\ MeantRows(LcdHomeCursor(u)) = MeantRows(u)
      /\ SameText(LcdHomeCursor(u), a)
  BY <1>1, <1>2, LcdHomeCursorFields DEF SameText
<1>6. QED
  BY <1>2, <1>3, <1>5 DEF Sound, ShowsBuffer, CursorInPlace, ViewInHistory

(* In normal mode the display agrees with the buffer when its rows are the *)
(* current line and the line before it.                                    *)
LEMMA RowsInNormalMode ==
  ASSUME NEW t \in Terminal, t.scrollMode = 0
  PROVE  ShowsBuffer(t) <=> /\ t.lcd[0] = t.buffer[Pred(t.currentLine)]
                            /\ t.lcd[1] = t.buffer[t.currentLine]
<1>1. Succ(Pred(t.currentLine)) = t.currentLine
  BY SuccPred DEF Terminal
<1>2. MeantRows(t) = [r \in Row |-> t.buffer[IF r = 0 THEN Pred(t.currentLine) ELSE t.currentLine]]
  BY <1>1 DEF MeantRows
<1>3. t.lcd \in [Row -> Line]
  BY DEF Terminal
<1>4. QED
  BY <1>2, <1>3 DEF ShowsBuffer, Row

(* A character written at the same column of the current line and of the   *)
(* lower row keeps the two in agreement.                                   *)
LEMMA WriteShowsBuffer ==
  ASSUME NEW t \in Terminal, NEW u \in Terminal, NEW i \in Column, NEW c \in Char,
         t.scrollMode = 0, u.scrollMode = 0,
         ShowsBuffer(t),
         u.currentLine = t.currentLine,
         u.buffer = [t.buffer EXCEPT ![t.currentLine] =
                       [t.buffer[t.currentLine] EXCEPT ![i] = c]],
         u.lcd = [t.lcd EXCEPT ![1] = [t.lcd[1] EXCEPT ![i] = c]]
  PROVE  ShowsBuffer(u)
<1>1. /\ t.lcd[0] = t.buffer[Pred(t.currentLine)]
      /\ t.lcd[1] = t.buffer[t.currentLine]
  BY RowsInNormalMode
<1>2. /\ t.currentLine \in Slot /\ Pred(t.currentLine) \in Slot
      /\ Pred(t.currentLine) # t.currentLine
  BY SuccPred DEF Terminal
<1>3. t.lcd \in [Row -> Line] /\ t.buffer \in [Slot -> Line]
  BY DEF Terminal
<1>4. u.lcd[0] = t.lcd[0] /\ u.lcd[1] = [t.lcd[1] EXCEPT ![i] = c]
  BY <1>3 DEF Row
<1>5. /\ u.buffer[Pred(t.currentLine)] = t.buffer[Pred(t.currentLine)]
      /\ u.buffer[t.currentLine] = [t.buffer[t.currentLine] EXCEPT ![i] = c]
  BY <1>2, <1>3
<1>6. QED
  BY <1>1, <1>4, <1>5, RowsInNormalMode

(* The line and column the next character printed on t goes to, on a       *)
(* terminal that has advanced to a new line when that is needed.           *)
Room(t) == IF t.currentCol >= Cols THEN AdvanceLine(t) ELSE t

(* c stored at column i of the current line.                               *)
Stored(t, i, c) ==
  [t.buffer EXCEPT ![t.currentLine] = [t.buffer[t.currentLine] EXCEPT ![i] = c]]

(* print_char in normal mode, the wrap to a new line included.             *)
LEMMA PrintCharSound ==
  ASSUME NEW t, NEW c \in Char, Sound(t), t.scrollMode = 0
  PROVE  LET u == PrintChar(t, c) IN
         /\ Sound(u) /\ u.scrollMode = 0
         /\ u.buffer = Stored(Room(t), Room(t).currentCol, c)
         /\ u.currentLine = Room(t).currentLine
         /\ u.oldestLine = Room(t).oldestLine
         /\ u.currentCol = Room(t).currentCol + 1
<1> DEFINE room == IF t.currentCol >= Cols THEN LcdNewLine(t) ELSE t
           stored == StoreCharInUnifiedBuffer(room, c)
           u == LcdData(stored, c)
           i == room.currentCol
<1>1. t \in Terminal /\ t.currentCol \in 0 .. Cols
  BY DEF Sound, Terminal
<1>2. /\ Sound(room) /\ room.scrollMode = 0 /\ i \in Column
      /\ SameText(room, Room(t))
  BY <1>1, LcdNewLineSound, LcdTerminalAssumption DEF Column, Room, SameText
<1>3. PrintChar(t, c) = u
  BY DEF PrintChar
<1> HIDE DEF room
<1>4. room \in Terminal /\ ShowsBuffer(room) /\ room.cursor = <<1, i>> /\ i < Cols
  BY <1>2, LcdTerminalAssumption DEF Sound, CursorInPlace, Column
<1>5. /\ stored \in Terminal
      /\ stored.buffer = [room.buffer EXCEPT ![room.currentLine] =
                            [room.buffer[room.currentLine] EXCEPT ![i] = c]]
      /\ stored.currentLine = room.currentLine /\ stored.oldestLine = room.oldestLine
      /\ stored.currentCol = i + 1
      /\ stored.scrollMode = 0
      /\ stored.lcd = room.lcd /\ stored.cursor = <<1, i>>
  BY <1>2, <1>4, StoreCharFields
<1> HIDE DEF stored
<1>6. /\ u \in Terminal
      /\ u.lcd = [room.lcd EXCEPT ![1] = [room.lcd[1] EXCEPT ![i] = c]]
      /\ u.cursor = <<1, i + 1>>
      /\ u.buffer = stored.buffer
      /\ u.currentLine = room.currentLine /\ u.oldestLine = room.oldestLine
      /\ u.currentCol = i + 1
      /\ u.scrollMode = 0
  BY <1>2, <1>5, LcdDataFields DEF SameText
<1> HIDE DEF u
<1>7. ShowsBuffer(u)
  BY <1>2, <1>4, <1>5, <1>6, WriteShowsBuffer
<1>8. u.buffer = Stored(Room(t), Room(t).currentCol, c)
  BY <1>2, <1>5, <1>6 DEF SameText, Stored
<1>9. QED
  BY <1>2, <1>3, <1>6, <1>7, <1>8 DEF Sound, CursorInPlace, ViewInHistory, SameText

(* The prompt is two characters.                                           *)
LEMMA PrintPromptSound ==
  ASSUME NEW t, Sound(t), t.scrollMode = 0
  PROVE  Sound(PrintPrompt(t)) /\ PrintPrompt(t).scrollMode = 0
BY PrintCharSound, LcdTerminalAssumption DEF PrintPrompt

(* Backspace in normal mode: the blank is stored and written at the same   *)
(* place, and both columns end up there.                                   *)
LEMMA LcdBackspaceSound ==
  ASSUME NEW t, Sound(t), t.scrollMode = 0
  PROVE  LET u == LcdBackspace(t) IN
         /\ Sound(u) /\ u.scrollMode = 0
         /\ u.currentLine = t.currentLine /\ u.oldestLine = t.oldestLine
         /\ IF t.currentCol = 0
              THEN u.buffer = t.buffer /\ u.currentCol = 0
              ELSE /\ u.buffer = Stored(t, t.currentCol - 1, Blank)
                   /\ u.currentCol = t.currentCol - 1
<1>1. t \in Terminal /\ ShowsBuffer(t) /\ t.currentCol \in 0 .. Cols
  BY DEF Sound, Terminal
<1>2. CASE t.currentCol = 0
  BY <1>2 DEF LcdBackspace
<1>3. CASE t.currentCol # 0
  <2> DEFINE i == t.currentCol - 1
             before == [t EXCEPT !.currentCol = i]
             stored == StoreCharInUnifiedBuffer(before, Blank)
             back == LcdUpdateCursor([stored EXCEPT !.currentCol = @ - 1])
             written == LcdData(back, Blank)
             u == LcdUpdateCursor(written)
  <2>1. i \in Column /\ i \in 0 .. Cols /\ i < Cols /\ <<1, i>> \in Row \X Nat
    BY <1>1, <1>3, LcdTerminalAssumption DEF Column, Row
  <2>2. LcdBackspace(t) = u
    BY <1>3 DEF LcdBackspace
  <2>3. /\ before \in Terminal /\ before.currentCol = i /\ before.scrollMode = 0
        /\ before.buffer = t.buffer /\ before.lcd = t.lcd
        /\ before.currentLine = t.currentLine /\ before.oldestLine = t.oldestLine
    BY <1>1, <2>1 DEF Terminal
  <2> HIDE DEF before
  <2>4. /\ stored \in Terminal
        /\ stored.buffer = [t.buffer EXCEPT ![t.currentLine] =
                              [t.buffer[t.currentLine] EXCEPT ![i] = Blank]]
        /\ stored.currentLine = t.currentLine /\ stored.oldestLine = t.oldestLine
        /\ stored.currentCol = i + 1
        /\ stored.scrollMode = 0 /\ stored.lcd = t.lcd
    BY <2>1, <2>3, StoreCharFields, LcdTerminalAssumption
  <2> HIDE DEF stored
  <2>5. (i + 1) - 1 = i
    BY <2>1, LcdTerminalAssumption
  <2>6. /\ back \in Terminal /\ back.currentCol = i /\ back.cursor = <<1, i>>
        /\ back.buffer = stored.buffer /\ back.lcd = t.lcd
        /\ back.currentLine = t.currentLine /\ back.oldestLine = t.oldestLine
        /\ back.scrollMode = 0
    BY <2>1, <2>4, <2>5 DEF Terminal, LcdUpdateCursor
  <2> HIDE DEF back
  <2>7. /\ written \in Terminal
        /\ written.lcd = [t.lcd EXCEPT ![1] = [t.lcd[1] EXCEPT ![i] = Blank]]
        /\ written.buffer = stored.buffer
        /\ written.currentLine = t.currentLine /\ written.oldestLine = t.oldestLine
        /\ written.currentCol = i /\ written.scrollMode = 0
    BY <2>1, <2>6, LcdDataFields, LcdTerminalAssumption DEF SameText
  <2> HIDE DEF written
  <2>8. /\ u \in Terminal /\ u.cursor = <<1, i>>
        /\ u.lcd = written.lcd /\ u.buffer = stored.buffer
        /\ u.currentLine = t.currentLine /\ u.oldestLine = t.oldestLine
        /\ u.currentCol = i
        /\ u.scrollMode = 0
    BY <2>1, <2>7 DEF Terminal, LcdUpdateCursor
  <2> HIDE DEF u
  <2>9. ShowsBuffer(u)
    BY <1>1, <2>1, <2>4, <2>7, <2>8, WriteShowsBuffer, LcdTerminalAssumption
  <2>10. QED
    BY <1>3, <2>2, <2>4, <2>8, <2>9 DEF Sound, CursorInPlace, ViewInHistory, Stored
<1>4. QED
  BY <1>2, <1>3

(* A redraw in scroll mode is sound when its view is in the history.       *)
LEMMA RedrawInScrollModeSound ==
  ASSUME NEW t \in Terminal, t.scrollMode = 1, ViewInHistory(t)
  PROVE  LET u == LcdRedrawFromUnifiedBuffer(t) IN Sound(u) /\ u.scrollMode = 1
<1> DEFINE u == LcdRedrawFromUnifiedBuffer(t)
<1>1. /\ u \in Terminal /\ u.scrollMode = 1 /\ u.viewTop = t.viewTop
      /\ u.currentLine = t.currentLine /\ u.oldestLine = t.oldestLine
  BY RedrawFields
<1>2. ShowsBuffer(u)
  BY RedrawShowsBuffer
<1> HIDE DEF u
<1>3. ViewInHistory(u)
  BY <1>1 DEF ViewInHistory, Retained
<1>4. QED
  BY <1>1, <1>2, <1>3 DEF Sound, CursorInPlace, u

(* Up enters scroll mode with the view the display already shows, and      *)
(* takes the view one line up unless the oldest line is at its top.        *)
LEMMA ScrollUpSound ==
  ASSUME NEW t, Sound(t)
  PROVE  Sound(ScrollUp(t)) /\ ScrollUp(t).scrollMode = 1
<1> DEFINE entered == IF t.scrollMode = 0
                        THEN [t EXCEPT !.scrollMode = 1, !.viewTop = Pred(t.currentLine)]
                        ELSE t
           moved == [entered EXCEPT !.viewTop = Pred(@)]
<1>1. /\ t \in Terminal /\ t.currentLine \in Slot /\ t.oldestLine \in Slot
      /\ Pred(t.currentLine) \in Slot /\ t.scrollMode \in 0 .. 1
  BY SuccPred DEF Sound, Terminal
<1>2. Sound(entered) /\ entered.scrollMode = 1
  <2>1. CASE t.scrollMode = 1
    BY <2>1
  <2>2. CASE t.scrollMode = 0
    <3>1. PICK m \in 0 .. 1, v \in Slot : m = 1 /\ v = Pred(t.currentLine)
      BY <1>1
    <3>2. entered = [t EXCEPT !.scrollMode = m, !.viewTop = v]
      BY <2>2, <3>1
    <3> HIDE DEF entered, moved
    <3>3. /\ entered \in Terminal /\ entered.scrollMode = 1
          /\ entered.viewTop = Pred(t.currentLine)
          /\ entered.currentLine = t.currentLine /\ entered.oldestLine = t.oldestLine
          /\ entered.buffer = t.buffer /\ entered.lcd = t.lcd
      <4> DEFINE e == [t EXCEPT !.scrollMode = m, !.viewTop = v]
      <4>1. /\ e \in Terminal /\ e.scrollMode = m /\ e.viewTop = v
            /\ e.currentLine = t.currentLine /\ e.oldestLine = t.oldestLine
            /\ e.buffer = t.buffer /\ e.lcd = t.lcd
        BY <1>1 DEF Terminal
      <4>2. entered = e
        BY <3>2
      <4> HIDE DEF e
      <4>3. QED
        BY <3>1, <4>1, <4>2
    <3>4. ShowsBuffer(entered)
      BY <2>2, <3>3 DEF Sound, ShowsBuffer, MeantRows
    <3>5. ViewInHistory(entered)
      <4>1. SUFFICES ASSUME Distance(t.oldestLine, t.currentLine) + 1 >= 2
                     PROVE  Distance(t.oldestLine, Pred(t.currentLine))
                              < Distance(t.oldestLine, t.currentLine)
        BY <3>3 DEF ViewInHistory, Retained
      <4>2. /\ Distance(t.oldestLine, t.currentLine) \in 0 .. Lines - 1
            /\ Distance(t.oldestLine, t.currentLine) = 0 <=> t.oldestLine = t.currentLine
            /\ t.oldestLine # t.currentLine =>
                 Distance(t.oldestLine, Pred(t.currentLine))
                   = Distance(t.oldestLine, t.currentLine) - 1
        BY <1>1, DistanceFacts
      <4>3. QED
        BY <4>1, <4>2, LcdTerminalAssumption
    <3>6. QED
      BY <3>3, <3>4, <3>5 DEF Sound, CursorInPlace
  <2>3. QED
    BY <1>1, <2>1, <2>2
<1>3. ScrollUp(t) = IF entered.viewTop = entered.oldestLine
                      THEN entered ELSE LcdRedrawFromUnifiedBuffer(moved)
  BY DEF ScrollUp
<1> HIDE DEF entered
<1>4. CASE entered.viewTop = entered.oldestLine
  BY <1>2, <1>3, <1>4
<1>5. CASE entered.viewTop # entered.oldestLine
  <2>1. /\ entered \in Terminal /\ entered.viewTop \in Slot
        /\ entered.oldestLine \in Slot /\ entered.currentLine \in Slot
    BY <1>2 DEF Sound, Terminal
  <2>2. Pred(entered.viewTop) \in Slot
    BY <2>1, SuccPred
  <2>3. /\ moved \in Terminal /\ moved.scrollMode = 1
        /\ moved.viewTop = Pred(entered.viewTop)
        /\ moved.currentLine = entered.currentLine
        /\ moved.oldestLine = entered.oldestLine
    BY <1>2, <2>1, <2>2 DEF Terminal
  <2> HIDE DEF moved
  <2>4. /\ Distance(entered.oldestLine, entered.viewTop) \in 0 .. Lines - 1
        /\ Distance(entered.oldestLine, entered.currentLine) \in 0 .. Lines - 1
        /\ Distance(entered.oldestLine, Pred(entered.viewTop))
             = Distance(entered.oldestLine, entered.viewTop) - 1
    BY <1>5, <2>1, DistanceFacts
  <2>5. ViewInHistory(moved)
    <3>1. SUFFICES ASSUME Retained(entered) >= 2
                   PROVE  Distance(entered.oldestLine, Pred(entered.viewTop))
                            < Distance(entered.oldestLine, entered.currentLine)
      BY <2>3 DEF ViewInHistory, Retained
    <3>2. Distance(entered.oldestLine, entered.viewTop)
            < Distance(entered.oldestLine, entered.currentLine)
      BY <1>2, <3>1 DEF Sound, ViewInHistory
    <3>3. QED
      BY <2>4, <3>2, LcdTerminalAssumption
  <2>6. QED
    BY <1>3, <1>5, <2>3, <2>5, RedrawInScrollModeSound
<1>6. QED
  BY <1>4, <1>5

(* Down takes the view one line down unless the current line is at its     *)
(* bottom.                                                                 *)
LEMMA ScrollDownSound ==
  ASSUME NEW t, Sound(t)
  PROVE  Sound(ScrollDown(t)) /\ ScrollDown(t).scrollMode = t.scrollMode
<1> DEFINE moved == [t EXCEPT !.viewTop = Succ(@)]
<1>1. /\ t \in Terminal /\ t.currentLine \in Slot /\ t.oldestLine \in Slot
      /\ t.viewTop \in Slot /\ Succ(t.viewTop) \in Slot /\ t.scrollMode \in 0 .. 1
  BY SuccPred DEF Sound, Terminal
<1>2. CASE t.scrollMode = 0 \/ Succ(t.viewTop) = t.currentLine
  BY <1>2 DEF ScrollDown
<1>3. CASE t.scrollMode = 1 /\ Succ(t.viewTop) # t.currentLine
  <2>1. ScrollDown(t) = LcdRedrawFromUnifiedBuffer(moved)
    BY <1>3 DEF ScrollDown
  <2>2. /\ moved \in Terminal /\ moved.scrollMode = 1
        /\ moved.viewTop = Succ(t.viewTop)
        /\ moved.currentLine = t.currentLine /\ moved.oldestLine = t.oldestLine
    BY <1>1, <1>3 DEF Terminal
  <2> HIDE DEF moved
  <2>3. ViewInHistory(moved)
    <3> DEFINE D(l) == Distance(t.oldestLine, l)
    <3>1. SUFFICES ASSUME Retained(t) >= 2
                   PROVE  D(Succ(t.viewTop)) < D(t.currentLine)
      BY <2>2 DEF ViewInHistory, Retained
    <3>2. D(t.viewTop) < D(t.currentLine)
      BY <1>3, <3>1 DEF Sound, ViewInHistory
    <3>3. /\ D(t.viewTop) \in 0 .. Lines - 1 /\ D(t.currentLine) \in 0 .. Lines - 1
          /\ D(Succ(t.viewTop)) = D(t.currentLine) => Succ(t.viewTop) = t.currentLine
          /\ t.oldestLine # Succ(t.viewTop) => D(Succ(t.viewTop)) = D(t.viewTop) + 1
          /\ t.oldestLine = Succ(t.viewTop) => D(t.viewTop) = Lines - 1
      BY <1>1, DistanceFacts
    <3> HIDE DEF D
    <3>4. QED
      BY <1>3, <3>2, <3>3, LcdTerminalAssumption
  <2>4. QED
    BY <1>3, <2>1, <2>2, <2>3, RedrawInScrollModeSound
<1>4. QED
  BY <1>1, <1>2, <1>3

(* Leaving scroll mode shows the current line again and finds the cursor   *)
(* where it was.                                                           *)
LEMMA ExitScrollModeSound ==
  ASSUME NEW t \in Terminal
  PROVE  /\ Sound(ExitScrollMode(t)) /\ ExitScrollMode(t).scrollMode = 0
         /\ SameText(ExitScrollMode(t), t)
<1> DEFINE n == [t EXCEPT !.scrollMode = 0]
           u == ShowCurrentLine(n)
<1>1. n \in Terminal /\ n.scrollMode = 0 /\ SameText(n, t)
  BY DEF Terminal, SameText
<1> HIDE DEF n
<1>2. u \in Terminal /\ ShowsBuffer(u) /\ u.scrollMode = 0 /\ SameText(u, t)
  BY <1>1, ShowCurrentLineFields DEF SameText
<1>3. ExitScrollMode(t) = LcdUpdateCursor(u)
  BY DEF ExitScrollMode, n
<1> HIDE DEF u
<1>4. u.currentCol \in Nat /\ <<1, u.currentCol>> \in Row \X Nat
  BY <1>2, LcdTerminalAssumption DEF Terminal, Row
<1>5. /\ LcdUpdateCursor(u) \in Terminal
      /\ LcdUpdateCursor(u).scrollMode = 0
      /\ LcdUpdateCursor(u).cursor = <<1, LcdUpdateCursor(u).currentCol>>
      /\ LcdUpdateCursor(u).lcd = u.lcd
      /\ MeantRows(LcdUpdateCursor(u)) = MeantRows(u)
      /\ SameText(LcdUpdateCursor(u), t)
  BY <1>2, <1>4 DEF LcdUpdateCursor, Terminal, MeantRows, SameText
<1>6. QED
  BY <1>2, <1>3, <1>5 DEF Sound, ShowsBuffer, CursorInPlace, ViewInHistory

(* After power on both rows are blank, and so is the line before line 0.   *)
LEMMA PoweredOnSound ==
  /\ Sound(PoweredOn) /\ PoweredOn.scrollMode = 0
  /\ PoweredOn.buffer = [l \in Slot |-> BlankLine]
  /\ PoweredOn.currentLine = 0 /\ PoweredOn.oldestLine = 0 /\ PoweredOn.currentCol = 0
<1> DEFINE blank == [r \in Row |-> BlankLine]
           start == [ buffer |-> [l \in Slot |-> BlankLine], currentLine |-> 0,
                      oldestLine |-> 0, currentCol |-> 0, viewTop |-> 0, scrollMode |-> 0,
                      lcd |-> blank, cursor |-> <<0, 0>> ]
           p == PoweredOn
<1>1. /\ 0 \in Slot /\ 0 \in 0 .. Cols /\ <<0, 0>> \in Row \X Nat
      /\ Pred(0) \in Slot
  BY SuccPred, LcdTerminalAssumption DEF Slot, Row
<1>2. [l \in Slot |-> BlankLine] \in [Slot -> Line] /\ blank \in [Row -> Line]
  BY BlankLineType
<1>3. start \in Terminal
  BY <1>1, <1>2 DEF Terminal, Row
<1>4. /\ start.scrollMode = 0 /\ start.currentLine = 0 /\ start.oldestLine = 0
      /\ start.lcd = blank /\ start.buffer = [l \in Slot |-> BlankLine]
  OBVIOUS
<1>5. p = LcdHomeCursor(start)
  BY DEF PoweredOn
<1> HIDE DEF start, blank
<1>6. /\ p \in Terminal /\ p.scrollMode = 0 /\ p.currentLine = 0 /\ p.oldestLine = 0
      /\ p.currentCol = 0 /\ p.cursor = <<1, 0>>
      /\ p.lcd = blank /\ p.buffer = [l \in Slot |-> BlankLine]
  BY <1>3, <1>4, <1>5, LcdHomeCursorFields
<1> HIDE DEF p
<1>7. ShowsBuffer(p)
  BY <1>1, <1>6, RowsInNormalMode DEF Row, blank
<1>8. QED
  BY <1>6, <1>7 DEF Sound, CursorInPlace, ViewInHistory, p

-----------------------------------------------------------------------------
(* Scrolling back and forth.                                               *)

(* The line in the upper row.                                              *)
Top(t) == IF t.scrollMode = 0 THEN Pred(t.currentLine) ELSE t.viewTop

(* What a sound terminal shows follows from its buffer and the upper line. *)
LEMMA ShownRows ==
  ASSUME NEW t, Sound(t)
  PROVE  t.lcd = [r \in Row |-> t.buffer[IF r = 0 THEN Top(t) ELSE Succ(Top(t))]]
BY DEF Sound, ShowsBuffer, MeantRows, Top

(* Up moves the view and nothing else.                                     *)
LEMMA ScrollUpFields ==
  ASSUME NEW t \in Terminal
  PROVE  LET u == ScrollUp(t) IN
         /\ SameText(u, t) /\ u.scrollMode = 1
         /\ u.viewTop = IF Top(t) = t.oldestLine THEN Top(t) ELSE Pred(Top(t))
<1> DEFINE entered == IF t.scrollMode = 0
                        THEN [t EXCEPT !.scrollMode = 1, !.viewTop = Pred(t.currentLine)]
                        ELSE t
           moved == [entered EXCEPT !.viewTop = Pred(@)]
<1>1. /\ t.currentLine \in Slot /\ t.viewTop \in Slot /\ t.scrollMode \in 0 .. 1
      /\ Pred(t.currentLine) \in Slot
  BY SuccPred DEF Terminal
<1>2. /\ entered \in Terminal /\ entered.scrollMode = 1 /\ entered.viewTop = Top(t)
      /\ SameText(entered, t)
  <2>1. CASE t.scrollMode = 1
    BY <2>1 DEF Top, SameText
  <2>2. CASE t.scrollMode = 0
    <3>1. PICK m \in 0 .. 1, v \in Slot : m = 1 /\ v = Pred(t.currentLine)
      BY <1>1
    <3> DEFINE e == [t EXCEPT !.scrollMode = m, !.viewTop = v]
    <3>2. /\ e \in Terminal /\ e.scrollMode = m /\ e.viewTop = v
          /\ SameText(e, t)
      BY <1>1 DEF Terminal, SameText
    <3>3. entered = e
      BY <2>2, <3>1
    <3>4. Top(t) = v
      BY <2>2, <3>1 DEF Top
    <3> HIDE DEF e, entered
    <3>5. QED
      BY <3>1, <3>2, <3>3, <3>4
  <2>3. QED
    BY <1>1, <2>1, <2>2
<1>3. ScrollUp(t) = IF entered.viewTop = entered.oldestLine
                      THEN entered ELSE LcdRedrawFromUnifiedBuffer(moved)
  BY DEF ScrollUp
<1> HIDE DEF entered
<1>4. /\ moved \in Terminal /\ moved.scrollMode = 1 /\ moved.viewTop = Pred(Top(t))
      /\ SameText(moved, t)
  <2>1. Top(t) \in Slot /\ Pred(Top(t)) \in Slot
    BY <1>1, SuccPred DEF Top
  <2>2. QED
    BY <1>2, <2>1 DEF Terminal, SameText
<1> HIDE DEF moved
<1>5. CASE Top(t) = t.oldestLine
  BY <1>2, <1>3, <1>5 DEF SameText
<1>6. CASE Top(t) # t.oldestLine
  BY <1>2, <1>3, <1>4, <1>6, RedrawFields DEF SameText
<1>7. QED
  BY <1>5, <1>6

(* So does Down.                                                           *)
LEMMA ScrollDownFields ==
  ASSUME NEW t \in Terminal
  PROVE  LET u == ScrollDown(t) IN
         /\ SameText(u, t) /\ u.scrollMode = t.scrollMode
         /\ u.viewTop = IF t.scrollMode = 0 \/ Succ(t.viewTop) = t.currentLine
                          THEN t.viewTop ELSE Succ(t.viewTop)
<1> DEFINE moved == [t EXCEPT !.viewTop = Succ(@)]
<1>1. CASE t.scrollMode = 0 \/ Succ(t.viewTop) = t.currentLine
  BY <1>1 DEF ScrollDown, SameText
<1>2. CASE ~(t.scrollMode = 0 \/ Succ(t.viewTop) = t.currentLine)
  <2>1. ScrollDown(t) = LcdRedrawFromUnifiedBuffer(moved)
    BY <1>2 DEF ScrollDown
  <2>2. t.viewTop \in Slot /\ Succ(t.viewTop) \in Slot
    BY SuccPred DEF Terminal
  <2>3. /\ moved \in Terminal /\ moved.viewTop = Succ(t.viewTop)
        /\ SameText(moved, t) /\ moved.scrollMode = t.scrollMode
    BY <2>2 DEF Terminal, SameText
  <2> HIDE DEF moved
  <2>4. QED
    BY <1>2, <2>1, <2>3, RedrawFields DEF SameText
<1>3. QED
  BY <1>1, <1>2

(* Up and Down undo each other wherever they move the view: the view stays *)
(* where the buffer wraps neither between it and the oldest line nor       *)
(* between it and the current one.                                         *)
LEMMA OppositeScrolls ==
  ASSUME NEW t, Sound(t), Retained(t) >= 2
  PROVE  /\ ScrollUp(t).lcd # t.lcd => ScrollDown(ScrollUp(t)).lcd = t.lcd
         /\ ScrollDown(t).lcd # t.lcd => ScrollUp(ScrollDown(t)).lcd = t.lcd
<1> DEFINE Rows(v) == [r \in Row |-> t.buffer[IF r = 0 THEN v ELSE Succ(v)]]
<1>1. /\ t \in Terminal /\ t.currentLine \in Slot /\ t.oldestLine \in Slot
      /\ t.viewTop \in Slot /\ Top(t) \in Slot /\ t.scrollMode \in 0 .. 1
      /\ t.lcd = Rows(Top(t))
  BY ShownRows, SuccPred DEF Sound, Terminal, Top
<1>2. Succ(Top(t)) # t.oldestLine \/ t.scrollMode = 0
  <2>1. /\ Distance(t.oldestLine, t.viewTop) \in 0 .. Lines - 1
        /\ Distance(t.oldestLine, t.currentLine) \in 0 .. Lines - 1
        /\ t.oldestLine = Succ(t.viewTop) => Distance(t.oldestLine, t.viewTop) = Lines - 1
    BY <1>1, DistanceFacts
  <2>2. t.scrollMode = 1 =>
          Distance(t.oldestLine, t.viewTop) < Distance(t.oldestLine, t.currentLine)
    BY DEF Sound, ViewInHistory
  <2>3. QED
    BY <1>1, <2>1, <2>2, LcdTerminalAssumption DEF Top
<1>3. Top(t) # t.currentLine
  <2>1. CASE t.scrollMode = 0
    BY <1>1, <2>1, SuccPred DEF Top
  <2>2. CASE t.scrollMode = 1
    <3>1. /\ Distance(t.oldestLine, t.currentLine) \in 0 .. Lines - 1
          /\ Distance(t.oldestLine, t.viewTop) \in 0 .. Lines - 1
          /\ Distance(t.oldestLine, t.viewTop) < Distance(t.oldestLine, t.currentLine)
      BY <1>1, <2>2, DistanceFacts DEF Sound, ViewInHistory
    <3>2. t.viewTop # t.currentLine
      BY <3>1, LcdTerminalAssumption
    <3>3. QED
      BY <2>2, <3>2 DEF Top
  <2>3. QED
    BY <1>1, <2>1, <2>2
<1>4. ASSUME ScrollUp(t).lcd # t.lcd
      PROVE  ScrollDown(ScrollUp(t)).lcd = t.lcd
  <2> DEFINE u == ScrollUp(t)
             d == ScrollDown(u)
  <2>1. Sound(u) /\ u \in Terminal
    BY ScrollUpSound DEF Sound
  <2>2. Sound(d) /\ d.scrollMode = u.scrollMode
    BY <2>1, ScrollDownSound
  <2>3. /\ u.buffer = t.buffer /\ u.currentLine = t.currentLine /\ u.scrollMode = 1
        /\ u.viewTop = IF Top(t) = t.oldestLine THEN Top(t) ELSE Pred(Top(t))
    BY <1>1, ScrollUpFields DEF SameText
  <2>4. /\ d.buffer = t.buffer
        /\ d.viewTop = IF Succ(u.viewTop) = t.currentLine THEN u.viewTop ELSE Succ(u.viewTop)
    BY <2>1, <2>3, ScrollDownFields DEF SameText
  <2> HIDE DEF u, d
  <2>5. u.lcd = Rows(u.viewTop) /\ d.lcd = Rows(d.viewTop)
    BY <2>1, <2>2, <2>3, <2>4, ShownRows DEF Top
  <2>6. u.viewTop = Pred(Top(t))
    BY <1>1, <1>4, <2>3, <2>5 DEF u
  <2>7. d.viewTop = Top(t)
    BY <1>1, <1>3, <2>4, <2>6, SuccPred
  <2>8. QED
    BY <1>1, <2>5, <2>7 DEF u, d
<1>5. ASSUME ScrollDown(t).lcd # t.lcd
      PROVE  ScrollUp(ScrollDown(t)).lcd = t.lcd
  <2> DEFINE d == ScrollDown(t)
             u == ScrollUp(d)
  <2>1. Sound(d) /\ d \in Terminal
    BY ScrollDownSound DEF Sound
  <2>2. Sound(u) /\ u.scrollMode = 1
    BY <2>1, ScrollUpSound
  <2>3. /\ d.buffer = t.buffer /\ d.currentLine = t.currentLine
        /\ d.oldestLine = t.oldestLine /\ d.scrollMode = t.scrollMode
        /\ d.viewTop = IF t.scrollMode = 0 \/ Succ(t.viewTop) = t.currentLine
                          THEN t.viewTop ELSE Succ(t.viewTop)
    BY <1>1, ScrollDownFields DEF SameText
  <2>4. /\ u.buffer = t.buffer
        /\ u.viewTop = IF Top(d) = t.oldestLine THEN Top(d) ELSE Pred(Top(d))
    BY <2>1, <2>3, ScrollUpFields DEF SameText
  <2> HIDE DEF u, d
  <2>5. d.lcd = Rows(Top(d)) /\ u.lcd = Rows(u.viewTop)
    BY <2>1, <2>2, <2>3, <2>4, ShownRows DEF Top
  <2>6. t.scrollMode = 1 /\ Top(d) = Succ(Top(t))
    BY <1>1, <1>5, <2>3, <2>5 DEF Top, d
  <2>7. u.viewTop = Top(t)
    BY <1>1, <1>2, <2>4, <2>6, SuccPred
  <2>8. QED
    BY <1>1, <2>5, <2>7 DEF u, d
<1>6. QED
  BY <1>4, <1>5
-----------------------------------------------------------------------------
(* The echo of what is typed.                                              *)

(* What is to the left of the cursor is the end of s.                      *)
EchoOf(t, s) ==
  /\ t.currentCol <= Len(s)
  /\ \A i \in 0 .. t.currentCol - 1 :
       t.buffer[t.currentLine][i] = s[Len(s) - t.currentCol + i + 1]

(* A printed character extends the echo, over a wrap too: then the line is *)
(* new and nothing is to the left of the cursor.                           *)
LEMMA PrintCharEchoes ==
  ASSUME NEW t, Sound(t), t.scrollMode = 0, NEW s \in Seq(Char), NEW c \in Char,
         EchoOf(t, s)
  PROVE  EchoOf(PrintChar(t, c), Append(s, c))
<1> DEFINE r == Room(t)
           k == r.currentCol
           u == PrintChar(t, c)
           line == r.buffer[r.currentLine]
<1>1. t \in Terminal /\ t.currentCol \in 0 .. Cols
  BY DEF Sound, Terminal
<1>2. r \in Terminal /\ k \in Column /\ EchoOf(r, s)
  <2>1. CASE t.currentCol >= Cols
    <3>1. r = AdvanceLine(t)
      BY <2>1 DEF Room
    <3>2. r \in Terminal /\ k = 0
      BY <1>1, <3>1, AdvanceLineFields
    <3> HIDE DEF r
    <3>3. QED
      BY <3>2, LcdTerminalAssumption, LenProperties DEF Column, EchoOf
  <2>2. CASE ~(t.currentCol >= Cols)
    BY <1>1, <2>2, LcdTerminalAssumption DEF Room, Column
  <2>3. QED
    BY <2>1, <2>2
<1>3. /\ u.buffer = [r.buffer EXCEPT ![r.currentLine] = [line EXCEPT ![k] = c]]
      /\ u.currentLine = r.currentLine /\ u.currentCol = k + 1
  BY PrintCharSound DEF Stored
<1> HIDE DEF r, u
<1>4. u.buffer[u.currentLine] = [line EXCEPT ![k] = c] /\ line \in [Column -> Char]
  BY <1>2, <1>3 DEF Terminal, Line
<1>5. /\ Len(s) \in Nat /\ Len(Append(s, c)) = Len(s) + 1
      /\ \A i \in 1 .. Len(s) : Append(s, c)[i] = s[i]
      /\ Append(s, c)[Len(s) + 1] = c
  BY LenProperties, AppendProperties
<1> HIDE DEF line
<1>6. /\ k \in Nat /\ k < Cols /\ k <= Len(s)
      /\ \A i \in 0 .. k - 1 : line[i] = s[Len(s) - k + i + 1]
  BY <1>2, LcdTerminalAssumption DEF Column, EchoOf, line
<1>7. ASSUME NEW i \in 0 .. (k + 1) - 1
      PROVE  [line EXCEPT ![k] = c][i] = Append(s, c)[(Len(s) + 1) - (k + 1) + i + 1]
  <2>1. CASE i = k
    <3>1. (Len(s) + 1) - (k + 1) + i + 1 = Len(s) + 1
      BY <1>5, <1>6, <2>1
    <3>2. [line EXCEPT ![k] = c][i] = c
      BY <1>2, <1>4, <2>1
    <3>3. QED
      BY <1>5, <3>1, <3>2
  <2>2. CASE i # k
    <3>1. i \in 0 .. k - 1 /\ i \in Column
      BY <1>6, <2>2, LcdTerminalAssumption DEF Column
    <3>2. /\ (Len(s) + 1) - (k + 1) + i + 1 = Len(s) - k + i + 1
          /\ Len(s) - k + i + 1 \in 1 .. Len(s)
      BY <1>5, <1>6, <3>1
    <3>3. [line EXCEPT ![k] = c][i] = line[i]
      BY <1>4, <2>2, <3>1
    <3>4. QED
      BY <1>5, <1>6, <3>1, <3>2, <3>3
  <2>3. QED
    BY <2>1, <2>2
<1> HIDE DEF k
<1>8. u.currentCol - 1 = (k + 1) - 1 /\ u.currentCol <= Len(Append(s, c))
  BY <1>3, <1>5, <1>6
<1>9. ASSUME NEW i \in 0 .. u.currentCol - 1
      PROVE  u.buffer[u.currentLine][i] =
               Append(s, c)[Len(Append(s, c)) - u.currentCol + i + 1]
  <2>1. i \in 0 .. (k + 1) - 1
    BY <1>3
  <2>2. Len(Append(s, c)) - u.currentCol + i + 1 = (Len(s) + 1) - (k + 1) + i + 1
    BY <1>3, <1>5
  <2>3. QED
    BY <1>4, <1>7, <2>1, <2>2
<1>10. QED
  BY <1>8, <1>9 DEF EchoOf, u

(* A backspace takes the last character from both.                         *)
LEMMA BackspaceEchoes ==
  ASSUME NEW t, Sound(t), t.scrollMode = 0,
         NEW s \in Seq(Char), NEW r \in Seq(Char),
         Len(r) = Len(s) - 1, \A i \in 1 .. Len(r) : r[i] = s[i],
         EchoOf(t, s)
  PROVE  EchoOf(LcdBackspace(t), r)
<1> DEFINE u == LcdBackspace(t)
           line == t.buffer[t.currentLine]
           k == t.currentCol - 1
<1>1. /\ t \in Terminal /\ t.currentCol \in 0 .. Cols /\ t.currentLine \in Slot
      /\ t.buffer \in [Slot -> [Column -> Char]] /\ line \in [Column -> Char]
  BY DEF Sound, Terminal, Line
<1>2. Len(s) \in Nat /\ Len(r) \in Nat
  BY LenProperties
<1>3. /\ u.currentLine = t.currentLine
      /\ IF t.currentCol = 0
           THEN u.currentCol = 0
           ELSE /\ u.buffer = [t.buffer EXCEPT ![t.currentLine] = [line EXCEPT ![k] = Blank]]
                /\ u.currentCol = k
  BY LcdBackspaceSound DEF Stored
<1> HIDE DEF u
<1>4. CASE t.currentCol = 0
  BY <1>2, <1>3, <1>4 DEF EchoOf, u
<1>5. CASE t.currentCol # 0
  <2>1. /\ u.currentCol = k /\ k \in Nat /\ k < Cols /\ k + 1 = t.currentCol
        /\ u.buffer[u.currentLine] = [line EXCEPT ![k] = Blank]
    BY <1>1, <1>3, <1>5, LcdTerminalAssumption
  <2> HIDE DEF line
  <2>2. /\ k <= Len(r)
        /\ \A i \in 0 .. k : line[i] = s[Len(s) - t.currentCol + i + 1]
    BY <1>2, <2>1 DEF EchoOf, line
  <2>3. ASSUME NEW i \in 0 .. k - 1
        PROVE  [line EXCEPT ![k] = Blank][i] = r[Len(r) - k + i + 1]
    <3> HIDE DEF k
    <3>1. /\ Len(r) - k + i + 1 = Len(s) - t.currentCol + i + 1
          /\ Len(r) - k + i + 1 \in 1 .. Len(r)
          /\ i \in 0 .. k /\ i # k /\ i \in Column
      BY <1>2, <2>1, <2>2, LcdTerminalAssumption DEF Column
    <3>2. [line EXCEPT ![k] = Blank][i] = line[i]
      BY <1>1, <3>1
    <3>3. QED
      BY <2>2, <3>1, <3>2
  <2>4. QED
    BY <2>1, <2>2, <2>3 DEF EchoOf, u
<1>6. QED
  BY <1>4, <1>5

-----------------------------------------------------------------------------
(* Printing in scroll mode.  The text moves on without the display, so the *)
(* view need not stay in the history and only the types are kept.          *)

(* StoreCharInUnifiedBuffer in scroll mode leaves the column alone.        *)
LEMMA StoreCharScrolled ==
  ASSUME NEW t \in Terminal, NEW c \in Char,
         t.scrollMode = 1, t.currentCol \in Column
  PROVE  LET u == StoreCharInUnifiedBuffer(t, c) IN
         u \in Terminal /\ u.scrollMode = 1 /\ u.lcd = t.lcd
<1> USE DEF Terminal
<1>1. [t.buffer[t.currentLine] EXCEPT ![t.currentCol] = c] \in Line
  BY DEF Line
<1>2. [t.buffer EXCEPT ![t.currentLine] =
         [t.buffer[t.currentLine] EXCEPT ![t.currentCol] = c]] \in [Slot -> Line]
  BY <1>1
<1>3. StoreCharInUnifiedBuffer(t, c) =
        [t EXCEPT !.buffer[t.currentLine][t.currentCol] = c, !.currentCol = t.currentCol]
  BY DEF StoreCharInUnifiedBuffer
<1>4. QED
  BY <1>2, <1>3

(* print_char in scroll mode stores and shows nothing.                     *)
LEMMA PrintCharScrolled ==
  ASSUME NEW t \in Terminal, NEW c \in Char, t.scrollMode = 1
  PROVE  LET u == PrintChar(t, c) IN
         u \in Terminal /\ u.scrollMode = 1 /\ u.lcd = t.lcd
<1> DEFINE room == IF t.currentCol >= Cols THEN AdvanceLine(t) ELSE t
<1>1. PrintChar(t, c) = StoreCharInUnifiedBuffer(room, c)
  BY DEF PrintChar, LcdNewLine
<1>2. /\ room \in Terminal /\ room.scrollMode = 1 /\ room.lcd = t.lcd
      /\ room.currentCol \in Column
  <2>1. CASE t.currentCol >= Cols
    <3>1. AdvanceLine(t).lcd = t.lcd
      BY DEF AdvanceLine, Terminal
    <3>2. 0 \in Column
      BY LcdTerminalAssumption DEF Column
    <3>3. QED
      BY <2>1, <3>1, <3>2, AdvanceLineFields
  <2>2. CASE ~(t.currentCol >= Cols)
    BY <2>2, LcdTerminalAssumption DEF Column, Terminal
  <2>3. QED
    BY <2>1, <2>2
<1> HIDE DEF room
<1>3. QED
  BY <1>1, <1>2, StoreCharScrolled

(* lcd_new_line in scroll mode.                                            *)
LEMMA LcdNewLineScrolled ==
  ASSUME NEW t \in Terminal, t.scrollMode = 1
  PROVE  LET u == LcdNewLine(t) IN
         u \in Terminal /\ u.scrollMode = 1 /\ u.lcd = t.lcd
<1>1. LcdNewLine(t) = AdvanceLine(t)
  BY DEF LcdNewLine
<1>2. AdvanceLine(t).lcd = t.lcd
  BY DEF AdvanceLine, Terminal
<1>3. QED
  BY <1>1, <1>2, AdvanceLineFields

(* print_prompt in scroll mode.                                            *)
LEMMA PrintPromptScrolled ==
  ASSUME NEW t \in Terminal, t.scrollMode = 1
  PROVE  LET u == PrintPrompt(t) IN
         u \in Terminal /\ u.scrollMode = 1 /\ u.lcd = t.lcd
BY PrintCharScrolled, LcdTerminalAssumption DEF PrintPrompt

(* lcd_backspace in scroll mode.                                           *)
LEMMA LcdBackspaceScrolled ==
  ASSUME NEW t \in Terminal, t.scrollMode = 1
  PROVE  LET u == LcdBackspace(t) IN
         u \in Terminal /\ u.scrollMode = 1 /\ u.lcd = t.lcd
<1> DEFINE before == [t EXCEPT !.currentCol = @ - 1]
           stored == StoreCharInUnifiedBuffer(before, Blank)
<1>1. CASE t.currentCol = 0
  BY <1>1 DEF LcdBackspace
<1>2. CASE t.currentCol # 0
  <2>1. LcdBackspace(t) = stored
    BY <1>2 DEF LcdBackspace
  <2>2. t.currentCol - 1 \in 0 .. Cols /\ t.currentCol - 1 \in Column
    BY <1>2, LcdTerminalAssumption DEF Terminal, Column
  <2>3. /\ before \in Terminal /\ before.scrollMode = 1 /\ before.lcd = t.lcd
        /\ before.currentCol \in Column
    BY <2>2 DEF Terminal
  <2> HIDE DEF before
  <2>4. QED
    BY <2>1, <2>3, StoreCharScrolled, LcdTerminalAssumption
<1>3. QED
  BY <1>1, <1>2

(* The scroll keys keep the types wherever the view is.                    *)
LEMMA ScrollUpType ==
  ASSUME NEW t \in Terminal
  PROVE  ScrollUp(t) \in Terminal /\ ScrollUp(t).scrollMode = 1
<1> DEFINE entered == IF t.scrollMode = 0
                        THEN [t EXCEPT !.scrollMode = 1, !.viewTop = Pred(t.currentLine)]
                        ELSE t
           moved == [entered EXCEPT !.viewTop = Pred(@)]
<1>1. t.scrollMode \in 0 .. 1 /\ Pred(t.currentLine) \in Slot
  BY SuccPred DEF Terminal
<1>2. entered \in Terminal /\ entered.scrollMode = 1
  <2>1. CASE t.scrollMode = 0
    <3>1. 1 \in 0 .. 1
      OBVIOUS
    <3>2. entered = [t EXCEPT !.scrollMode = 1, !.viewTop = Pred(t.currentLine)]
      BY <2>1
    <3>3. QED
      BY <1>1, <3>1, <3>2 DEF Terminal
  <2>2. CASE t.scrollMode # 0
    BY <1>1, <2>2
  <2>3. QED
    BY <2>1, <2>2
<1>3. ScrollUp(t) = IF entered.viewTop = entered.oldestLine THEN entered
                    ELSE LcdRedrawFromUnifiedBuffer(moved)
  BY DEF ScrollUp
<1> HIDE DEF entered
<1>4. Pred(entered.viewTop) \in Slot
  BY <1>2, SuccPred DEF Terminal
<1>5. moved \in Terminal /\ moved.scrollMode = 1
  BY <1>2, <1>4 DEF Terminal
<1> HIDE DEF moved
<1>6. QED
  BY <1>2, <1>3, <1>5, RedrawFields

(* Down does so too, and nothing in normal mode.                           *)
LEMMA ScrollDownType ==
  ASSUME NEW t \in Terminal
  PROVE  /\ ScrollDown(t) \in Terminal /\ ScrollDown(t).scrollMode = t.scrollMode
         /\ t.scrollMode = 0 => ScrollDown(t) = t
<1> DEFINE moved == [t EXCEPT !.viewTop = Succ(@)]
<1>1. Succ(t.viewTop) \in Slot
  BY SuccPred DEF Terminal
<1>2. moved \in Terminal /\ moved.scrollMode = t.scrollMode
  BY <1>1 DEF Terminal
<1>3. ScrollDown(t) = IF t.scrollMode = 0 \/ Succ(t.viewTop) = t.currentLine THEN t
                      ELSE LcdRedrawFromUnifiedBuffer(moved)
  BY DEF ScrollDown
<1> HIDE DEF moved
<1>4. QED
  BY <1>2, <1>3, RedrawFields
=============================================================================
