------------------------- MODULE ShellTerminal_proofs -------------------------
(***************************************************************************)
(* The invariants of ShellTerminal and its refinement of Scrollback, for   *)
(* every size of buffer and display, every set of characters and every     *)
(* CMD_MAX.                                                                *)
(***************************************************************************)
EXTENDS ShellTerminal, LcdTerminal_proofs, SequenceTheorems

(* The inductive invariant.  A display that shows the buffer stays one     *)
(* only if the next character goes to the driver's column and to the line  *)
(* of the lower row, so the display, the cursor and the view are preserved *)
(* together or not at all; and a running command must not find the         *)
(* terminal in scroll mode, where print_char stores at a column that does  *)
(* not advance.                                                            *)
IInv ==
  /\ TypeOK
  /\ Sound(tty)
  /\ running => tty.scrollMode = 0

-----------------------------------------------------------------------------
(* Leaving scroll mode, as every key but Up and Down does first.           *)
LEMMA LeaveScrollModeSound ==
  ASSUME NEW t, Sound(t)
  PROVE  Sound(LeaveScrollMode(t)) /\ LeaveScrollMode(t).scrollMode = 0
<1>1. t \in Terminal
  BY DEF Sound
<1>2. QED
  BY <1>1, ExitScrollModeSound DEF LeaveScrollMode

(* reset_shell, called in normal mode.                                     *)
LEMMA ResetShellSound ==
  ASSUME NEW t, Sound(t), t.scrollMode = 0
  PROVE  Sound(ResetShell(t)) /\ ResetShell(t).scrollMode = 0
<1>1. Sound(LcdNewLine(t)) /\ LcdNewLine(t).scrollMode = 0
  BY LcdNewLineSound DEF Sound
<1>2. QED
  BY <1>1, PrintPromptSound DEF ResetShell

(* Typing a character and taking one back keep the command a sequence of   *)
(* characters.                                                             *)
LEMMA CommandType ==
  ASSUME NEW s \in Seq(Char)
  PROVE  /\ Len(s) \in Nat
         /\ \A c \in Char : Append(s, c) \in Seq(Char) /\ Len(Append(s, c)) = Len(s) + 1
         /\ s # << >> => /\ SubSeq(s, 1, Len(s) - 1) \in Seq(Char)
                         /\ Len(SubSeq(s, 1, Len(s) - 1)) = Len(s) - 1
<1>1. Len(s) \in Nat
  OBVIOUS
<1>2. ASSUME NEW c \in Char
      PROVE  Append(s, c) \in Seq(Char) /\ Len(Append(s, c)) = Len(s) + 1
  OBVIOUS
<1>3. ASSUME s # << >>
      PROVE  /\ SubSeq(s, 1, Len(s) - 1) \in Seq(Char)
             /\ Len(SubSeq(s, 1, Len(s) - 1)) = Len(s) - 1
  <2> DEFINE n == Len(s) - 1
  <2>1. n \in Int /\ 0 <= n /\ \A i \in 1 .. n : s[i] \in Char
    BY <1>1, <1>3, EmptySeq
  <2> HIDE DEF n
  <2>2. SubSeq(s, 1, n) \in Seq(Char) /\ Len(SubSeq(s, 1, n)) = IF 1 <= n THEN n - 1 + 1 ELSE 0
    BY <2>1, SubSeqProperties
  <2>3. Len(SubSeq(s, 1, n)) = n
    BY <2>1, <2>2
  <2>4. QED
    BY <2>2, <2>3 DEF n
<1>4. QED
  BY <1>1, <1>2, <1>3

-----------------------------------------------------------------------------
(* start_lcd establishes the invariant: the prompt is printed on a blank   *)
(* buffer and a blank display.                                             *)
LEMMA InitIInv == Init => IInv
<1> SUFFICES ASSUME Init PROVE IInv
  OBVIOUS
<1>1. Sound(tty)
  BY PoweredOnSound, PrintPromptSound DEF Init
<1>2. cmd \in Seq(Char) /\ Len(cmd) <= CmdMax
  BY CmdMaxAssumption DEF Init
<1>3. QED
  BY <1>1, <1>2 DEF Init, IInv, TypeOK, Sound

(* Every key, and every step of a running command, preserves it.           *)
LEMMA NextIInv == IInv /\ [Next]_vars => IInv'
<1> SUFFICES ASSUME IInv, [Next]_vars PROVE IInv'
  OBVIOUS
<1>1. /\ Sound(tty) /\ cmd \in Seq(Char) /\ Len(cmd) <= CmdMax
      /\ Len(cmd) \in Nat /\ CmdMax \in Nat /\ running \in BOOLEAN
      /\ running => tty.scrollMode = 0
  BY CommandType, CmdMaxAssumption DEF IInv, TypeOK
(* It is enough that the step leaves a sound terminal, out of scroll mode  *)
(* if a command runs, and a command line that fits.                        *)
<1>2. ASSUME Sound(tty'), cmd' \in Seq(Char), Len(cmd') <= CmdMax,
             running' \in BOOLEAN, running' => tty'.scrollMode = 0
      PROVE  IInv'
  BY <1>2 DEF IInv, TypeOK, Sound, ShowsBuffer, CursorInPlace, ViewInHistory
<1>3. CASE KeyUp
  <2>1. Sound(tty')
    BY <1>1, <1>3, ScrollUpSound DEF KeyUp
  <2>2. QED
    BY <1>1, <1>2, <1>3, <2>1 DEF KeyUp
<1>4. CASE KeyDown
  <2>1. Sound(tty')
    BY <1>1, <1>4, ScrollDownSound DEF KeyDown
  <2>2. QED
    BY <1>1, <1>2, <1>4, <2>1 DEF KeyDown
<1>5. ASSUME NEW c \in Char, KeyChar(c) PROVE IInv'
  <2>1. Sound(tty')
    BY <1>1, <1>5, LeaveScrollModeSound, PrintCharSound DEF KeyChar
  <2>2. cmd' \in Seq(Char) /\ Len(cmd') <= CmdMax
    BY <1>1, <1>5, CommandType DEF KeyChar
  <2>3. QED
    BY <1>1, <1>2, <1>5, <2>1, <2>2 DEF KeyChar
<1>6. CASE KeyCharRefused
  <2>1. Sound(tty')
    BY <1>1, <1>6, LeaveScrollModeSound DEF KeyCharRefused
  <2>2. QED
    BY <1>1, <1>2, <1>6, <2>1 DEF KeyCharRefused
<1>7. CASE KeyBackspace
  <2>1. Sound(tty')
    BY <1>1, <1>7, LeaveScrollModeSound, LcdBackspaceSound DEF KeyBackspace
  <2>2. cmd' \in Seq(Char) /\ Len(cmd') <= CmdMax
    BY <1>1, <1>7, CommandType DEF KeyBackspace
  <2>3. QED
    BY <1>1, <1>2, <1>7, <2>1, <2>2 DEF KeyBackspace
<1>8. CASE KeyBackspaceRefused
  <2>1. Sound(tty')
    BY <1>1, <1>8, LeaveScrollModeSound DEF KeyBackspaceRefused
  <2>2. QED
    BY <1>1, <1>2, <1>8, <2>1 DEF KeyBackspaceRefused
<1>9. CASE KeyEnterEmpty
  <2>1. Sound(tty')
    BY <1>1, <1>9, LeaveScrollModeSound, ResetShellSound DEF KeyEnterEmpty
  <2>2. QED
    BY <1>1, <1>2, <1>9, <2>1 DEF KeyEnterEmpty
<1>10. CASE KeyEnterCommand
  <2>1. Sound(tty') /\ tty'.scrollMode = 0
    BY <1>1, <1>10, LeaveScrollModeSound DEF KeyEnterCommand
  <2>2. cmd' \in Seq(Char) /\ Len(cmd') <= CmdMax
    BY <1>1, <1>10 DEF KeyEnterCommand
  <2>3. QED
    BY <1>2, <1>10, <2>1, <2>2 DEF KeyEnterCommand
<1>11. ASSUME NEW c \in Char, CommandPrints(c) PROVE IInv'
  <2>1. Sound(tty') /\ tty'.scrollMode = 0
    BY <1>1, <1>11, PrintCharSound DEF CommandPrints
  <2>2. QED
    BY <1>1, <1>2, <1>11, <2>1 DEF CommandPrints
<1>12. CASE CommandReturns
  <2>1. Sound(tty') /\ tty'.scrollMode = 0
    BY <1>1, <1>12, ResetShellSound DEF CommandReturns
  <2>2. cmd' \in Seq(Char) /\ Len(cmd') <= CmdMax
    BY <1>1, <1>12 DEF CommandReturns
  <2>3. QED
    BY <1>2, <1>12, <2>1, <2>2 DEF CommandReturns
<1>13. CASE UNCHANGED vars
  BY <1>1, <1>2, <1>13 DEF vars
<1>14. QED
  BY <1>3, <1>4, <1>5, <1>6, <1>7, <1>8, <1>9, <1>10, <1>11, <1>12, <1>13 DEF Next

(* The inductive invariant holds in every reachable state of the key loop. *)
THEOREM Invariance == Spec => []IInv
BY InitIInv, NextIInv, PTL DEF Spec

-----------------------------------------------------------------------------
(* Every variable of the driver stays in its range, so that with the test  *)
(* at the head of print_char no store leaves the buffer or runs from one   *)
(* line into the next, and CMD_INDEX never passes CMD_MAX.                 *)
THEOREM TypeCorrect == Spec => []TypeOK
<1>1. IInv => TypeOK
  BY DEF IInv
<1>2. QED
  BY <1>1, Invariance, PTL

(* The display shows what the driver's buffer holds, after any number of   *)
(* prints, wraps, backspaces, new lines and scrolls.                       *)
THEOREM DisplayCorrect == Spec => []DisplayShowsBuffer
<1>1. IInv => DisplayShowsBuffer
  BY DEF IInv, Sound, DisplayShowsBuffer
<1>2. QED
  BY <1>1, Invariance, PTL

(* The controller's cursor is where the driver believes it is whenever a   *)
(* character may be written through it.                                    *)
THEOREM CursorCorrect == Spec => []CursorAtColumn
<1>1. IInv => CursorAtColumn
  BY DEF IInv, Sound, CursorAtColumn
<1>2. QED
  BY <1>1, Invariance, PTL

(* Scrolling never leaves the lines the buffer still holds.                *)
THEOREM ViewCorrect == Spec => []ViewWithinHistory
<1>1. IInv => ViewWithinHistory
  BY DEF IInv, Sound, ViewWithinHistory
<1>2. QED
  BY <1>1, Invariance, PTL

(* Where the view may go, Up and Down undo each other.                     *)
THEOREM ScrollKeysAreOpposite == Spec => []UpAndDownAreOpposite
<1>1. IInv => UpAndDownAreOpposite
  BY OppositeScrolls DEF IInv, UpAndDownAreOpposite
<1>2. QED
  BY <1>1, Invariance, PTL

-----------------------------------------------------------------------------
(* The echo of the command line.                                           *)

Prompt == <<PromptSign, Blank>>

(* The prompt printed at the start of a line is echoed.                    *)
LEMMA PromptEchoes ==
  ASSUME NEW t, Sound(t), t.scrollMode = 0, t.currentCol = 0
  PROVE  EchoOf(PrintPrompt(t), Prompt)
<1> DEFINE u == PrintChar(t, PromptSign)
<1>1. << >> \in Seq(Char) /\ Len(<< >>) = 0
  OBVIOUS
<1>2. EchoOf(t, << >>)
  BY <1>1 DEF EchoOf
<1>3. EchoOf(u, Append(<< >>, PromptSign)) /\ Sound(u) /\ u.scrollMode = 0
  BY <1>1, <1>2, PrintCharEchoes, PrintCharSound, LcdTerminalAssumption
<1>4. Append(<< >>, PromptSign) \in Seq(Char)
  BY <1>1, AppendProperties, LcdTerminalAssumption
<1>5. EchoOf(PrintChar(u, Blank), Append(Append(<< >>, PromptSign), Blank))
  BY <1>3, <1>4, PrintCharEchoes, LcdTerminalAssumption
<1>6. Append(Append(<< >>, PromptSign), Blank) = Prompt
  <2>1. Append(<< >>, PromptSign) = <<PromptSign>>
    OBVIOUS
  <2>2. Append(<<PromptSign>>, Blank) = <<PromptSign, Blank>>
    <3> DEFINE one == <<PromptSign>>
               two == <<PromptSign, Blank>>
               app == Append(one, Blank)
    <3>1. /\ one \in Seq(Char) /\ Len(one) = 1 /\ one[1] = PromptSign
          /\ two \in Seq(Char) /\ Len(two) = 2 /\ two[1] = PromptSign /\ two[2] = Blank
      BY LcdTerminalAssumption
    <3> HIDE DEF one, two
    <3>2. /\ app \in Seq(Char) /\ Len(app) = Len(one) + 1
          /\ \A i \in 1 .. Len(one) : app[i] = one[i]
          /\ app[Len(one) + 1] = Blank
      <4>1. one \in Seq(Char) /\ Blank \in Char
        BY <3>1, LcdTerminalAssumption
      <4>2. QED
        BY <4>1, AppendProperties
    <3> HIDE DEF app
    <3>3. Len(app) = Len(two) /\ \A i \in 1 .. Len(app) : app[i] = two[i]
      BY <3>1, <3>2
    <3>4. app = two
      BY <3>1, <3>2, <3>3, SeqEqual
    <3>5. QED
      BY <3>4 DEF app, one, two
  <2>3. QED
    BY <2>1, <2>2 DEF Prompt
<1>7. QED
  BY <1>5, <1>6 DEF PrintPrompt

(* reset_shell prints it on a new line.                                    *)
LEMMA ResetShellEchoes ==
  ASSUME NEW t, Sound(t), t.scrollMode = 0
  PROVE  EchoOf(ResetShell(t), Prompt)
<1>1. Sound(LcdNewLine(t)) /\ LcdNewLine(t).scrollMode = 0 /\ LcdNewLine(t).currentCol = 0
  BY LcdNewLineSound DEF Sound
<1>2. QED
  BY <1>1, PromptEchoes DEF ResetShell

(* The prompt and the command after it, and how they follow the command.   *)
LEMMA EchoedCommand ==
  ASSUME NEW s \in Seq(Char)
  PROVE  /\ Prompt \o s \in Seq(Char)
         /\ \A c \in Char : Prompt \o Append(s, c) = Append(Prompt \o s, c)
         /\ s # << >> =>
              LET r == Prompt \o SubSeq(s, 1, Len(s) - 1) IN
              /\ r \in Seq(Char)
              /\ Len(r) = Len(Prompt \o s) - 1
              /\ \A i \in 1 .. Len(r) : r[i] = (Prompt \o s)[i]
<1>1. Prompt \in Seq(Char) /\ Len(Prompt) = 2
  BY LcdTerminalAssumption DEF Prompt
<1> DEFINE p == Prompt
<1> HIDE DEF p
<1>2. p \in Seq(Char) /\ Len(p) = 2 /\ p = Prompt
  BY <1>1 DEF p
<1>3. /\ p \o s \in Seq(Char) /\ Len(p \o s) = 2 + Len(s) /\ Len(s) \in Nat
      /\ \A i \in 1 .. 2 + Len(s) : (p \o s)[i] = IF i <= 2 THEN p[i] ELSE s[i - 2]
  <2>1. p \in Seq(Char)
    BY <1>2
  <2>2. /\ p \o s \in Seq(Char) /\ Len(p \o s) = Len(p) + Len(s)
        /\ \A i \in 1 .. Len(p) + Len(s) :
             (p \o s)[i] = IF i <= Len(p) THEN p[i] ELSE s[i - Len(p)]
    BY <2>1, ConcatProperties
  <2>3. QED
    BY <1>2, <2>2
<1>4. ASSUME NEW c \in Char
      PROVE  p \o Append(s, c) = Append(p \o s, c)
  <2>1. <<c>> \in Seq(Char)
    OBVIOUS
  <2>2. Append(s, c) = s \o <<c>> /\ Append(p \o s, c) = (p \o s) \o <<c>>
    BY <1>3, AppendIsConcat
  <2>3. QED
    BY <1>2, <2>1, <2>2, ConcatAssociative
<1>5. ASSUME s # << >>
      PROVE  LET r == p \o SubSeq(s, 1, Len(s) - 1) IN
             /\ r \in Seq(Char)
             /\ Len(r) = Len(p \o s) - 1
             /\ \A i \in 1 .. Len(r) : r[i] = (p \o s)[i]
  <2> DEFINE n == Len(s) - 1
             q == SubSeq(s, 1, n)
             r == p \o q
  <2>1. q \in Seq(Char) /\ Len(q) = n
    BY <1>5, CommandType
  <2>2. n \in Int /\ \A i \in 1 .. n : s[i] \in Char
    BY <1>3
  <2>3. \A i \in 1 .. n : q[i] = s[i]
    <3> HIDE DEF n
    <3>1. \A i \in 1 .. n - 1 + 1 : q[i] = s[1 + i - 1]
      BY <2>2, SubSeqProperties
    <3>2. QED
      BY <2>2, <3>1
  <2> HIDE DEF q
  <2>4. /\ r \in Seq(Char) /\ Len(r) = 2 + n
        /\ \A i \in 1 .. 2 + n : r[i] = IF i <= 2 THEN p[i] ELSE q[i - 2]
    <3>1. p \in Seq(Char)
      BY <1>2
    <3>2. /\ r \in Seq(Char) /\ Len(r) = Len(p) + Len(q)
          /\ \A i \in 1 .. Len(p) + Len(q) :
               r[i] = IF i <= Len(p) THEN p[i] ELSE q[i - Len(p)]
      BY <2>1, <3>1, ConcatProperties
    <3>3. QED
      BY <1>2, <2>1, <3>2
  <2> HIDE DEF r
  <2>5. \A i \in 1 .. 2 + n : r[i] = (p \o s)[i]
    <3> SUFFICES ASSUME NEW i \in 1 .. 2 + n PROVE r[i] = (p \o s)[i]
      OBVIOUS
    <3>1. i \in 1 .. 2 + Len(s) /\ (i <= 2 \/ i - 2 \in 1 .. n)
      BY <1>3
    <3>2. QED
      BY <1>3, <2>3, <2>4, <3>1
  <2>6. QED
    BY <1>3, <2>4, <2>5 DEF r, q
<1>6. QED
  BY <1>2, <1>3, <1>4, <1>5

(* The echo, in the words of the lemmas.                                   *)
LEMMA EchoMeaning == EchoIsEndOfCommand <=> (~running => EchoOf(tty, Prompt \o cmd))
BY DEF EchoIsEndOfCommand, EchoOf, Prompt

(* What a user reads on the last line is the end of what Enter will run.   *)
(* The property is inductive given the invariant above: the echo of each   *)
(* key depends on the text and on a terminal out of scroll mode only.      *)
THEOREM EchoCorrect == Spec => []EchoIsEndOfCommand
<1> DEFINE Echo == ~running => EchoOf(tty, Prompt \o cmd)
<1>1. Init => Echo
  <2>1. Prompt \o << >> = Prompt
    <3>1. Prompt \in Seq(Char)
      BY LcdTerminalAssumption DEF Prompt
    <3>2. QED
      BY <3>1, ConcatEmptySeq
  <2>2. QED
    BY <2>1, PoweredOnSound, PromptEchoes DEF Init
<1>2. IInv /\ Echo /\ [Next]_vars => Echo'
  <2> SUFFICES ASSUME IInv, Echo, [Next]_vars, ~running'
               PROVE  EchoOf(tty', Prompt \o cmd')
    OBVIOUS
  <2> DEFINE t == LeaveScrollMode(tty)
  <2>1. Sound(tty) /\ tty \in Terminal /\ cmd \in Seq(Char)
    BY DEF IInv, TypeOK, Sound
  <2>2. Sound(t) /\ t.scrollMode = 0 /\ SameText(t, tty)
    BY <2>1, LeaveScrollModeSound, ExitScrollModeSound DEF LeaveScrollMode, SameText
  (* Where only the view or the cursor moves.                              *)
  <2>3. ASSUME ~running, SameText(tty', tty), cmd' = cmd
        PROVE  EchoOf(tty', Prompt \o cmd')
    BY <2>3 DEF EchoOf, SameText
  <2>4. ~running => EchoOf(t, Prompt \o cmd)
    BY <2>2 DEF EchoOf, SameText
  <2>5. Prompt \o << >> = Prompt
    <3>1. Prompt \in Seq(Char)
      BY LcdTerminalAssumption DEF Prompt
    <3>2. QED
      BY <3>1, ConcatEmptySeq
  <2> HIDE DEF t
  <2>6. CASE KeyUp
    BY <2>1, <2>3, <2>6, ScrollUpFields DEF KeyUp
  <2>7. CASE KeyDown
    BY <2>1, <2>3, <2>7, ScrollDownFields DEF KeyDown
  <2>8. ASSUME NEW c \in Char, KeyChar(c) PROVE EchoOf(tty', Prompt \o cmd')
    <3>1. EchoOf(PrintChar(t, c), Append(Prompt \o cmd, c))
      BY <2>1, <2>2, <2>4, <2>8, EchoedCommand, PrintCharEchoes DEF KeyChar
    <3>2. QED
      BY <2>1, <2>8, <3>1, EchoedCommand DEF KeyChar, t
  <2>9. CASE KeyCharRefused
    BY <2>2, <2>3, <2>9 DEF KeyCharRefused, t
  <2>10. CASE KeyBackspace
    <3>1. EchoOf(LcdBackspace(t), Prompt \o SubSeq(cmd, 1, Len(cmd) - 1))
      BY <2>1, <2>2, <2>4, <2>10, EchoedCommand, BackspaceEchoes DEF KeyBackspace
    <3>2. QED
      BY <2>10, <3>1 DEF KeyBackspace, t
  <2>11. CASE KeyBackspaceRefused
    BY <2>2, <2>3, <2>11 DEF KeyBackspaceRefused, t
  <2>12. CASE KeyEnterEmpty
    BY <2>2, <2>5, <2>12, ResetShellEchoes DEF KeyEnterEmpty, t
  <2>13. CASE KeyEnterCommand
    BY <2>13 DEF KeyEnterCommand
  <2>14. ASSUME NEW c \in Char, CommandPrints(c) PROVE FALSE
    BY <2>14 DEF CommandPrints
  <2>15. CASE CommandReturns
    <3>1. tty.scrollMode = 0
      BY <2>15 DEF CommandReturns, IInv
    <3>2. QED
      BY <2>1, <2>5, <2>15, <3>1, ResetShellEchoes DEF CommandReturns
  <2>16. CASE UNCHANGED vars
    BY <2>16 DEF vars
  <2>17. QED
    BY <2>6, <2>7, <2>8, <2>9, <2>10, <2>11, <2>12, <2>13, <2>14, <2>15, <2>16 DEF Next
<1>3. Echo <=> EchoIsEndOfCommand
  BY EchoMeaning
<1>4. QED
  BY <1>1, <1>2, <1>3, Invariance, PTL DEF Spec

-----------------------------------------------------------------------------
(* The driver implements the scrollback terminal.                          *)
(*                                                                         *)
(* The lines of the circular buffer in the order they were printed.        *)

(* The slot of the i-th line when the oldest is in slot o.                 *)
SlotOf(o, i) == LET at == o + i - 1 IN IF at < Lines THEN at ELSE at - Lines

(* How far a slot is from the oldest line tells which line is in it.       *)
LEMMA SlotOfFacts ==
  ASSUME NEW o \in Slot
  PROVE  /\ \A i \in 1 .. Lines : SlotOf(o, i) \in Slot /\ Distance(o, SlotOf(o, i)) = i - 1
         /\ \A l \in Slot : SlotOf(o, Distance(o, l) + 1) = l
         /\ \A i \in 1 .. Lines - 1 : SlotOf(Succ(o), i) = SlotOf(o, i + 1)
         /\ SlotOf(Succ(o), Lines) = o
<1>1. Lines \in Nat /\ Lines >= 2 /\ o \in Nat /\ o < Lines
  BY LcdTerminalAssumption DEF Slot
<1>2. ASSUME NEW i \in 1 .. Lines
      PROVE  SlotOf(o, i) \in Slot /\ Distance(o, SlotOf(o, i)) = i - 1
  BY <1>1 DEF SlotOf, Slot, Distance
<1>3. ASSUME NEW l \in Slot
      PROVE  SlotOf(o, Distance(o, l) + 1) = l
  BY <1>1 DEF SlotOf, Slot, Distance
<1>4. ASSUME NEW i \in 1 .. Lines - 1
      PROVE  SlotOf(Succ(o), i) = SlotOf(o, i + 1)
  BY <1>1 DEF SlotOf, Succ
<1>5. SlotOf(Succ(o), Lines) = o
  BY <1>1 DEF SlotOf, Succ
<1>6. QED
  BY <1>2, <1>3, <1>4, <1>5

(* Of two lines the buffer holds, how far the newer is from the older.     *)
LEMMA DistanceBetween ==
  ASSUME NEW a \in Slot, NEW b \in Slot, NEW c \in Slot,
         Distance(a, b) <= Distance(a, c)
  PROVE  Distance(b, c) = Distance(a, c) - Distance(a, b)
BY LcdTerminalAssumption DEF Slot, Distance

(* The history is made of the retained lines, the oldest first.            *)
LEMMA HistoryFacts ==
  ASSUME NEW t \in Terminal
  PROVE  /\ Retained(t) \in 1 .. Lines
         /\ History(t) \in Seq(Line) /\ Len(History(t)) = Retained(t)
         /\ \A i \in 1 .. Retained(t) : History(t)[i] = t.buffer[SlotOf(t.oldestLine, i)]
<1>1. t.oldestLine \in Slot /\ t.currentLine \in Slot /\ t.buffer \in [Slot -> Line]
  BY DEF Terminal
<1> DEFINE n == Retained(t)
           h == History(t)
<1>2. n \in 1 .. Lines /\ n \in Nat
  BY <1>1, DistanceFacts, LcdTerminalAssumption DEF Retained
<1>3. h = [i \in 1 .. n |-> t.buffer[SlotOf(t.oldestLine, i)]]
  BY Zenon DEF History, SlotOf
<1>4. \A i \in 1 .. n : i \in 1 .. Lines
  BY <1>2, LcdTerminalAssumption
<1> HIDE DEF n, h
<1>5. \A i \in 1 .. n : t.buffer[SlotOf(t.oldestLine, i)] \in Line
  BY <1>1, <1>4, SlotOfFacts
<1>6. h \in [1 .. n -> Line]
  BY <1>3, <1>5
<1>7. h \in Seq(Line) /\ Len(h) = n
  BY <1>2, <1>6
<1>8. QED
  BY <1>2, <1>3, <1>7 DEF n, h

(* A retained line in the history.                                         *)
LEMMA HistoryLine ==
  ASSUME NEW t \in Terminal, NEW l \in Slot,
         Distance(t.oldestLine, l) <= Distance(t.oldestLine, t.currentLine)
  PROVE  History(t)[Distance(t.oldestLine, l) + 1] = t.buffer[l]
<1>1. t.oldestLine \in Slot /\ t.currentLine \in Slot
  BY DEF Terminal
<1> DEFINE d == Distance(t.oldestLine, l)
           n == Distance(t.oldestLine, t.currentLine)
<1>2. d \in Nat /\ n \in Nat /\ d <= n
  BY <1>1, DistanceFacts, LcdTerminalAssumption
<1>3. Retained(t) = n + 1
  BY DEF Retained
<1>4. SlotOf(t.oldestLine, d + 1) = l
  BY <1>1, SlotOfFacts
<1> HIDE DEF d, n
<1>5. d + 1 \in 1 .. n + 1
  BY <1>2
<1>6. History(t)[d + 1] = t.buffer[SlotOf(t.oldestLine, d + 1)]
  BY <1>3, <1>5, HistoryFacts
<1>7. QED
  BY <1>4, <1>6 DEF d

(* The same text has the same history.                                     *)
LEMMA HistoryOfSameText ==
  ASSUME NEW t, NEW u, SameText(u, t)
  PROVE  History(u) = History(t) /\ Retained(u) = Retained(t)
BY DEF SameText, History, Retained

(* AdvanceLine appends an empty line and drops the oldest of a full        *)
(* buffer.                                                                 *)
LEMMA HistoryAdvances ==
  ASSUME NEW t \in Terminal
  PROVE  /\ History(AdvanceLine(t)) =
              Append(IF Len(History(t)) = Lines THEN Tail(History(t)) ELSE History(t),
                     BlankLine)
         /\ Retained(AdvanceLine(t)) >= 2
<1> DEFINE u == AdvanceLine(t)
           o == t.oldestLine
           cur == t.currentLine
           n == Retained(t)
           h == History(t)
           g == History(u)
<1>1. /\ u \in Terminal /\ u.currentLine = Succ(cur)
      /\ u.buffer = [t.buffer EXCEPT ![Succ(cur)] = BlankLine]
      /\ u.oldestLine = IF Succ(cur) = o THEN Succ(o) ELSE o
  BY AdvanceLineFields
<1>2. /\ o \in Slot /\ cur \in Slot /\ Succ(cur) \in Slot /\ Succ(o) \in Slot
      /\ t.buffer \in [Slot -> Line]
  BY SuccPred DEF Terminal
<1>3. Lines \in Nat /\ Lines >= 2 /\ n \in 1 .. Lines
  BY HistoryFacts, LcdTerminalAssumption
<1>4. /\ h \in Seq(Line) /\ Len(h) = n
      /\ \A i \in 1 .. n : h[i] = t.buffer[SlotOf(o, i)]
  BY HistoryFacts
<1>5. /\ g \in Seq(Line) /\ Len(g) = Retained(u)
      /\ \A i \in 1 .. Retained(u) : g[i] = u.buffer[SlotOf(u.oldestLine, i)]
  BY <1>1, HistoryFacts
<1>6. n = Distance(o, cur) + 1 /\ Retained(u) = Distance(u.oldestLine, Succ(cur)) + 1
  BY <1>1 DEF Retained
<1>7. BlankLine \in Line
  BY BlankLineType
<1>8. u.buffer[Succ(cur)] = BlankLine
      /\ \A l \in Slot : l # Succ(cur) => u.buffer[l] = t.buffer[l]
  BY <1>1, <1>2
<1> HIDE DEF u, o, cur, n, h, g
<1>9. CASE Succ(cur) = o
  <2>1. n = Lines /\ u.oldestLine = Succ(o) /\ Succ(cur) = o
    <3>1. Distance(o, cur) = Lines - 1
      BY <1>2, <1>9, DistanceFacts
    <3>2. QED
      BY <1>1, <1>3, <1>6, <1>9, <3>1
  <2>2. Retained(u) = Lines
    <3>1. Distance(Succ(o), o) = Lines - 1
      BY <1>2, DistanceFacts
    <3>2. QED
      BY <1>3, <1>6, <2>1, <3>1
  <2>3. h # << >>
    BY <1>3, <1>4, EmptySeq
  <2>4. /\ Tail(h) \in Seq(Line) /\ Len(Tail(h)) = Lines - 1
        /\ \A i \in 1 .. Lines - 1 : Tail(h)[i] = h[i + 1]
    BY <1>4, <2>1, <2>3, HeadTailProperties
  <2> DEFINE q == Tail(h)
  <2> HIDE DEF q
  <2>5. q \in Seq(Line) /\ Len(q) = Lines - 1
    BY <2>4 DEF q
  <2>6. /\ Append(q, BlankLine) \in Seq(Line) /\ Len(Append(q, BlankLine)) = Lines - 1 + 1
        /\ \A i \in 1 .. Lines - 1 : Append(q, BlankLine)[i] = q[i]
        /\ Append(q, BlankLine)[Lines - 1 + 1] = BlankLine
    BY <1>7, <2>5, AppendProperties
  <2>7. ASSUME NEW i \in 1 .. Lines
        PROVE  g[i] = Append(q, BlankLine)[i]
    <3>1. g[i] = u.buffer[SlotOf(Succ(o), i)]
      BY <1>5, <2>1, <2>2
    <3>2. CASE i = Lines
      <4>1. SlotOf(Succ(o), i) = Succ(cur)
        BY <1>2, <2>1, <3>2, SlotOfFacts
      <4>2. Lines - 1 + 1 = i
        BY <1>3, <3>2
      <4>3. QED
        BY <1>8, <2>6, <3>1, <4>1, <4>2
    <3>3. CASE i # Lines
      <4>1. i \in 1 .. Lines - 1 /\ i + 1 \in 1 .. Lines /\ i + 1 - 1 # 0
        BY <1>3, <3>3
      <4>2. /\ SlotOf(Succ(o), i) = SlotOf(o, i + 1) /\ SlotOf(o, i + 1) \in Slot
            /\ Distance(o, SlotOf(o, i + 1)) = i + 1 - 1
        BY <1>2, <4>1, SlotOfFacts
      <4>3. SlotOf(o, i + 1) # Succ(cur)
        BY <1>2, <2>1, <4>1, <4>2, DistanceFacts
      <4>4. Append(q, BlankLine)[i] = h[i + 1]
        BY <2>4, <2>6, <4>1 DEF q
      <4>5. h[i + 1] = t.buffer[SlotOf(o, i + 1)]
        BY <1>4, <2>1, <4>1
      <4>6. QED
        BY <1>8, <3>1, <4>2, <4>3, <4>4, <4>5
    <3>4. QED
      BY <3>2, <3>3
  <2>8. Lines - 1 + 1 = Lines
    BY <1>3
  <2>9. g = Append(q, BlankLine)
    BY <1>5, <2>2, <2>6, <2>7, <2>8, SeqEqual
  <2>10. QED
    BY <1>3, <1>4, <2>1, <2>2, <2>9 DEF q, g, h, u
<1>10. CASE Succ(cur) # o
  <2>1. u.oldestLine = o /\ Distance(o, Succ(cur)) = Distance(o, cur) + 1
    BY <1>1, <1>2, <1>10, DistanceFacts
  <2>2. Distance(o, Succ(cur)) \in 0 .. Lines - 1
    BY <1>2, DistanceFacts
  <2>3. Retained(u) = n + 1 /\ n < Lines /\ n \in Nat /\ n >= 1
    BY <1>3, <1>6, <2>1, <2>2
  <2>4. /\ Append(h, BlankLine) \in Seq(Line) /\ Len(Append(h, BlankLine)) = n + 1
        /\ \A i \in 1 .. n : Append(h, BlankLine)[i] = h[i]
        /\ Append(h, BlankLine)[n + 1] = BlankLine
    BY <1>4, <1>7, AppendProperties
  <2>5. ASSUME NEW i \in 1 .. n + 1
        PROVE  g[i] = Append(h, BlankLine)[i]
    <3>1. g[i] = u.buffer[SlotOf(o, i)]
      BY <1>5, <2>1, <2>3
    <3>2. CASE i = n + 1
      <4>1. i = Distance(o, Succ(cur)) + 1
        BY <1>6, <2>1, <3>2
      <4>2. SlotOf(o, i) = Succ(cur)
        BY <1>2, <4>1, SlotOfFacts
      <4>3. QED
        BY <1>8, <2>4, <3>1, <3>2, <4>2
    <3>3. CASE i # n + 1
      <4>1. i \in 1 .. n /\ i \in 1 .. Lines /\ i - 1 # n
        BY <1>3, <2>3, <3>3
      <4>2. SlotOf(o, i) \in Slot /\ Distance(o, SlotOf(o, i)) = i - 1
        BY <1>2, <4>1, SlotOfFacts
      <4>3. Distance(o, Succ(cur)) = n
        BY <1>6, <2>1
      <4>4. SlotOf(o, i) # Succ(cur)
        BY <4>1, <4>2, <4>3
      <4>5. QED
        BY <1>4, <1>8, <2>4, <3>1, <4>1, <4>2, <4>4
    <3>4. QED
      BY <3>2, <3>3
  <2>6. g = Append(h, BlankLine)
    BY <1>5, <2>3, <2>4, <2>5, SeqEqual
  <2>7. QED
    BY <1>4, <2>3, <2>6 DEF g, h, u
<1>11. QED
  BY <1>9, <1>10

(* A store on the current line changes the last line of the history.       *)
LEMMA HistoryStores ==
  ASSUME NEW t \in Terminal, NEW u \in Terminal, NEW i \in Column, NEW c \in Char,
         u.buffer = Stored(t, i, c),
         u.currentLine = t.currentLine, u.oldestLine = t.oldestLine
  PROVE  /\ History(u) = [History(t) EXCEPT ![Len(History(t))] =
                            [History(t)[Len(History(t))] EXCEPT ![i] = c]]
         /\ Retained(u) = Retained(t)
<1> DEFINE o == t.oldestLine
           cur == t.currentLine
           h == History(t)
           g == History(u)
           n == Retained(t)
           line == [t.buffer[cur] EXCEPT ![i] = c]
           q == [h EXCEPT ![n] = line]
<1>1. o \in Slot /\ cur \in Slot /\ t.buffer \in [Slot -> Line] /\ t.buffer[cur] \in Line
  BY DEF Terminal
<1>2. u.buffer[cur] = line /\ \A l \in Slot : l # cur => u.buffer[l] = t.buffer[l]
  BY <1>1 DEF Stored
<1>3. line \in Line
  BY <1>1 DEF Line
<1>4. /\ n \in 1 .. Lines /\ h \in Seq(Line) /\ Len(h) = n
      /\ \A j \in 1 .. n : h[j] = t.buffer[SlotOf(o, j)]
  BY HistoryFacts
<1>5. Retained(u) = n
  BY DEF Retained
<1>6. /\ g \in Seq(Line) /\ Len(g) = n
      /\ \A j \in 1 .. n : g[j] = u.buffer[SlotOf(o, j)]
  BY <1>5, HistoryFacts
<1>7. n = Distance(o, cur) + 1 /\ n \in 1 .. Len(h) /\ \A j \in 1 .. n : j \in 1 .. Lines
  <2>1. Distance(o, cur) \in 0 .. Lines - 1
    BY <1>1, DistanceFacts
  <2>2. QED
    BY <1>4, <2>1, LcdTerminalAssumption DEF Retained
<1> HIDE DEF o, cur, h, g, n, line
<1>8. /\ q \in Seq(Line) /\ Len(q) = n
      /\ \A j \in 1 .. n : q[j] = IF j = n THEN line ELSE h[j]
  BY <1>3, <1>4, <1>7, ExceptSeq
<1>9. ASSUME NEW j \in 1 .. n
      PROVE  g[j] = q[j]
  <2>1. CASE j = n
    <3>1. SlotOf(o, j) = cur
      BY <1>1, <1>7, <2>1, SlotOfFacts
    <3>2. QED
      BY <1>2, <1>6, <1>8, <2>1, <3>1
  <2>2. CASE j # n
    <3>1. SlotOf(o, j) \in Slot /\ Distance(o, SlotOf(o, j)) = j - 1
      BY <1>1, <1>7, SlotOfFacts
    <3>2. j - 1 # Distance(o, cur)
      <4>1. Distance(o, cur) \in 0 .. Lines - 1
        BY <1>1, DistanceFacts
      <4>2. QED
        BY <1>4, <1>7, <2>2, <4>1
    <3>3. SlotOf(o, j) # cur
      BY <3>1, <3>2
    <3>4. QED
      BY <1>2, <1>4, <1>6, <1>8, <2>2, <3>1, <3>3
  <2>3. QED
    BY <2>1, <2>2
<1>10. g = q
  BY <1>6, <1>8, <1>9, SeqEqual
<1>11. h[n] = t.buffer[cur]
  <2>1. SlotOf(o, n) = cur
    BY <1>1, <1>7, SlotOfFacts
  <2>2. QED
    BY <1>4, <1>7, <2>1
<1>12. Len(h) = n /\ g = [h EXCEPT ![n] = [h[n] EXCEPT ![i] = c]]
  BY <1>4, <1>10, <1>11 DEF line
<1>13. QED
  BY <1>5, <1>12 DEF g, h, n

(* The abstract terminal's variables as functions of a terminal.           *)
Text(t) == [history |-> History(t), column |-> t.currentCol]
Back(t) == IF t.scrollMode = 0 \/ Retained(t) = 1
             THEN 0 ELSE Distance(t.viewTop, t.currentLine) - 1
Shown(t) == <<t.lcd[0], t.lcd[1]>>

(* Before the second line is started the one above the first is blank.     *)
BlankAbove(t) == Retained(t) = 1 => t.buffer[Pred(t.currentLine)] = BlankLine

(* clear_current_line_in_buffer leaves an empty line of the scrollback.    *)
LEMMA EmptyLineIsBlank == Abstract!EmptyLine = BlankLine
BY DEF Abstract!EmptyLine, BlankLine, Column

(* Advancing to a new line is a Feed.                                      *)
LEMMA AdvanceFeeds ==
  ASSUME NEW t \in Terminal
  PROVE  /\ Text(AdvanceLine(t)) = Abstract!Feed(Text(t))
         /\ BlankAbove(AdvanceLine(t))
<1>1. /\ AdvanceLine(t).currentCol = 0
      /\ History(AdvanceLine(t)) =
           Append(IF Len(History(t)) = Lines THEN Tail(History(t)) ELSE History(t),
                  BlankLine)
      /\ Retained(AdvanceLine(t)) >= 2
  BY AdvanceLineFields, HistoryAdvances
<1>2. BlankAbove(AdvanceLine(t))
  <2>1. AdvanceLine(t) \in Terminal
    BY AdvanceLineFields
  <2>2. Retained(AdvanceLine(t)) \in 1 .. Lines
    BY <2>1, HistoryFacts
  <2>3. Retained(AdvanceLine(t)) # 1
    BY <1>1, <2>2, LcdTerminalAssumption
  <2>4. QED
    BY <2>3 DEF BlankAbove
<1>3. QED
  BY <1>1, <1>2, EmptyLineIsBlank DEF Text, Abstract!Feed

(* The same text is the same abstract text.                                *)
LEMMA TextOfSameText ==
  ASSUME NEW t, NEW u, SameText(u, t)
  PROVE  Text(u) = Text(t) /\ (BlankAbove(t) => BlankAbove(u))
BY HistoryOfSameText DEF Text, BlankAbove, SameText

(* A store on the current line keeps the line above the first blank.       *)
LEMMA BlankAboveStores ==
  ASSUME NEW t \in Terminal, NEW u \in Terminal, NEW i \in Column, NEW c \in Char,
         u.buffer = Stored(t, i, c),
         u.currentLine = t.currentLine, u.oldestLine = t.oldestLine,
         BlankAbove(t)
  PROVE  BlankAbove(u)
<1>1. /\ t.currentLine \in Slot /\ Pred(t.currentLine) \in Slot
      /\ Pred(t.currentLine) # t.currentLine /\ t.buffer \in [Slot -> Line]
  BY SuccPred DEF Terminal
<1>2. u.buffer[Pred(t.currentLine)] = t.buffer[Pred(t.currentLine)]
  BY <1>1 DEF Stored
<1>3. Retained(u) = Retained(t)
  BY DEF Retained
<1>4. QED
  BY <1>2, <1>3 DEF BlankAbove

(* print_char is a Write.                                                  *)
LEMMA PrintCharWrites ==
  ASSUME NEW t, NEW c \in Char, Sound(t), t.scrollMode = 0, BlankAbove(t)
  PROVE  /\ Text(PrintChar(t, c)) = Abstract!Write(Text(t), c)
         /\ BlankAbove(PrintChar(t, c))
<1> DEFINE u == PrintChar(t, c)
           r == Room(t)
           y == Text(r)
<1>1. t \in Terminal /\ t.currentCol \in 0 .. Cols
  BY DEF Sound, Terminal
<1>2. /\ u \in Terminal /\ u.buffer = Stored(r, r.currentCol, c)
      /\ u.currentLine = r.currentLine /\ u.oldestLine = r.oldestLine
      /\ u.currentCol = r.currentCol + 1
  BY PrintCharSound DEF Sound
<1>3. r \in Terminal /\ r.currentCol \in Column
  <2>1. CASE t.currentCol >= Cols
    <3>1. r \in Terminal /\ r.currentCol = 0
      BY <1>1, <2>1, AdvanceLineFields DEF Room
    <3>2. 0 \in Column
      BY LcdTerminalAssumption DEF Column
    <3>3. QED
      BY <3>1, <3>2
  <2>2. CASE ~(t.currentCol >= Cols)
    <3>1. r = t
      BY <2>2 DEF Room
    <3>2. t.currentCol \in Column
      BY <1>1, <2>2, LcdTerminalAssumption DEF Column
    <3>3. QED
      BY <1>1, <3>1, <3>2
  <2>3. QED
    BY <2>1, <2>2
<1>4. y = (IF Text(t).column = Cols THEN Abstract!Feed(Text(t)) ELSE Text(t)) /\ BlankAbove(r)
  <2>1. t.currentCol >= Cols <=> Text(t).column = Cols
    BY <1>1, LcdTerminalAssumption DEF Text
  <2>2. QED
    BY <1>1, <2>1, AdvanceFeeds DEF Room
<1> HIDE DEF u, r
<1>5. /\ History(u) = [History(r) EXCEPT ![Len(History(r))] =
                         [History(r)[Len(History(r))] EXCEPT ![r.currentCol] = c]]
      /\ BlankAbove(u)
  BY <1>2, <1>3, <1>4, HistoryStores, BlankAboveStores
<1>6. Text(u) = [history |-> [y.history EXCEPT ![Len(y.history)][y.column] = c],
                 column  |-> y.column + 1]
  BY <1>2, <1>5 DEF Text
<1> HIDE DEF y
<1>7. Abstract!Write(Text(t), c) =
        [history |-> [y.history EXCEPT ![Len(y.history)][y.column] = c],
         column  |-> y.column + 1]
  BY <1>4 DEF Abstract!Write
<1>8. QED
  BY <1>5, <1>6, <1>7 DEF u

(* lcd_backspace is an Erase.                                              *)
LEMMA BackspaceErases ==
  ASSUME NEW t, Sound(t), t.scrollMode = 0, BlankAbove(t)
  PROVE  /\ Text(LcdBackspace(t)) = Abstract!Erase(Text(t))
         /\ BlankAbove(LcdBackspace(t))
<1> DEFINE u == LcdBackspace(t)
           x == Text(t)
<1>1. t \in Terminal /\ t.currentCol \in 0 .. Cols
  BY DEF Sound, Terminal
<1>2. /\ u \in Terminal
      /\ u.currentLine = t.currentLine /\ u.oldestLine = t.oldestLine
      /\ IF t.currentCol = 0
           THEN u.buffer = t.buffer /\ u.currentCol = 0
           ELSE /\ u.buffer = Stored(t, t.currentCol - 1, Blank)
                /\ u.currentCol = t.currentCol - 1
  BY LcdBackspaceSound DEF Sound
<1> HIDE DEF u
<1>3. CASE t.currentCol = 0
  <2>1. SameText(u, t)
    BY <1>2, <1>3 DEF SameText
  <2>2. Abstract!Erase(x) = x
    BY <1>3 DEF Abstract!Erase, Text
  <2>3. QED
    BY <2>1, <2>2, TextOfSameText DEF u
<1>4. CASE t.currentCol # 0
  <2>1. t.currentCol - 1 \in Column /\ Blank \in Char
    BY <1>1, <1>4, LcdTerminalAssumption DEF Column
  <2>2. /\ History(u) = [History(t) EXCEPT ![Len(History(t))] =
                           [History(t)[Len(History(t))] EXCEPT ![t.currentCol - 1] = Blank]]
        /\ BlankAbove(u)
    BY <1>1, <1>2, <1>4, <2>1, HistoryStores, BlankAboveStores
  <2>3. Abstract!Erase(x) =
          [history |-> [x.history EXCEPT ![Len(x.history)][x.column - 1] = Blank],
           column  |-> x.column - 1]
    BY <1>4 DEF Abstract!Erase, Text
  <2>4. QED
    BY <1>2, <1>4, <2>2, <2>3 DEF Text, u
<1>5. QED
  BY <1>3, <1>4

(* reset_shell is a Feed and then the prompt.                              *)
LEMMA ResetShellPrompts ==
  ASSUME NEW t, Sound(t), t.scrollMode = 0
  PROVE  /\ Text(ResetShell(t)) = Abstract!Prompted(Abstract!Feed(Text(t)))
         /\ BlankAbove(ResetShell(t))
<1> DEFINE u == LcdNewLine(t)
           v == PrintChar(u, PromptSign)
<1>1. t \in Terminal
  BY DEF Sound
<1>2. /\ Sound(u) /\ u.scrollMode = 0 /\ SameText(u, AdvanceLine(t))
  BY <1>1, LcdNewLineSound
<1>3. Text(u) = Abstract!Feed(Text(t)) /\ BlankAbove(u)
  BY <1>1, <1>2, AdvanceFeeds, TextOfSameText
<1>4. PromptSign \in Char /\ Blank \in Char
  BY LcdTerminalAssumption
<1> HIDE DEF u
<1>5. /\ Sound(v) /\ v.scrollMode = 0
      /\ Text(v) = Abstract!Write(Text(u), PromptSign) /\ BlankAbove(v)
  BY <1>2, <1>3, <1>4, PrintCharSound, PrintCharWrites
<1> HIDE DEF v
<1>6. /\ Text(PrintChar(v, Blank)) = Abstract!Write(Text(v), Blank)
      /\ BlankAbove(PrintChar(v, Blank))
  BY <1>4, <1>5, PrintCharWrites
<1>7. ResetShell(t) = PrintChar(v, Blank)
  BY DEF ResetShell, PrintPrompt, u, v
<1>8. QED
  BY <1>3, <1>5, <1>6, <1>7 DEF Abstract!Prompted

(* Where the view is in the history: no further up than the oldest line,   *)
(* and Back lines above the bottom.                                        *)
LEMMA ViewFacts ==
  ASSUME NEW t, Sound(t), Retained(t) >= 2
  PROVE  LET D(l) == Distance(t.oldestLine, l) IN
         /\ Top(t) \in Slot /\ Succ(Top(t)) \in Slot
         /\ D(Top(t)) \in Nat /\ D(t.currentLine) \in Nat
         /\ D(Top(t)) < D(t.currentLine)
         /\ D(Succ(Top(t))) = D(Top(t)) + 1
         /\ Back(t) = D(t.currentLine) - D(Top(t)) - 1
         /\ Retained(t) = D(t.currentLine) + 1
         /\ Top(t) = t.oldestLine <=> D(Top(t)) = 0
         /\ Top(t) # t.oldestLine => D(Pred(Top(t))) = D(Top(t)) - 1
         /\ Succ(Top(t)) = t.currentLine <=> D(Top(t)) + 1 = D(t.currentLine)
<1> DEFINE o == t.oldestLine
           cur == t.currentLine
           top == Top(t)
           D(l) == Distance(o, l)
<1>1. /\ o \in Slot /\ cur \in Slot /\ t.viewTop \in Slot /\ Pred(cur) \in Slot
      /\ t.scrollMode \in 0 .. 1
  BY SuccPred DEF Sound, Terminal
<1>2. top \in Slot /\ Succ(top) \in Slot
  BY <1>1, SuccPred DEF Top
<1>3. /\ D(top) \in 0 .. Lines - 1 /\ D(cur) \in 0 .. Lines - 1
      /\ D(Succ(top)) \in 0 .. Lines - 1
      /\ top = o <=> D(top) = 0
      /\ top # o => D(Pred(top)) = D(top) - 1
      /\ D(top) = D(cur) => top = cur
  <2>1. D(top) \in 0 .. Lines - 1 /\ D(cur) \in 0 .. Lines - 1
        /\ D(Succ(top)) \in 0 .. Lines - 1
    BY <1>1, <1>2, DistanceFacts
  <2>2. (D(top) = 0 <=> o = top) /\ (o # top => D(Pred(top)) = D(top) - 1)
    BY <1>1, <1>2, DistanceFacts
  <2>3. D(top) = D(cur) => top = cur
    BY <1>1, <1>2, DistanceFacts
  <2>4. QED
    BY <2>1, <2>2, <2>3
<1>4. Retained(t) = D(cur) + 1
  BY DEF Retained
<1>5. D(top) < D(cur) /\ Back(t) = D(cur) - D(top) - 1
  <2>1. CASE t.scrollMode = 0
    <3>1. top = Pred(cur) /\ Back(t) = 0
      BY <2>1 DEF Top, Back
    <3>2. D(cur) # 0
      BY <1>3, <1>4, LcdTerminalAssumption
    <3>3. o # cur
      BY <1>1, <3>2, DistanceFacts
    <3>4. D(Pred(cur)) = D(cur) - 1
      BY <1>1, <3>3, DistanceFacts
    <3>5. QED
      BY <1>3, <3>1, <3>4, LcdTerminalAssumption
  <2>2. CASE t.scrollMode = 1
    <3>1. top = t.viewTop /\ D(top) < D(cur)
      BY <2>2 DEF Top, Sound, ViewInHistory
    <3>2. Distance(top, cur) = D(cur) - D(top)
      <4>1. D(top) <= D(cur)
        BY <1>3, <3>1, LcdTerminalAssumption
      <4>2. QED
        BY <1>1, <1>2, <4>1, DistanceBetween
    <3>3. Retained(t) # 1
      BY <1>3, <1>4, LcdTerminalAssumption
    <3>4. Back(t) = Distance(top, cur) - 1
      BY <2>2, <3>1, <3>3 DEF Back
    <3>5. QED
      BY <3>1, <3>2, <3>4
  <2>3. QED
    BY <1>1, <2>1, <2>2
<1>6. D(Succ(top)) = D(top) + 1
  <2>1. o # Succ(top)
    <3>1. o = Succ(top) => D(top) = Lines - 1
      BY <1>1, <1>2, DistanceFacts
    <3>2. QED
      BY <1>3, <1>5, <3>1, LcdTerminalAssumption
  <2>2. QED
    BY <1>1, <1>2, <2>1, DistanceFacts
<1>7. Succ(top) = cur <=> D(top) + 1 = D(cur)
  <2>1. D(Succ(top)) = D(cur) => Succ(top) = cur
    BY <1>1, <1>2, DistanceFacts
  <2>2. QED
    BY <1>6, <2>1
<1>8. D(top) \in Nat /\ D(cur) \in Nat
  BY <1>3, LcdTerminalAssumption
<1>9. QED
  BY <1>2, <1>3, <1>4, <1>5, <1>6, <1>7, <1>8

(* The rows show the window of the scrollback that is Back lines up.       *)
LEMMA ShownWindow ==
  ASSUME NEW t, Sound(t), BlankAbove(t), t.scrollMode = 0 \/ Retained(t) >= 2
  PROVE  Shown(t) = Abstract!Window(History(t), Back(t))
<1> DEFINE h == History(t)
           o == t.oldestLine
           cur == t.currentLine
           top == Top(t)
<1>1. /\ t \in Terminal /\ o \in Slot /\ cur \in Slot
      /\ Succ(Pred(cur)) = cur
  BY SuccPred DEF Sound, Terminal
<1>2. t.lcd[0] = t.buffer[top] /\ t.lcd[1] = t.buffer[Succ(top)]
  <2>1. t.lcd = [r \in Row |-> t.buffer[IF r = 0 THEN top ELSE Succ(top)]]
    BY ShownRows
  <2>2. 0 \in Row /\ 1 \in Row /\ 1 # 0
    BY DEF Row
  <2> HIDE DEF top
  <2>3. QED
    BY <2>1, <2>2
<1>3. Len(h) = Retained(t) /\ Retained(t) \in 1 .. Lines
  BY <1>1, HistoryFacts
<1>4. CASE Retained(t) = 1
  <2>1. top = Pred(cur) /\ Back(t) = 0
    BY <1>4 DEF Top, Back
  <2>2. t.lcd[0] = BlankLine
    BY <1>2, <1>4, <2>1 DEF BlankAbove
  <2>3. t.lcd[1] = h[1]
    <3>1. Distance(o, cur) + 1 = 1 /\ Distance(o, cur) \in 0 .. Lines - 1
      BY <1>1, <1>4, DistanceFacts DEF Retained
    <3>2. Distance(o, cur) <= Distance(o, cur)
      BY <3>1, LcdTerminalAssumption
    <3>3. h[Distance(o, cur) + 1] = t.buffer[cur]
      BY <1>1, <3>2, HistoryLine
    <3>4. QED
      BY <1>1, <1>2, <2>1, <3>1, <3>3
  <2>4. Len(h) = 1 /\ Len(h) - 0 = 1
    BY <1>3, <1>4
  <2> HIDE DEF h
  <2>5. Abstract!Window(h, 0) = <<BlankLine, h[1]>>
    BY <2>4, EmptyLineIsBlank DEF Abstract!Window
  <2>6. QED
    BY <2>1, <2>2, <2>3, <2>5 DEF Shown, h
<1>5. CASE Retained(t) # 1
  <2> DEFINE d == Distance(o, top)
             n == Distance(o, cur)
  <2>1. Retained(t) >= 2
    BY <1>3, <1>5, LcdTerminalAssumption
  <2>2. /\ top \in Slot /\ Succ(top) \in Slot /\ d \in Nat /\ n \in Nat /\ d < n
        /\ Distance(o, Succ(top)) = d + 1 /\ Back(t) = n - d - 1
        /\ Retained(t) = n + 1
    BY <2>1, ViewFacts
  <2>3. h[d + 1] = t.buffer[top] /\ h[d + 1 + 1] = t.buffer[Succ(top)]
    <3>1. d <= n /\ Distance(o, Succ(top)) <= n
      <4> HIDE DEF d, n
      <4>1. QED
        BY <2>2
    <3>2. QED
      BY <1>1, <2>2, <3>1, HistoryLine
  <2> HIDE DEF d, n, top, h
  <2>4. /\ Len(h) # 1 /\ Len(h) - 1 - Back(t) = d + 1 /\ Len(h) - Back(t) = d + 1 + 1
    BY <1>3, <2>2
  <2>5. Abstract!Window(h, Back(t)) = <<h[d + 1], h[d + 1 + 1]>>
    BY <2>4 DEF Abstract!Window
  <2>6. QED
    BY <1>2, <2>3, <2>5 DEF Shown, h
<1>6. QED
  BY <1>4, <1>5

(* scroll_up on two lines or more moves the window up, to the oldest line  *)
(* at most.                                                                *)
LEMMA ScrollUpMoves ==
  ASSUME NEW t, Sound(t), BlankAbove(t), Retained(t) >= 2
  PROVE  LET u == ScrollUp(t)
             b == IF Back(t) + 2 < Len(History(t)) THEN Back(t) + 1 ELSE Back(t)
         IN Back(u) = b /\ Shown(u) = Abstract!Window(History(t), b)
<1> DEFINE u == ScrollUp(t)
           o == t.oldestLine
           d == Distance(o, Top(t))
           n == Distance(o, t.currentLine)
           e == Distance(o, Top(u))
<1>1. t \in Terminal
  BY DEF Sound
<1>2. /\ Sound(u) /\ u.scrollMode = 1 /\ SameText(u, t)
      /\ Top(u) = IF Top(t) = o THEN Top(t) ELSE Pred(Top(t))
  BY <1>1, ScrollUpSound, ScrollUpFields DEF Top
<1>3. /\ History(u) = History(t) /\ Retained(u) = Retained(t)
      /\ BlankAbove(u) /\ u.oldestLine = o /\ u.currentLine = t.currentLine
  BY <1>2, HistoryOfSameText, TextOfSameText DEF SameText
<1> HIDE DEF u
<1>4. /\ d \in Nat /\ n \in Nat /\ d < n /\ Back(t) = n - d - 1
      /\ Retained(t) = n + 1
      /\ Top(t) = o <=> d = 0
      /\ Top(t) # o => Distance(o, Pred(Top(t))) = d - 1
  BY ViewFacts
<1>5. Back(u) = n - e - 1
  <2>1. Retained(u) >= 2
    BY <1>3
  <2>2. QED
    BY <1>2, <1>3, <2>1, ViewFacts
<1>6. e = IF d = 0 THEN d ELSE d - 1
  BY <1>2, <1>4
<1>7. Len(History(t)) = n + 1
  BY <1>1, <1>4, HistoryFacts
<1>8. Shown(u) = Abstract!Window(History(t), Back(u))
  BY <1>2, <1>3, ShownWindow
<1> HIDE DEF d, n, e
<1>9. Back(u) = IF Back(t) + 2 < Len(History(t)) THEN Back(t) + 1 ELSE Back(t)
  BY <1>4, <1>5, <1>6, <1>7
<1>10. QED
  BY <1>8, <1>9 DEF u

(* scroll_down in scroll mode moves it down, to the bottom at most.        *)
LEMMA ScrollDownMoves ==
  ASSUME NEW t, Sound(t), BlankAbove(t), Retained(t) >= 2, t.scrollMode = 1
  PROVE  LET u == ScrollDown(t)
             b == IF Back(t) > 0 THEN Back(t) - 1 ELSE 0
         IN Back(u) = b /\ Shown(u) = Abstract!Window(History(t), b)
<1> DEFINE u == ScrollDown(t)
           o == t.oldestLine
           d == Distance(o, Top(t))
           n == Distance(o, t.currentLine)
           e == Distance(o, Top(u))
<1>1. t \in Terminal
  BY DEF Sound
<1>2. /\ Sound(u) /\ u.scrollMode = 1 /\ SameText(u, t)
      /\ Top(u) = IF Succ(Top(t)) = t.currentLine THEN Top(t) ELSE Succ(Top(t))
  BY <1>1, ScrollDownSound, ScrollDownFields DEF Top
<1>3. /\ History(u) = History(t) /\ Retained(u) = Retained(t)
      /\ BlankAbove(u) /\ u.oldestLine = o /\ u.currentLine = t.currentLine
  BY <1>2, HistoryOfSameText, TextOfSameText DEF SameText
<1> HIDE DEF u
<1>4. /\ d \in Nat /\ n \in Nat /\ d < n /\ Back(t) = n - d - 1
      /\ Succ(Top(t)) = t.currentLine <=> d + 1 = n
      /\ Distance(o, Succ(Top(t))) = d + 1
  BY ViewFacts
<1>5. Back(u) = n - e - 1
  <2>1. Retained(u) >= 2
    BY <1>3
  <2>2. QED
    BY <1>2, <1>3, <2>1, ViewFacts
<1>6. e = IF d + 1 = n THEN d ELSE d + 1
  BY <1>2, <1>4
<1>7. Shown(u) = Abstract!Window(History(t), Back(u))
  BY <1>2, <1>3, ShownWindow
<1> HIDE DEF d, n, e
<1>8. Back(u) = IF Back(t) > 0 THEN Back(t) - 1 ELSE 0
  BY <1>4, <1>5, <1>6
<1>9. QED
  BY <1>7, <1>8 DEF u

(* start_lcd starts the scrollback: one line, the prompt.                  *)
LEMMA StartsScrollback ==
  Init => Abstract!Init /\ BlankAbove(tty)
<1> DEFINE p == PoweredOn
           x == [history |-> <<BlankLine>>, column |-> 0]
           u == PrintChar(p, PromptSign)
<1>1. /\ Sound(p) /\ p \in Terminal /\ p.scrollMode = 0
      /\ p.buffer = [l \in Slot |-> BlankLine]
      /\ p.currentLine = 0 /\ p.oldestLine = 0 /\ p.currentCol = 0
  BY PoweredOnSound DEF Sound
<1>2. 0 \in Slot /\ Pred(0) \in Slot /\ Lines \in Nat /\ PromptSign \in Char /\ Blank \in Char
  BY SuccPred, LcdTerminalAssumption DEF Slot
<1> HIDE DEF p
<1>3. BlankAbove(p)
  <2>1. p.buffer[Pred(p.currentLine)] = BlankLine
    BY <1>1, <1>2
  <2>2. QED
    BY <2>1 DEF BlankAbove
<1>4. Retained(p) = 1 /\ SlotOf(0, 1) = 0
  <2>1. Distance(0, 0) = 0 /\ SlotOf(0, 1) = 0
    BY LcdTerminalAssumption DEF Distance, SlotOf
  <2>2. QED
    BY <1>1, <2>1 DEF Retained
<1>5. Text(p) = x
  <2> DEFINE h == History(p)
             q == <<BlankLine>>
  <2>1. h \in Seq(Line) /\ Len(h) = 1 /\ \A i \in 1 .. 1 : h[i] = p.buffer[SlotOf(0, i)]
    BY <1>1, <1>4, HistoryFacts
  <2>2. BlankLine \in Line
    BY BlankLineType
  <2>3. q \in Seq(Line) /\ Len(q) = 1 /\ q[1] = BlankLine
    BY <2>2
  <2>4. h[1] = BlankLine
    BY <1>1, <1>2, <1>4, <2>1
  <2> HIDE DEF h, q
  <2>5. \A i \in 1 .. 1 : h[i] = q[i]
    BY <2>3, <2>4
  <2>6. h = q
    BY <2>1, <2>3, <2>5, SeqEqual
  <2>7. QED
    BY <1>1, <2>6 DEF Text, h, q
<1> HIDE DEF x
<1>6. /\ Sound(u) /\ u.scrollMode = 0
      /\ Text(u) = Abstract!Write(x, PromptSign) /\ BlankAbove(u)
  BY <1>1, <1>2, <1>3, <1>5, PrintCharSound, PrintCharWrites
<1> HIDE DEF u
<1> SUFFICES ASSUME Init PROVE Abstract!Init /\ BlankAbove(tty)
  OBVIOUS
<1>7. tty = PrintChar(u, Blank)
  BY DEF Init, PrintPrompt, u, p
<1>8. /\ Sound(tty) /\ tty.scrollMode = 0 /\ BlankAbove(tty)
      /\ Text(tty) = Abstract!Write(Abstract!Write(x, PromptSign), Blank)
  BY <1>2, <1>6, <1>7, PrintCharSound, PrintCharWrites
<1>9. Text(tty) = Abstract!Prompted(x)
  BY <1>8 DEF Abstract!Prompted
<1>10. Shown(tty) = Abstract!Window(History(tty), 0) /\ Back(tty) = 0
  <2>1. Back(tty) = 0
    BY <1>8 DEF Back
  <2>2. QED
    BY <1>8, <2>1, ShownWindow
<1>11. x = [history |-> <<Abstract!EmptyLine>>, column |-> 0]
  BY EmptyLineIsBlank DEF x
<1>12. Abstract!Init
  BY <1>9, <1>10, <1>11 DEF Abstract!Init, Text, Back, Shown
<1>13. QED
  BY <1>8, <1>12

(* The steps of the scrollback in the words of the lemmas: what changes    *)
(* the text or ends scrolling, what moves the window, and the scroll keys  *)
(* on a single line.                                                       *)
LEMMA ScrollbackSteps ==
  LET bottom == Back(tty') = 0 /\ Shown(tty') = Abstract!Window(History(tty'), 0)
      moved(b) == /\ Len(History(tty)) >= 2 /\ Text(tty') = Text(tty)
                  /\ Back(tty') = b /\ Shown(tty') = Abstract!Window(History(tty), b)
  IN
  /\ tty' = tty => UNCHANGED Abstract!vars
  /\ \A c \in Char : Text(tty') = Abstract!Write(Text(tty), c) /\ bottom => Abstract!Next
  /\ Text(tty') = Abstract!Erase(Text(tty)) /\ bottom => Abstract!Next
  /\ Text(tty') = Abstract!Prompted(Abstract!Feed(Text(tty))) /\ bottom => Abstract!Next
  /\ Text(tty') = Text(tty) /\ bottom => Abstract!Next
  /\ moved(IF Back(tty) + 2 < Len(History(tty)) THEN Back(tty) + 1 ELSE Back(tty))
       => Abstract!Next
  /\ moved(IF Back(tty) > 0 THEN Back(tty) - 1 ELSE 0) => Abstract!Next
  /\ Len(History(tty)) = 1 /\ Text(tty') = Text(tty) /\ Back(tty') = 0
       /\ Shown(tty') \in Seq(Line) => Abstract!Next
<1> USE DEF Text, Back, Shown, Abstract!Next
<1> DEFINE bottom == Back(tty') = 0 /\ Shown(tty') = Abstract!Window(History(tty'), 0)
           moved(b) == /\ Len(History(tty)) >= 2 /\ Text(tty') = Text(tty)
                       /\ Back(tty') = b /\ Shown(tty') = Abstract!Window(History(tty), b)
<1>1. tty' = tty => UNCHANGED Abstract!vars
  BY DEF Abstract!vars
<1>2. ASSUME NEW c \in Char, Text(tty') = Abstract!Write(Text(tty), c), bottom
      PROVE  Abstract!Next
  BY <1>2 DEF Abstract!Type, Abstract!AtBottom
<1>3. Text(tty') = Abstract!Erase(Text(tty)) /\ bottom => Abstract!Next
  BY DEF Abstract!Rubout, Abstract!AtBottom
<1>4. Text(tty') = Abstract!Prompted(Abstract!Feed(Text(tty))) /\ bottom => Abstract!Next
  BY DEF Abstract!NewPrompt, Abstract!AtBottom
<1>5. Text(tty') = Text(tty) /\ bottom => Abstract!Next
  BY DEF Abstract!Settle, Abstract!AtBottom
<1>6. moved(IF Back(tty) + 2 < Len(History(tty)) THEN Back(tty) + 1 ELSE Back(tty))
        => Abstract!Next
  BY DEF Abstract!Up, Abstract!Move
<1>7. moved(IF Back(tty) > 0 THEN Back(tty) - 1 ELSE 0) => Abstract!Next
  BY DEF Abstract!Down, Abstract!Move
<1>8. Len(History(tty)) = 1 /\ Text(tty') = Text(tty) /\ Back(tty') = 0
        /\ Shown(tty') \in Seq(Line) => Abstract!Next
  BY DEF Abstract!NothingToScroll, Line, Column
<1>9. QED
  BY <1>1, <1>2, <1>3, <1>4, <1>5, <1>6, <1>7, <1>8

(* Out of scroll mode the bottom of the history is shown.                  *)
LEMMA BottomShown ==
  ASSUME NEW t, Sound(t), BlankAbove(t), t.scrollMode = 0
  PROVE  Back(t) = 0 /\ Shown(t) = Abstract!Window(History(t), 0)
<1>1. Back(t) = 0
  BY DEF Back
<1>2. QED
  BY <1>1, ShownWindow

(* Every step of the key loop is one of the scrollback or none.            *)
LEMMA StepsOfScrollback ==
  IInv /\ BlankAbove(tty) /\ [Next]_vars => [Abstract!Next]_(Abstract!vars) /\ BlankAbove(tty')
<1> DEFINE Step == Abstract!Next \/ UNCHANGED Abstract!vars
<1> SUFFICES ASSUME IInv, BlankAbove(tty), [Next]_vars
             PROVE  Step /\ BlankAbove(tty')
  OBVIOUS
<1> DEFINE t == LeaveScrollMode(tty)
           bottom == Back(tty') = 0 /\ Shown(tty') = Abstract!Window(History(tty'), 0)
<1>1. Sound(tty) /\ tty \in Terminal /\ tty.scrollMode \in 0 .. 1
  BY DEF IInv, Sound, Terminal
<1>2. Sound(t) /\ t.scrollMode = 0 /\ SameText(t, tty)
  BY <1>1, LeaveScrollModeSound, ExitScrollModeSound DEF LeaveScrollMode, SameText
<1>3. Text(t) = Text(tty) /\ BlankAbove(t)
  BY <1>2, TextOfSameText
<1>4. Len(History(tty)) = Retained(tty) /\ Retained(tty) \in 1 .. Lines
  BY <1>1, HistoryFacts
<1>5. tty' = tty => Step /\ BlankAbove(tty')
  BY ScrollbackSteps
<1>6. ASSUME Sound(tty'), tty'.scrollMode = 0, BlankAbove(tty')
      PROVE  /\ bottom
             /\ \A c \in Char : Text(tty') = Abstract!Write(Text(tty), c) => Step
             /\ Text(tty') = Abstract!Erase(Text(tty)) => Step
             /\ Text(tty') = Abstract!Prompted(Abstract!Feed(Text(tty))) => Step
             /\ Text(tty') = Text(tty) => Step
  <2>1. bottom
    BY <1>6, BottomShown
  <2>2. QED
    BY <2>1, ScrollbackSteps
<1> HIDE DEF t, Step
(* A scroll key on the first line leaves the text, whatever it shows.      *)
<1>7. ASSUME tty' \in Terminal, SameText(tty', tty), Retained(tty) = 1
      PROVE  Step /\ BlankAbove(tty')
  <2>1. Text(tty') = Text(tty) /\ BlankAbove(tty') /\ Retained(tty') = 1
    BY <1>7, TextOfSameText, HistoryOfSameText
  <2>2. Back(tty') = 0
    BY <2>1 DEF Back
  <2>3. tty'.lcd[0] \in Line /\ tty'.lcd[1] \in Line
    BY <1>7 DEF Terminal, Row
  <2>4. Shown(tty') \in Seq(Line)
    BY <2>3 DEF Shown
  <2>5. QED
    BY <1>4, <1>7, <2>1, <2>2, <2>4, ScrollbackSteps DEF Step
<1>8. CASE KeyUp
  <2>1. tty' = ScrollUp(tty)
    BY <1>8 DEF KeyUp
  <2>2. tty' \in Terminal /\ SameText(tty', tty)
    BY <1>1, <2>1, ScrollUpSound, ScrollUpFields DEF Sound
  <2>3. CASE Retained(tty) = 1
    BY <1>7, <2>2, <2>3
  <2>4. CASE Retained(tty) # 1
    <3>1. Retained(tty) >= 2
      BY <1>4, <2>4, LcdTerminalAssumption
    <3>2. Text(tty') = Text(tty) /\ BlankAbove(tty')
      BY <2>2, TextOfSameText
    <3>3. LET b == IF Back(tty) + 2 < Len(History(tty)) THEN Back(tty) + 1 ELSE Back(tty)
          IN Back(tty') = b /\ Shown(tty') = Abstract!Window(History(tty), b)
      BY <1>1, <2>1, <3>1, ScrollUpMoves
    <3>4. QED
      BY <1>4, <3>1, <3>2, <3>3, ScrollbackSteps DEF Step
  <2>5. QED
    BY <2>3, <2>4
<1>9. CASE KeyDown
  <2>1. tty' = ScrollDown(tty)
    BY <1>9 DEF KeyDown
  <2>2. tty' \in Terminal /\ SameText(tty', tty)
    BY <1>1, <2>1, ScrollDownSound, ScrollDownFields DEF Sound
  <2>3. CASE Retained(tty) = 1
    BY <1>7, <2>2, <2>3
  <2>4. CASE tty.scrollMode = 0
    <3>1. tty' = tty
      BY <2>1, <2>4 DEF ScrollDown
    <3>2. QED
      BY <1>5, <3>1
  <2>5. CASE Retained(tty) # 1 /\ tty.scrollMode = 1
    <3>1. Retained(tty) >= 2
      BY <1>4, <2>5, LcdTerminalAssumption
    <3>2. Text(tty') = Text(tty) /\ BlankAbove(tty')
      BY <2>2, TextOfSameText
    <3>3. LET b == IF Back(tty) > 0 THEN Back(tty) - 1 ELSE 0
          IN Back(tty') = b /\ Shown(tty') = Abstract!Window(History(tty), b)
      BY <1>1, <2>1, <2>5, <3>1, ScrollDownMoves
    <3>4. QED
      BY <1>4, <3>1, <3>2, <3>3, ScrollbackSteps DEF Step
  <2>6. QED
    BY <1>1, <2>3, <2>4, <2>5
<1>10. ASSUME NEW c \in Char, KeyChar(c) PROVE Step /\ BlankAbove(tty')
  <2>1. tty' = PrintChar(t, c)
    BY <1>10 DEF KeyChar, t
  <2>2. QED
    BY <1>2, <1>3, <1>6, <2>1, PrintCharSound, PrintCharWrites
<1>11. ASSUME tty' = t PROVE Step /\ BlankAbove(tty')
  BY <1>2, <1>3, <1>6, <1>11
<1>12. CASE KeyBackspace
  <2>1. tty' = LcdBackspace(t)
    BY <1>12 DEF KeyBackspace, t
  <2>2. QED
    BY <1>2, <1>3, <1>6, <2>1, LcdBackspaceSound, BackspaceErases
<1>13. CASE KeyEnterEmpty
  <2>1. tty' = ResetShell(t)
    BY <1>13 DEF KeyEnterEmpty, t
  <2>2. QED
    BY <1>2, <1>3, <1>6, <2>1, ResetShellSound, ResetShellPrompts
<1>14. ASSUME NEW c \in Char, CommandPrints(c) PROVE Step /\ BlankAbove(tty')
  <2>1. tty' = PrintChar(tty, c) /\ tty.scrollMode = 0
    BY <1>14 DEF CommandPrints, IInv
  <2>2. QED
    BY <1>1, <1>6, <2>1, PrintCharSound, PrintCharWrites
<1>15. CASE CommandReturns
  <2>1. tty' = ResetShell(tty) /\ tty.scrollMode = 0
    BY <1>15 DEF CommandReturns, IInv
  <2>2. QED
    BY <1>1, <1>6, <2>1, ResetShellSound, ResetShellPrompts
<1>16. KeyCharRefused \/ KeyBackspaceRefused \/ KeyEnterCommand => tty' = t
  BY DEF KeyCharRefused, KeyBackspaceRefused, KeyEnterCommand, t
<1>17. UNCHANGED vars => tty' = tty
  BY DEF vars
<1>18. QED
  BY <1>5, <1>8, <1>9, <1>10, <1>11, <1>12, <1>13, <1>14, <1>15, <1>16, <1>17
     DEF Next, Step

(* What the user sees is a scrollback terminal: two rows over the last     *)
(* Lines lines printed, whose window the scroll keys move and any other    *)
(* key brings back to the bottom.                                          *)
THEOREM TerminalIsScrollback == Spec => ScrollbackSpec
<1> DEFINE Above == BlankAbove(tty)
<1>1. Init => Abstract!Init /\ Above
  BY StartsScrollback
<1>2. IInv /\ Above /\ [Next]_vars => [Abstract!Next]_(Abstract!vars) /\ Above'
  <2>1. BlankAbove(tty') => Above'
    BY DEF BlankAbove, Retained
  <2>2. QED
    BY <2>1, StepsOfScrollback
<1> HIDE DEF Above
<1>3. QED
  BY <1>1, <1>2, Invariance, PTL DEF Spec, ScrollbackSpec, Abstract!Spec
=============================================================================
