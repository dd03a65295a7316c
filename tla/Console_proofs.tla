---------------------------- MODULE Console_proofs ----------------------------
(***************************************************************************)
(* The key loop and its one key mailbox, for every number of presses:      *)
(* what the loop does to the terminal is what ShellTerminal says, and no   *)
(* press is acted on twice.                                                *)
(***************************************************************************)
EXTENDS Console, LcdTerminal_proofs, SequenceTheorems

(* The inductive invariant, in three parts.  The terminal and the command  *)
(* line are sound, as in ShellTerminal_proofs.                             *)
TerminalOK ==
  /\ Sound(tty)
  /\ cmd \in Seq(Char) /\ Len(cmd) <= CmdMax
  /\ running \in BOOLEAN
  /\ left \in Seq(Char)

(* Where the loop is tells whether a command runs, and from Enter to the   *)
(* new prompt the terminal is out of scroll mode and the command line is   *)
(* empty, although several steps of the loop rely on it.                   *)
HandlerOK ==
  /\ pc \in {"poll", "act", "clear", "print", "spin", "reset", "prompt"}
  /\ pc \in {"poll", "act", "clear"} => ~running
  /\ pc \in {"print", "spin"} => running
  /\ pc \in {"print", "spin", "reset", "prompt"} => cmd = << >> /\ tty.scrollMode = 0

(* A key the loop may still find or hold is later than the last one it     *)
(* acted on: a handler erases KEY_INPUT before the next poll, and a key    *)
(* that a refusal leaves there is not older than the one refused.          *)
KeysOK ==
  /\ keyInput \in Press \cup {NoKey}
  /\ held \in Press \cup {NoKey}
  /\ pressed \in 0 .. MaxPresses /\ acted \in 0 .. pressed
  /\ keyInput # NoKey => keyInput.id <= pressed
  /\ pc \in {"poll", "prompt"} /\ keyInput # NoKey => acted < keyInput.id
  /\ pc = "act" => /\ held \in Press /\ keyInput \in Press
                   /\ acted < held.id /\ held.id <= pressed /\ held.id <= keyInput.id

IInv == TerminalOK /\ HandlerOK /\ KeysOK

-----------------------------------------------------------------------------
(* Shell holds a copy of LcdTerminal: its routines are those of            *)
(* LcdTerminal, operator by operator.                                      *)
LEMMA SameSets ==
  /\ Shell!Slot = Slot /\ Shell!Column = Column /\ Shell!Row = Row
  /\ Shell!BlankLine = BlankLine /\ Shell!Line = Line
  /\ Shell!Terminal = Terminal
  /\ \A l : Shell!Succ(l) = Succ(l) /\ Shell!Pred(l) = Pred(l)
BY DEF Shell!Slot, Shell!Column, Shell!Row, Shell!BlankLine, Shell!Line, Shell!Terminal,
       Shell!Succ, Shell!Pred,
       Slot, Column, Row, BlankLine, Line, Terminal, Succ, Pred

(* The routines that draw and move the cursor.                             *)
LEMMA SameDisplay ==
  ASSUME NEW t, NEW c
  PROVE  /\ Shell!LcdRedrawFromUnifiedBuffer(t) = LcdRedrawFromUnifiedBuffer(t)
         /\ Shell!ShowCurrentLine(t) = ShowCurrentLine(t)
         /\ Shell!LcdHomeCursor(t) = LcdHomeCursor(t)
         /\ Shell!LcdUpdateCursor(t) = LcdUpdateCursor(t)
         /\ Shell!LcdData(t, c) = LcdData(t, c)
<1>1. \A u : Shell!LcdRedrawFromUnifiedBuffer(u) = LcdRedrawFromUnifiedBuffer(u)
  BY SameSets DEF Shell!LcdRedrawFromUnifiedBuffer, LcdRedrawFromUnifiedBuffer
<1>2. Shell!ShowCurrentLine(t) = ShowCurrentLine(t)
  BY <1>1, SameSets DEF Shell!ShowCurrentLine, ShowCurrentLine
<1>3. Shell!LcdHomeCursor(t) = LcdHomeCursor(t) /\ Shell!LcdUpdateCursor(t) = LcdUpdateCursor(t)
  BY DEF Shell!LcdHomeCursor, Shell!LcdUpdateCursor, LcdHomeCursor, LcdUpdateCursor
<1>4. Shell!LcdData(t, c) = LcdData(t, c)
  BY DEF Shell!LcdData, LcdData
<1>5. QED
  BY <1>1, <1>2, <1>3, <1>4

(* The routines the key loop calls.                                        *)
LEMMA SameRoutines ==
  ASSUME NEW t, NEW c
  PROVE  /\ Shell!PrintChar(t, c) = PrintChar(t, c)
         /\ Shell!PrintPrompt(t) = PrintPrompt(t)
         /\ Shell!ResetShell(t) = PrintPrompt(LcdNewLine(t))
         /\ Shell!LcdBackspace(t) = LcdBackspace(t)
         /\ Shell!ScrollUp(t) = ScrollUp(t)
         /\ Shell!ScrollDown(t) = ScrollDown(t)
         /\ Shell!LeaveScrollMode(t) = IF t.scrollMode = 0 THEN t ELSE ExitScrollMode(t)
         /\ Shell!PoweredOn = PoweredOn
<1>1. \A u : Shell!AdvanceLine(u) = AdvanceLine(u)
  BY SameSets DEF Shell!AdvanceLine, AdvanceLine
<1>2. \A u : Shell!LcdNewLine(u) = LcdNewLine(u)
  BY <1>1, SameDisplay DEF Shell!LcdNewLine, LcdNewLine
<1>3. \A u, d : Shell!StoreCharInUnifiedBuffer(u, d) = StoreCharInUnifiedBuffer(u, d)
  BY DEF Shell!StoreCharInUnifiedBuffer, StoreCharInUnifiedBuffer
<1>4. \A u, d : Shell!PrintChar(u, d) = PrintChar(u, d)
  BY <1>2, <1>3, SameDisplay DEF Shell!PrintChar, PrintChar
<1>5. \A u : Shell!PrintPrompt(u) = PrintPrompt(u)
  BY <1>4 DEF Shell!PrintPrompt, PrintPrompt
<1>6. Shell!ResetShell(t) = PrintPrompt(LcdNewLine(t))
  BY <1>2, <1>5 DEF Shell!ResetShell
<1>7. Shell!LcdBackspace(t) = LcdBackspace(t)
  BY <1>3, SameDisplay DEF Shell!LcdBackspace, LcdBackspace
<1>8. Shell!ScrollUp(t) = ScrollUp(t) /\ Shell!ScrollDown(t) = ScrollDown(t)
  <2>1. /\ \A u : Shell!LcdRedrawFromUnifiedBuffer(u) = LcdRedrawFromUnifiedBuffer(u)
        /\ \A l : Shell!Succ(l) = Succ(l) /\ Shell!Pred(l) = Pred(l)
    BY SameSets, SameDisplay
  <2>2. Shell!ScrollDown(t) = ScrollDown(t)
    BY <2>1 DEF Shell!ScrollDown, ScrollDown
  <2>3. Shell!ScrollUp(t) = ScrollUp(t)
    <3> DEFINE Entered(top) ==
                 IF t.scrollMode = 0
                   THEN [t EXCEPT !.scrollMode = 1, !.viewTop = top] ELSE t
               entered == Entered(Pred(t.currentLine))
               copy    == Entered(Shell!Pred(t.currentLine))
    <3>1. ScrollUp(t) = IF entered.viewTop = entered.oldestLine THEN entered
                        ELSE LcdRedrawFromUnifiedBuffer([entered EXCEPT !.viewTop = Pred(@)])
      BY Zenon DEF ScrollUp
    <3>2. Shell!ScrollUp(t) =
            IF copy.viewTop = copy.oldestLine THEN copy
            ELSE Shell!LcdRedrawFromUnifiedBuffer([copy EXCEPT !.viewTop = Shell!Pred(@)])
      BY Zenon DEF Shell!ScrollUp
    <3> HIDE DEF Entered
    <3>3. copy = entered
      BY <2>1
    <3> HIDE DEF entered, copy
    <3>4. QED
      BY <2>1, <3>1, <3>2, <3>3
  <2>4. QED
    BY <2>2, <2>3
<1>9. Shell!LeaveScrollMode(t) = IF t.scrollMode = 0 THEN t ELSE ExitScrollMode(t)
  BY SameDisplay DEF Shell!LeaveScrollMode, Shell!ExitScrollMode, ExitScrollMode
<1>10. Shell!PoweredOn = PoweredOn
  BY SameSets, SameDisplay DEF Shell!PoweredOn, PoweredOn
<1>11. QED
  BY <1>4, <1>5, <1>6, <1>7, <1>8, <1>9, <1>10

(* What the loop does before most keys, and at the end of a command.       *)
LEMMA LeaveScrollModeOK ==
  ASSUME NEW t, Sound(t)
  PROVE  Sound(Shell!LeaveScrollMode(t)) /\ Shell!LeaveScrollMode(t).scrollMode = 0
<1>1. t \in Terminal
  BY DEF Sound
<1>2. QED
  BY <1>1, SameRoutines, ExitScrollModeSound

(* The new line and the prompt of reset_shell.                             *)
LEMMA ResetShellOK ==
  ASSUME NEW t, Sound(t), t.scrollMode = 0
  PROVE  Sound(Shell!ResetShell(t)) /\ Shell!ResetShell(t).scrollMode = 0
<1>1. Sound(LcdNewLine(t)) /\ LcdNewLine(t).scrollMode = 0
  BY LcdNewLineSound DEF Sound
<1>2. QED
  BY <1>1, SameRoutines, PrintPromptSound

(* Where the handlers that Act begins go on.                               *)
LEMMA HandlerActions ==
  ASSUME NEW keys, NEW next, Act(keys, next)
  PROVE  /\ pc = "act" /\ pc' = next /\ acted' = held.id /\ held' = NoKey
         /\ keyInput' = keyInput /\ pressed' = pressed
BY DEF Act

-----------------------------------------------------------------------------
(* start_lcd establishes the invariant.                                    *)
LEMMA InitIInv == Init => IInv
<1> SUFFICES ASSUME Init PROVE IInv
  OBVIOUS
<1>1. tty = PrintPrompt(PoweredOn) /\ cmd = << >> /\ running = FALSE
  BY SameRoutines DEF Init, Shell!Init
<1>2. Sound(tty)
  BY <1>1, PoweredOnSound, PrintPromptSound
<1>3. << >> \in Seq(Char) /\ Len(<< >>) <= CmdMax
  BY ConsoleAssumption
<1>4. TerminalOK /\ HandlerOK
  BY <1>1, <1>2, <1>3 DEF Init, TerminalOK, HandlerOK
<1>5. KeysOK
  BY ConsoleAssumption DEF Init, KeysOK, NoKey
<1>6. QED
  BY <1>4, <1>5 DEF IInv

(* The terminal and the command line stay sound.                           *)
LEMMA NextTerminalOK == TerminalOK /\ HandlerOK /\ [Next]_vars => TerminalOK'
<1> SUFFICES ASSUME TerminalOK, HandlerOK, [Next]_vars PROVE TerminalOK'
  OBVIOUS
<1> DEFINE t == Shell!LeaveScrollMode(tty)
<1>1. /\ Sound(tty) /\ cmd \in Seq(Char) /\ Len(cmd) <= CmdMax /\ Len(cmd) \in Nat
      /\ CmdMax \in Nat /\ running \in BOOLEAN /\ left \in Seq(Char)
  BY ConsoleAssumption, LenProperties DEF TerminalOK
<1>2. Sound(t) /\ t.scrollMode = 0
  BY <1>1, LeaveScrollModeOK
<1>3. ASSUME Sound(tty'), cmd' \in Seq(Char), Len(cmd') <= CmdMax,
             running' \in BOOLEAN, left' \in Seq(Char)
      PROVE  TerminalOK'
  BY <1>3 DEF TerminalOK, Sound, ShowsBuffer, CursorInPlace, ViewInHistory
<1>4. << >> \in Seq(Char) /\ Len(<< >>) <= CmdMax
  BY <1>1
<1> HIDE DEF t
<1>5. CASE ActUp
  BY <1>1, <1>3, <1>5, ScrollUpSound DEF ActUp
<1>6. CASE ActDown
  BY <1>1, <1>3, <1>6, ScrollDownSound DEF ActDown
<1>7. CASE ActChar
  <2>1. held.key \in Char /\ tty' = PrintChar(t, held.key) /\ cmd' = Append(cmd, held.key)
    BY <1>7 DEF ActChar, Act, t
  <2>2. Sound(tty')
    BY <1>2, <2>1, PrintCharSound
  <2>3. cmd' \in Seq(Char) /\ Len(cmd') = Len(cmd) + 1
    BY <1>1, <2>1, AppendProperties
  <2>4. QED
    BY <1>1, <1>3, <1>7, <2>2, <2>3 DEF ActChar
<1>8. CASE ActBackspace
  <2>1. Sound(tty')
    BY <1>2, <1>8, LcdBackspaceSound DEF ActBackspace, t
  <2>2. cmd' \in Seq(Char) /\ Len(cmd') <= CmdMax
    <3> DEFINE n == Len(cmd) - 1
    <3>1. n \in Nat /\ n <= CmdMax /\ \A i \in 1 .. n : cmd[i] \in Char
      BY <1>1, <1>8, EmptySeq DEF ActBackspace
    <3>2. cmd' = SubSeq(cmd, 1, n)
      BY <1>8 DEF ActBackspace
    <3> HIDE DEF n
    <3>3. cmd' \in Seq(Char) /\ Len(cmd') = IF 1 <= n THEN n - 1 + 1 ELSE 0
      BY <3>1, <3>2, SubSeqProperties
    <3>4. QED
      BY <1>1, <3>1, <3>3
  <2>3. QED
    BY <1>1, <1>3, <1>8, <2>1, <2>2 DEF ActBackspace
<1>9. CASE ActRefused
  BY <1>1, <1>2, <1>3, <1>9 DEF ActRefused, t
<1>10. CASE ActEnterEmpty
  BY <1>1, <1>2, <1>3, <1>10 DEF ActEnterEmpty, t
<1>11. CASE ActEnterCommand
  <2>1. left' \in Seq(Char)
    BY <1>4, <1>11, ConsoleAssumption DEF ActEnterCommand
  <2>2. QED
    BY <1>2, <1>3, <1>4, <1>11, <2>1 DEF ActEnterCommand, t
<1>12. CASE PrintUnknown
  <2>1. CASE left = << >>
    BY <1>1, <1>3, <1>12, <2>1 DEF PrintUnknown
  <2>2. CASE left # << >>
    <3>1. Head(left) \in Char /\ Tail(left) \in Seq(Char)
      BY <1>1, <2>2, HeadTailProperties
    <3>2. tty.scrollMode = 0
      BY <1>12 DEF PrintUnknown, HandlerOK
    <3>3. Sound(PrintChar(tty, Head(left)))
      BY <1>1, <3>1, <3>2, PrintCharSound
    <3>4. QED
      BY <1>1, <1>3, <1>12, <2>2, <3>1, <3>3 DEF PrintUnknown
  <2>3. QED
    BY <2>1, <2>2
<1>13. CASE Reset
  BY <1>1, <1>3, <1>4, <1>13 DEF Reset
<1>14. CASE Prompt
  <2>1. tty.scrollMode = 0
    BY <1>14 DEF Prompt, HandlerOK
  <2>2. QED
    BY <1>1, <1>3, <1>14, <2>1, ResetShellOK DEF Prompt
<1>15. CASE UNCHANGED <<shellVars, left>>
  BY <1>1, <1>3, <1>15 DEF shellVars
<1>16. CASE Poll \/ Clear \/ (\E k \in Keys : HostPresses(k)) \/ UNCHANGED vars
  BY <1>15, <1>16 DEF Poll, Clear, HostPresses, vars, shellVars
<1>17. QED
  BY <1>5, <1>6, <1>7, <1>8, <1>9, <1>10, <1>11, <1>12, <1>13, <1>14, <1>16 DEF Next, CPU

(* Where the loop is keeps telling whether a command runs.                 *)
LEMMA NextHandlerOK == TerminalOK /\ HandlerOK /\ [Next]_vars => HandlerOK'
<1> SUFFICES ASSUME TerminalOK, HandlerOK, [Next]_vars PROVE HandlerOK'
  OBVIOUS
<1> DEFINE t == Shell!LeaveScrollMode(tty)
<1>1. Sound(tty) /\ t.scrollMode = 0
  BY LeaveScrollModeOK DEF TerminalOK
<1> HIDE DEF t
<1>2. CASE ActUp \/ ActDown \/ ActChar \/ ActBackspace \/ ActRefused \/ Poll \/ Clear
  BY <1>2 DEF ActUp, ActDown, ActChar, ActBackspace, ActRefused, Poll, Clear, Act, HandlerOK,
              shellVars
<1>3. CASE ActEnterEmpty
  BY <1>1, <1>3 DEF ActEnterEmpty, Act, HandlerOK, t
<1>4. CASE ActEnterCommand
  <2>1. /\ cmd' = << >> /\ running' = TRUE /\ tty'.scrollMode = 0
        /\ pc' \in {"spin", "print"}
    BY <1>1, <1>4 DEF ActEnterCommand, Act, t
  <2>2. QED
    BY <2>1 DEF HandlerOK
<1>5. CASE PrintUnknown
  <2>1. CASE left = << >>
    BY <1>5, <2>1 DEF PrintUnknown, HandlerOK
  <2>2. CASE left # << >>
    <3>1. Head(left) \in Char
      BY <2>2, HeadTailProperties DEF TerminalOK
    <3>2. tty.scrollMode = 0
      BY <1>5 DEF PrintUnknown, HandlerOK
    <3>3. PrintChar(tty, Head(left)).scrollMode = 0
      BY <1>1, <3>1, <3>2, PrintCharSound
    <3>4. QED
      BY <1>5, <2>2, <3>3 DEF PrintUnknown, HandlerOK
  <2>3. QED
    BY <2>1, <2>2
<1>6. CASE Reset
  BY <1>6 DEF Reset, HandlerOK
<1>7. CASE Prompt
  BY <1>7 DEF Prompt, HandlerOK
<1>8. CASE (\E k \in Keys : HostPresses(k)) \/ UNCHANGED vars
  BY <1>8 DEF HostPresses, vars, shellVars, HandlerOK
<1>9. QED
  BY <1>2, <1>3, <1>4, <1>5, <1>6, <1>7, <1>8 DEF Next, CPU

(* Neither side of the mailbox brings an old key back.                     *)
LEMMA NextKeysOK == HandlerOK /\ KeysOK /\ [Next]_vars => KeysOK'
<1> SUFFICES ASSUME HandlerOK, KeysOK, [Next]_vars PROVE KeysOK'
  OBVIOUS
<1>1. MaxPresses \in Nat /\ NoKey.id = 0
  BY ConsoleAssumption DEF NoKey
<1>2. NoKey \notin Press /\ \A p \in Press : p.id \in 1 .. MaxPresses
  BY <1>1 DEF Press
<1>3. ASSUME NEW k \in Keys, HostPresses(k) PROVE KeysOK'
  <2> DEFINE p == [id |-> pressed', key |-> k]
  <2>1. /\ pressed \in Nat /\ pressed' = pressed + 1 /\ pressed' \in 1 .. MaxPresses
        /\ keyInput' = p /\ pc' = pc /\ held' = held /\ acted' = acted
    BY <1>1, <1>3 DEF HostPresses, KeysOK
  <2>2. p \in Press /\ p.id = pressed'
    BY <2>1 DEF Press
  <2> HIDE DEF p
  <2>3. QED
    BY <1>1, <1>2, <2>1, <2>2 DEF KeysOK
<1>4. CASE Poll
  <2>1. /\ keyInput \in Press /\ held' = keyInput /\ pc' = "act"
        /\ keyInput' = keyInput /\ pressed' = pressed /\ acted' = acted
    BY <1>4 DEF Poll, KeysOK
  <2>2. acted < keyInput.id /\ keyInput.id <= pressed
    BY <1>4 DEF Poll, KeysOK
  <2>3. QED
    BY <1>1, <1>2, <2>1, <2>2 DEF KeysOK
<1>5. ASSUME NEW keys, NEW next \in {"clear", "reset", "spin", "print"}, Act(keys, next)
      PROVE  KeysOK'
  <2>1. /\ pc' = next /\ acted' = held.id /\ held' = NoKey /\ held.id \in 0 .. pressed
        /\ keyInput' = keyInput /\ pressed' = pressed
    BY <1>1, <1>2, <1>5, HandlerActions DEF KeysOK
  <2>2. QED
    BY <2>1 DEF KeysOK
<1>6. CASE ActUp \/ ActDown \/ ActChar \/ ActBackspace \/ ActEnterEmpty \/ ActEnterCommand
  BY <1>5, <1>6 DEF ActUp, ActDown, ActChar, ActBackspace, ActEnterEmpty, ActEnterCommand
<1>7. CASE ActRefused
  <2>1. /\ pc = "act" /\ pc' = "poll" /\ held' = NoKey
        /\ keyInput' = keyInput /\ pressed' = pressed /\ acted' = acted
    BY <1>7 DEF ActRefused
  <2>2. QED
    BY <1>1, <1>2, <2>1 DEF KeysOK
<1>8. CASE Clear \/ Reset
  <2>1. /\ keyInput' = NoKey /\ pc' \in {"poll", "prompt"}
        /\ held' = held /\ pressed' = pressed /\ acted' = acted
    BY <1>8 DEF Clear, Reset
  <2>2. QED
    BY <2>1 DEF KeysOK
<1>9. CASE PrintUnknown
  <2>1. /\ pc' \in {"print", "reset"}
        /\ UNCHANGED <<keyInput, held, pressed, acted>>
    BY <1>9 DEF PrintUnknown
  <2>2. QED
    BY <2>1 DEF KeysOK
<1>10. CASE Prompt
  BY <1>10 DEF Prompt, KeysOK
<1>11. CASE UNCHANGED vars
  BY <1>11 DEF vars, KeysOK
<1>12. QED
  BY <1>3, <1>4, <1>6, <1>7, <1>8, <1>9, <1>10, <1>11 DEF Next, CPU

(* The inductive invariant holds in every reachable state.                 *)
THEOREM Invariance == Spec => []IInv
<1>1. IInv /\ [Next]_vars => IInv'
  BY NextTerminalOK, NextHandlerOK, NextKeysOK DEF IInv
<1>2. QED
  BY <1>1, InitIInv, PTL DEF Spec

-----------------------------------------------------------------------------
(* Whatever the host does to KEY_INPUT and whenever, the terminal, the     *)
(* command line, the mailbox and the key in hand stay what they should be. *)
THEOREM TypeCorrect == Spec => []TypeOK
<1>1. IInv => TypeOK
  BY SameSets DEF IInv, TerminalOK, HandlerOK, KeysOK, TypeOK, Shell!TypeOK, Sound
<1>2. QED
  BY <1>1, Invariance, PTL

(* No press is acted on twice and none after a later one, although the     *)
(* loop reads KEY_INPUT and erases it in different steps and the host      *)
(* stores to it in between.                                                *)
THEOREM PressesActedOnOnce == Spec => EachPressOnce
<1>1. IInv /\ [Next]_vars => (pc = "act" /\ pc' \notin {"act", "poll"} => acted < held.id)
  BY DEF IInv, KeysOK
<1>2. QED
  BY <1>1, Invariance, PTL DEF Spec, EachPressOnce

(* The display, the cursor and the view stay in agreement with the buffer  *)
(* while keys arrive at any moment, commands print and prompts return.     *)
THEOREM TerminalCorrect ==
  Spec => [](ShowsBuffer(tty) /\ CursorInPlace(tty) /\ ViewInHistory(tty))
<1>1. IInv => ShowsBuffer(tty) /\ CursorInPlace(tty) /\ ViewInHistory(tty)
  BY DEF IInv, TerminalOK, Sound
<1>2. QED
  BY <1>1, Invariance, PTL

(* How many steps of the loop are left before it polls again, or spins.    *)
StepsToPoll ==
  CASE pc = "act" -> Len(UnknownMessage) + 4
    [] pc = "print" -> Len(left) + 3
    [] pc = "reset" -> 2
    [] pc \in {"clear", "prompt"} -> 1
    [] OTHER -> 0

(* The handlers: each step of the loop between two polls brings the next   *)
(* one nearer, the printing of a message included, and the host, however   *)
(* many keys it stores, does not put it off.  With this PromptComesBack    *)
(* asks no more of the processor than that it goes on.                     *)
THEOREM PollComesNearer ==
  Spec =>
    [][pc # "poll" =>
         /\ StepsToPoll \in Nat /\ StepsToPoll' \in Nat
         /\ IF pressed' = pressed THEN StepsToPoll' < StepsToPoll
                                  ELSE StepsToPoll' = StepsToPoll]_vars
<1> DEFINE n == Len(UnknownMessage)
           m == Len(left)
           Nearer == /\ StepsToPoll \in Nat /\ StepsToPoll' \in Nat
                     /\ IF pressed' = pressed THEN StepsToPoll' < StepsToPoll
                                              ELSE StepsToPoll' = StepsToPoll
<1>1. IInv /\ [Next]_vars => [pc # "poll" => Nearer]_vars
  <2> SUFFICES ASSUME IInv, Next, pc # "poll" PROVE Nearer
    OBVIOUS
  <2>1. n \in Nat /\ m \in Nat /\ left \in Seq(Char)
    BY ConsoleAssumption, LenProperties DEF IInv, TerminalOK
  <2> HIDE DEF n, m
  <2>2. StepsToPoll \in Nat
    BY <2>1 DEF StepsToPoll, n, m
  <2>3. ASSUME NEW k \in Keys, HostPresses(k) PROVE Nearer
    <3>1. pressed \in Nat /\ pressed' = pressed + 1 /\ pc' = pc /\ left' = left
      BY <2>3, ConsoleAssumption DEF HostPresses, IInv, KeysOK
    <3>2. StepsToPoll' = StepsToPoll /\ pressed' # pressed
      BY <3>1 DEF StepsToPoll
    <3>3. QED
      BY <2>2, <3>2
  <2>4. CASE pc = "act"
    <3>1. StepsToPoll = n + 4
      BY <2>4 DEF StepsToPoll, n
    <3>2. CASE ActUp \/ ActDown \/ ActChar \/ ActBackspace \/ ActEnterEmpty \/ ActRefused
      <4>1. pc' \in {"clear", "reset", "poll"} /\ pressed' = pressed
        BY <3>2 DEF ActUp, ActDown, ActChar, ActBackspace, ActEnterEmpty, ActRefused, Act
      <4>2. StepsToPoll' \in {0, 1, 2}
        BY <4>1 DEF StepsToPoll
      <4>3. QED
        BY <2>1, <2>2, <3>1, <4>1, <4>2
    <3>3. CASE ActEnterCommand
      <4>1. /\ pc' = IF Spins(cmd) THEN "spin" ELSE "print"
            /\ left' = IF Spins(cmd) THEN << >> ELSE UnknownMessage
            /\ pressed' = pressed
        BY <3>3, HandlerActions DEF ActEnterCommand
      <4>2. StepsToPoll' = IF Spins(cmd) THEN 0 ELSE n + 3
        BY <4>1 DEF StepsToPoll, n
      <4>3. QED
        BY <2>1, <2>2, <3>1, <4>1, <4>2
    <3>4. QED
      BY <2>3, <2>4, <3>2, <3>3 DEF Next, CPU, Poll, PrintUnknown, Clear, Reset, Prompt
  <2>5. CASE PrintUnknown
    <3>1. pc = "print" /\ pressed' = pressed
      BY <2>5 DEF PrintUnknown
    <3>2. StepsToPoll = m + 3
      BY <3>1 DEF StepsToPoll, m
    <3>3. CASE left = << >>
      <4>1. StepsToPoll' = 2
        BY <2>5, <3>3 DEF PrintUnknown, StepsToPoll
      <4>2. QED
        BY <2>1, <2>2, <3>1, <3>2, <4>1
    <3>4. CASE left # << >>
      <4>1. Len(left') = m - 1 /\ m # 0 /\ pc' = "print"
        BY <2>1, <2>5, <3>1, <3>4, HeadTailProperties, EmptySeq DEF PrintUnknown, m
      <4>2. StepsToPoll' = (m - 1) + 3
        BY <4>1 DEF StepsToPoll
      <4>3. QED
        BY <2>1, <2>2, <3>1, <3>2, <4>1, <4>2
    <3>5. QED
      BY <3>3, <3>4
  <2>6. CASE Clear \/ Reset \/ Prompt
    <3>1. /\ pressed' = pressed
          /\ \/ pc = "clear" /\ pc' = "poll"
             \/ pc = "reset" /\ pc' = "prompt"
             \/ pc = "prompt" /\ pc' = "poll"
      BY <2>6 DEF Clear, Reset, Prompt
    <3>2. QED
      BY <3>1 DEF StepsToPoll
  <2>7. QED
    BY <2>3, <2>4, <2>5, <2>6
       DEF Next, CPU, Poll, ActUp, ActDown, ActChar, ActBackspace, ActEnterEmpty,
           ActEnterCommand, ActRefused, Act
<1>2. QED
  BY <1>1, Invariance, PTL DEF Spec

-----------------------------------------------------------------------------
(* Every step of the loop and of the host is a step of the key loop of     *)
(* ShellTerminal, or changes nothing there.  Enter on an empty line takes  *)
(* two of its steps: leaving scroll mode, then the prompt.                 *)
LEMMA NextShell == IInv /\ [Next]_vars => [Shell!Next]_(Shell!vars)
<1> SUFFICES ASSUME IInv, [Next]_vars PROVE [Shell!Next]_(Shell!vars)
  OBVIOUS
<1> USE DEF IInv, HandlerOK
<1>1. tty' = tty /\ cmd' = cmd /\ running' = running => [Shell!Next]_(Shell!vars)
  BY DEF Shell!vars
<1>2. \A c : Shell!PrintChar(tty, c) = PrintChar(tty, c)
  BY SameRoutines
<1>3. CASE ActUp
  BY <1>3, SameRoutines DEF ActUp, Act, Shell!KeyUp, Shell!Next
<1>4. CASE ActDown
  BY <1>4, SameRoutines DEF ActDown, Act, Shell!KeyDown, Shell!Next
<1>5. CASE ActChar
  BY <1>5, SameRoutines DEF ActChar, Act, Shell!KeyChar, Shell!Next
<1>6. CASE ActBackspace
  BY <1>6, SameRoutines DEF ActBackspace, Act, Shell!KeyBackspace, Shell!Next
<1>7. CASE ActRefused
  BY <1>7 DEF ActRefused, Refused, Shell!KeyCharRefused, Shell!KeyBackspaceRefused, Shell!Next
<1>8. CASE ActEnterEmpty
  BY <1>8 DEF ActEnterEmpty, Act, Shell!KeyBackspaceRefused, Shell!Next
<1>9. CASE ActEnterCommand
  BY <1>9 DEF ActEnterCommand, Act, Shell!KeyEnterCommand, Shell!Next
<1>10. CASE PrintUnknown
  <2>1. CASE left = << >>
    BY <1>1, <1>10, <2>1 DEF PrintUnknown
  <2>2. CASE left # << >>
    <3>1. Head(left) \in Char
      BY <2>2, HeadTailProperties DEF TerminalOK
    <3>2. Shell!CommandPrints(Head(left))
      BY <1>2, <1>10, <2>2 DEF PrintUnknown, Shell!CommandPrints
    <3>3. QED
      BY <3>1, <3>2 DEF Shell!Next
  <2>3. QED
    BY <2>1, <2>2
<1>11. CASE Reset
  BY <1>1, <1>11 DEF Reset
<1>12. CASE Prompt
  <2>1. cmd = << >> /\ tty.scrollMode = 0 /\ running \in BOOLEAN
    BY <1>12 DEF Prompt, TerminalOK
  <2>2. tty' = Shell!ResetShell(tty) /\ cmd' = << >> /\ running' = FALSE
    BY <1>12, <2>1 DEF Prompt
  <2>3. CASE running
    BY <2>2, <2>3 DEF Shell!CommandReturns, Shell!Next
  <2>4. CASE ~running
    <3>1. Shell!LeaveScrollMode(tty) = tty
      BY <2>1, SameRoutines
    <3>2. Shell!KeyEnterEmpty
      BY <2>1, <2>2, <2>4, <3>1 DEF Shell!KeyEnterEmpty
    <3>3. QED
      BY <3>2 DEF Shell!Next
  <2>5. QED
    BY <2>3, <2>4
<1>13. CASE Poll \/ Clear \/ (\E k \in Keys : HostPresses(k)) \/ UNCHANGED vars
  BY <1>1, <1>13 DEF Poll, Clear, HostPresses, vars, shellVars
<1>14. QED
  BY <1>3, <1>4, <1>5, <1>6, <1>7, <1>8, <1>9, <1>10, <1>11, <1>12, <1>13 DEF Next, CPU

(* The terminal and the command line of the console change only as those   *)
(* of ShellTerminal may: what is proved of its key loop holds however      *)
(* presses and the loop interleave.                                        *)
THEOREM ConsoleImplementsShell == Spec => ShellSpec
<1>1. Init => Shell!Init
  BY DEF Init
<1>2. QED
  BY <1>1, NextShell, Invariance, PTL DEF Spec, ShellSpec, Shell!Spec
=============================================================================
