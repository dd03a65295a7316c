------------------------------- MODULE Console -------------------------------
(***************************************************************************)
(* The program as its user meets it: a host that stores a key in KEY_INPUT *)
(* whenever one is pressed (handle_keyboard_event of simulator.c, between  *)
(* any two instructions), and the key loop of lcd_driver/test.s that polls *)
(* KEY_INPUT, handles what it finds and only then stores 0 there.          *)
(*                                                                         *)
(* KEY_INPUT holds one key and neither side waits for the other, so the    *)
(* places where the loop reads and clears it are steps of their own.  What *)
(* a handler does between two of them is one step: it touches nothing the  *)
(* host does.  A key carries the number of its press, which the program    *)
(* does not see.                                                           *)
(***************************************************************************)
EXTENDS LcdTerminal, Sequences, ShellCommands

CONSTANTS
  CmdMax,          \* CMD_MAX
  UnknownMessage,  \* unk_msg, " UK_CMD"
  MaxPresses       \* bound on the number of keys pressed in a behaviour

ASSUME ConsoleAssumption ==
  /\ CmdMax \in Nat /\ MaxPresses \in Nat
  /\ UnknownMessage \in Seq(Char)
  /\ "w" \notin Char    \* no line starts the word game, which reads keys itself

NoKey == [id |-> 0, key |-> "NUL"]
Keys == Char \cup {"UP", "DOWN", "CR", "BS"}
Press == [id : 1 .. MaxPresses, key : Keys]

VARIABLES
  tty, cmd, running,   \* as in ShellTerminal
  keyInput,            \* KEY_INPUT
  pc,                  \* where the key loop is
  held,                \* the key in register A while it is handled
  left,                \* what print_unknown has still to print
  pressed,             \* the number of keys pressed
  acted                \* the number of the last key the loop acted on

shellVars == <<tty, cmd, running>>
vars == <<tty, cmd, running, keyInput, pc, held, left, pressed, acted>>

Shell == INSTANCE ShellTerminal

(* The terminal and the command line are those of ShellTerminal, and what  *)
(* the loop acts on is a press that happened.                              *)
TypeOK ==
  /\ Shell!TypeOK
  /\ keyInput \in Press \cup {NoKey}
  /\ pc \in {"poll", "act", "clear", "print", "spin", "reset", "prompt"}
  /\ held \in Press \cup {NoKey}
  /\ left \in Seq(Char)
  /\ pressed \in 0 .. MaxPresses
  /\ acted \in 0 .. pressed

Init ==
  /\ Shell!Init
  /\ keyInput = NoKey
  /\ pc = "poll"
  /\ held = NoKey
  /\ left = << >>
  /\ pressed = 0 /\ acted = 0

-----------------------------------------------------------------------------
(* The host: a key not yet read is overwritten.                            *)
HostPresses(k) ==
  /\ pressed < MaxPresses
  /\ pressed' = pressed + 1
  /\ keyInput' = [id |-> pressed', key |-> k]
  /\ UNCHANGED <<shellVars, pc, held, left, acted>>

-----------------------------------------------------------------------------
(* The key loop                                                            *)

Poll ==
  /\ pc = "poll"
  /\ keyInput # NoKey
  /\ held' = keyInput
  /\ pc' = "act"
  /\ UNCHANGED <<shellVars, keyInput, left, pressed, acted>>

(* The handler of the key in A begins, and goes on at next.                *)
Act(keys, next) ==
  /\ pc = "act"
  /\ held.key \in keys
  /\ acted' = held.id
  /\ held' = NoKey
  /\ pc' = next
  /\ UNCHANGED <<keyInput, pressed>>

ActUp ==
  /\ Act({"UP"}, "clear")
  /\ tty' = ScrollUp(tty)
  /\ UNCHANGED <<cmd, running, left>>

ActDown ==
  /\ Act({"DOWN"}, "clear")
  /\ tty' = ScrollDown(tty)
  /\ UNCHANGED <<cmd, running, left>>

(* Mutant: CMD_MAX is not checked.                                          *)
ActChar_NoLimit ==
  /\ Act(Char, "clear")
  /\ tty' = PrintChar(Shell!LeaveScrollMode(tty), held.key)
  /\ cmd' = Append(cmd, held.key)
  /\ UNCHANGED <<running, left>>

ActChar ==
  /\ Act(Char, "clear")
  /\ Len(cmd) < CmdMax
  /\ tty' = PrintChar(Shell!LeaveScrollMode(tty), held.key)
  /\ cmd' = Append(cmd, held.key)
  /\ UNCHANGED <<running, left>>

ActBackspace ==
  /\ Act({"BS"}, "clear")
  /\ cmd # << >>
  /\ tty' = LcdBackspace(Shell!LeaveScrollMode(tty))
  /\ cmd' = SubSeq(cmd, 1, Len(cmd) - 1)
  /\ UNCHANGED <<running, left>>

(* A character with the buffer full, a backspace with it empty: the loop   *)
(* goes back to polling and leaves the key in KEY_INPUT.                   *)
Refused(k) ==
  \/ k \in Char /\ Len(cmd) >= CmdMax
  \/ k = "BS" /\ cmd = << >>

ActRefused ==
  /\ pc = "act"
  /\ Refused(held.key)
  /\ tty' = Shell!LeaveScrollMode(tty)
  /\ held' = NoKey
  /\ pc' = "poll"
  /\ UNCHANGED <<cmd, running, keyInput, left, pressed, acted>>

ActEnterEmpty ==
  /\ Act({"CR"}, "reset")
  /\ cmd = << >>
  /\ tty' = Shell!LeaveScrollMode(tty)
  /\ UNCHANGED <<cmd, running, left>>

(* Mutant: CMD_MAX is checked before Enter is looked for.                   *)
ActEnterCommand_NeedsRoom ==
  /\ cmd # << >>
  /\ IF Len(cmd) >= CmdMax
       THEN /\ pc = "act" /\ held.key = "CR"
            /\ held' = NoKey
            /\ pc' = "poll"
            /\ UNCHANGED <<shellVars, keyInput, left, pressed, acted>>
       ELSE /\ Act({"CR"}, IF Spins(cmd) THEN "spin" ELSE "print")
            /\ tty' = Shell!LeaveScrollMode(tty)
            /\ cmd' = << >>
            /\ running' = TRUE
            /\ left' = IF Spins(cmd) THEN << >> ELSE UnknownMessage

ActEnterCommand ==
  /\ cmd # << >>
  /\ Act({"CR"}, IF Spins(cmd) THEN "spin" ELSE "print")
  /\ tty' = Shell!LeaveScrollMode(tty)
  /\ cmd' = << >>
  /\ running' = TRUE
  /\ left' = IF Spins(cmd) THEN << >> ELSE UnknownMessage

(* Mutant: the loop of print_unknown lacks its INY.                         *)
PrintUnknown_SameCharacter ==
  /\ pc = "print"
  /\ IF left = << >>
       THEN pc' = "reset" /\ UNCHANGED tty
       ELSE tty' = PrintChar(tty, Head(left)) /\ UNCHANGED pc
  /\ UNCHANGED <<cmd, running, keyInput, held, left, pressed, acted>>

PrintUnknown ==
  /\ pc = "print"
  /\ IF left = << >>
       THEN /\ pc' = "reset"
            /\ UNCHANGED <<tty, left>>
       ELSE /\ tty' = PrintChar(tty, Head(left))
            /\ left' = Tail(left)
            /\ UNCHANGED pc
  /\ UNCHANGED <<cmd, running, keyInput, held, pressed, acted>>

(* LDA #0, STA KEY_INPUT at the end of a handler.                          *)
Clear ==
  /\ pc = "clear"
  /\ keyInput' = NoKey
  /\ pc' = "poll"
  /\ UNCHANGED <<shellVars, held, left, pressed, acted>>

(* Mutant: reset_shell before commit 278353e.                              *)
Reset_KeepsKey ==
  /\ pc = "reset"
  /\ cmd' = << >>
  /\ pc' = "prompt"
  /\ UNCHANGED <<tty, running, keyInput, held, left, pressed, acted>>

Reset ==
  /\ pc = "reset"
  /\ cmd' = << >>
  /\ keyInput' = NoKey
  /\ pc' = "prompt"
  /\ UNCHANGED <<tty, running, held, left, pressed, acted>>

(* Mutant: reset_shell prints the prompt where the command left off.       *)
Prompt_SameLine ==
  /\ pc = "prompt"
  /\ tty' = PrintPrompt(tty)
  /\ running' = FALSE
  /\ pc' = "poll"
  /\ UNCHANGED <<cmd, keyInput, held, left, pressed, acted>>

Prompt ==
  /\ pc = "prompt"
  /\ tty' = Shell!ResetShell(tty)
  /\ running' = FALSE
  /\ pc' = "poll"
  /\ UNCHANGED <<cmd, keyInput, held, left, pressed, acted>>

CPU ==
  \/ Poll
  \/ ActUp \/ ActDown \/ ActChar \/ ActBackspace \/ ActRefused
  \/ ActEnterEmpty \/ ActEnterCommand
  \/ PrintUnknown \/ Clear \/ Reset \/ Prompt

Next == CPU \/ \E k \in Keys : HostPresses(k)

(* The emulator executes instructions for ever, events or none.            *)
Spec == Init /\ [][Next]_vars /\ WF_vars(CPU)

-----------------------------------------------------------------------------
(* Properties                                                              *)

(* Whatever the host and the loop do to KEY_INPUT, the terminal and the    *)
(* command line change only as ShellTerminal says.                         *)
ShellSpec == Shell!Spec

(* No press is acted on twice, and none after a later one (commit 278353e: *)
(* "The code would previously continuously print unknown command").        *)
EachPressOnce ==
  [][pc = "act" /\ pc' \notin {"act", "poll"} => acted < held.id]_vars

(* A key that reaches KEY_INPUT while the loop is polling is acted on,     *)
(* unless the next press takes its place or the key is one the loop        *)
(* refuses.  Keys that arrive while a handler runs have no such promise:   *)
(* the store of 0 at its end erases them.                                  *)
PolledKeyIsActedOn ==
  \A i \in 1 .. MaxPresses :
    (pc = "poll" /\ keyInput.id = i /\ ~Refused(keyInput.key))
      ~> (acted >= i \/ pressed > i)

(* Enter always comes back to a prompt, on a full command buffer and with  *)
(* keys arriving all the time, unless the line is one the shell spins on.  *)
PromptComesBack ==
  (pc = "act" /\ held.key = "CR" /\ (cmd = << >> \/ ~Spins(cmd)))
    ~> (pc = "poll" /\ cmd = << >> /\ ~running)
=============================================================================
