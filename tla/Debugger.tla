------------------------------- MODULE Debugger -------------------------------
(***************************************************************************)
(* run_emulator_loop of simulator.c: the debugger around the emulated      *)
(* 6502.  One turn of the loop looks for a breakpoint, may stop at the     *)
(* DEBUG prompt, takes the SDL events, lets the tracer window take those   *)
(* that are left, and executes one instruction.                            *)
(*                                                                         *)
(* The emulated program is a constant.  Of an instruction only what the    *)
(* debugger follows is kept: JSR, RTS, the magic opcode 0xFF, or where it  *)
(* can go next.  An instruction at a is followed by the one at a + 1, so   *)
(* the "address + 3" of the code is CallSite + 1 here.  Memory, symbols    *)
(* and what is drawn are left out, and with them the commands h, r, w, s,  *)
(* m and t, which change nothing that is modelled.                         *)
(* So is the interrupt the loop raises by the cycle count: the ROM's       *)
(* programs never clear the interrupt flag that a reset sets.              *)
(***************************************************************************)
EXTENDS Integers, Sequences, SequencesExt

CONSTANTS
  Program,         \* address -> [op : "JSR" | "RTS" | "GO" | "FF", to : addresses]
  Start,           \* the address the reset vector holds
  MaxReturns,      \* bound on the nesting of the emulated program
  MaxBreakpoints,  \* MAX_BREAKPOINTS, 50 in the program
  MaxCallStack,    \* MAX_CALL_STACK, 50 in the program
  TraceCapacity,   \* trace_history_capacity, 1000 in the program
  BreakAddresses,  \* the addresses given to the command b
  StrayAddresses,  \* what the memory before call_stack can hold, plus 3
  MaxEvents        \* bound on the number of SDL events in a behaviour

Addr == DOMAIN Program
Elsewhere == -1    \* an address that is none of the program's
NoIndex == -1      \* trace_scroll_index when not scrolling

ASSUME DebuggerAssumption ==
  /\ Addr \subseteq Nat /\ Start \in Addr /\ BreakAddresses \subseteq Addr
  /\ StrayAddresses \subseteq Addr \cup {Elsewhere}
  /\ \A a \in Addr :
       /\ Program[a].op \in {"JSR", "RTS", "GO", "FF"}
       /\ Program[a].to \subseteq Addr
       /\ Program[a].op = "JSR" => a + 1 \in Addr
  /\ {MaxReturns, MaxBreakpoints, MaxCallStack, TraceCapacity, MaxEvents}
       \subseteq Nat \ {0}

VARIABLES
  pc, returns,     \* the program counter, and the return addresses on page 1
  loop,            \* where run_emulator_loop is
  stepEnabled,     \* step_enabled
  breakLoop,       \* break_loop
  breakpoints,     \* breakpoints[0 .. breakpoint_count - 1].address
  callStack,       \* call_stack[0 .. call_stack_depth - 1].address
  tracer,          \* the window and the history, see Tracer
  queue, sent,     \* the SDL event queue, and how many events entered it
  asked,           \* the prompt was answered in this turn of the loop
  refused,         \* push_subroutine_call dropped a call that is still open
  awaited          \* the return addresses that u promised to stop at

vars == <<pc, returns, loop, stepEnabled, breakLoop, breakpoints, callStack,
          tracer, queue, sent, asked, refused, awaited>>
machine == <<pc, returns, callStack, refused>>

Event == {"ctrlC", "quit", "key"}

(* active is is_active, auto auto_tracer_opened, history trace_history     *)
(* (empty when it is NULL, which allocated tells), index                   *)
(* trace_scroll_index, mode scroll_mode.  shown is the entry last printed  *)
(* and shifted says that add_trace_entry has moved the entries since.      *)
Tracer ==
  [ active : BOOLEAN, auto : BOOLEAN, allocated : BOOLEAN,
    history : Seq(Addr), index : Int, mode : 0 .. 1,
    shown : Addr \cup {Elsewhere}, shifted : BOOLEAN ]

(* What is looked at in the history is an entry it has.                    *)
TypeOK ==
  /\ pc \in Addr /\ returns \in Seq(Addr)
  /\ loop \in {"top", "prompt", "events", "tracer", "ended"}
  /\ {stepEnabled, breakLoop, asked, refused} \subseteq BOOLEAN
  /\ breakpoints \in Seq(Addr \cup {Elsewhere})
  /\ Len(breakpoints) <= MaxBreakpoints
  /\ callStack \in Seq(Addr) /\ Len(callStack) <= MaxCallStack
  /\ tracer \in Tracer
  /\ Len(tracer.history) <= TraceCapacity
  /\ tracer.allocated =>
       /\ tracer.index \in NoIndex .. Len(tracer.history) - 1
       /\ tracer.mode = 1 <=> tracer.index # NoIndex
  /\ queue \in Seq(Event) /\ sent \in 0 .. MaxEvents
  /\ awaited \subseteq Addr

Init ==
  /\ pc = Start /\ returns = << >>
  /\ loop = "top" /\ stepEnabled = FALSE /\ breakLoop = FALSE
  /\ \E a \in BreakAddresses : breakpoints = <<a>>      \* --break_symbol
  /\ callStack = << >>
  /\ tracer = [ active |-> FALSE, auto |-> FALSE, allocated |-> FALSE,
                history |-> << >>, index |-> NoIndex, mode |-> 0,
                shown |-> Elsewhere, shifted |-> FALSE ]
  /\ queue = << >> /\ sent = 0
  /\ asked = FALSE /\ refused = FALSE /\ awaited = {}

IsBreakpoint(a) == a \in ToSet(breakpoints)

-----------------------------------------------------------------------------
(* Breakpoints and the call stack                                          *)

(* A full table is left as it is, even when a could be taken out of it.    *)
AddBreakpoint(bps, a) ==
  IF Len(bps) >= MaxBreakpoints THEN bps
  ELSE IF a \in ToSet(bps) THEN RemoveFirst(bps, a)
  ELSE Append(bps, a)

(* Mutant: the target is recorded, as the name jsr_address suggests.        *)
PushSubroutineCall_Target(a) ==
  IF Len(callStack) >= MaxCallStack
    THEN callStack ELSE Append(callStack, CHOOSE t \in Program[a].to : TRUE)

PushSubroutineCall(a) ==
  IF Len(callStack) >= MaxCallStack THEN callStack ELSE Append(callStack, a)

PopSubroutineCall == IF callStack = << >> THEN << >> ELSE Front(callStack)

(* Mutant: the call itself, not what is behind it.                          *)
UpAddresses_CallSite ==
  IF callStack = << >> THEN StrayAddresses ELSE {Last(callStack)}

(* Where handle_up_command sets its breakpoint.  After reset sp is 0xFD,   *)
(* so its test for sp >= 0xFF does not stop it at depth 0, where it reads  *)
(* the memory before the array.                                            *)
UpAddresses ==
  IF callStack = << >> THEN StrayAddresses ELSE {Last(callStack) + 1}

-----------------------------------------------------------------------------
(* The trace history                                                       *)

(* Mutant: the history is emptied and the index into it is not reset.       *)
InitTracerWindow_KeepsIndex(t) ==
  [t EXCEPT !.active = TRUE, !.allocated = TRUE, !.history = << >>,
            !.shown = Elsewhere, !.shifted = FALSE]

InitTracerWindow(t) ==
  [t EXCEPT !.active = TRUE, !.allocated = TRUE, !.history = << >>,
            !.index = NoIndex, !.mode = 0, !.shown = Elsewhere, !.shifted = FALSE]

(* The scroll index and mode stay as they were.                            *)
CleanupTracer(t) ==
  [t EXCEPT !.active = FALSE, !.allocated = FALSE, !.history = << >>,
            !.shown = Elsewhere, !.shifted = FALSE]

AddTraceEntry(t, a) ==
  IF ~t.allocated THEN t
  ELSE [t EXCEPT !.history = Append(IF Len(@) >= TraceCapacity THEN Tail(@) ELSE @, a),
                 !.shifted = @ \/ (t.mode = 1 /\ Len(t.history) >= TraceCapacity)]

ShowEntry(t, i) ==
  [t EXCEPT !.index = i, !.shown = t.history[i + 1], !.shifted = FALSE]

(* Mutant: scroll_mode is not reset with the index.                         *)
LeaveTrace_KeepsMode(t) ==
  [t EXCEPT !.index = NoIndex, !.shown = Elsewhere, !.shifted = FALSE]

LeaveTrace(t) ==
  [t EXCEPT !.mode = 0, !.index = NoIndex, !.shown = Elsewhere, !.shifted = FALSE]

TraceScrollUp(t) ==
  IF t.history = << >> THEN t
  ELSE ShowEntry([t EXCEPT !.mode = 1],
                 IF t.index = NoIndex THEN Len(t.history) - 1
                 ELSE IF t.index > 0 THEN t.index - 1 ELSE t.index)

TraceScrollDown(t) ==
  IF t.index # NoIndex /\ t.index < Len(t.history) - 1
    THEN ShowEntry(t, t.index + 1) ELSE LeaveTrace(t)

-----------------------------------------------------------------------------
(* One turn of the loop                                                    *)

(* Mutant: a breakpoint does not stop a program that runs.                  *)
Top_OnlyStepping ==
  /\ loop = "top"
  /\ stepEnabled' = stepEnabled
  /\ loop' = IF stepEnabled' THEN "prompt" ELSE "events"
  /\ awaited' = awaited \ {pc}
  /\ UNCHANGED <<machine, breakLoop, breakpoints, tracer, queue, sent, asked>>

(* The first stop opens the tracer window, which may fail.                 *)
Top ==
  /\ loop = "top"
  /\ stepEnabled' = (stepEnabled \/ IsBreakpoint(pc))
  /\ loop' = IF stepEnabled' THEN "prompt" ELSE "events"
  /\ awaited' = IF stepEnabled' THEN awaited \ {pc} ELSE awaited
  /\ \/ tracer' = tracer
     \/ /\ stepEnabled' /\ ~tracer.auto
        /\ tracer' = [InitTracerWindow(tracer) EXCEPT !.auto = TRUE]
  /\ UNCHANGED <<machine, breakLoop, breakpoints, queue, sent, asked>>

(* An answer to the prompt, after which the loop goes on at next.          *)
Answer(next) ==
  /\ loop = "prompt"
  /\ loop' = next
  /\ asked' = (next = "events")
  /\ UNCHANGED <<machine, breakLoop, queue, sent>>

CommandStep ==
  /\ Answer("events")
  /\ tracer' = IF tracer.mode = 1 THEN LeaveTrace(tracer) ELSE tracer
  /\ UNCHANGED <<stepEnabled, breakpoints, awaited>>

CommandContinue ==
  /\ Answer("events")
  /\ stepEnabled' = FALSE
  /\ UNCHANGED <<breakpoints, tracer, awaited>>

(* awaited is what the message promises, "Will break at return address",   *)
(* when the call stack is whole, the table has room and the address is not *)
(* in it already.                                                          *)
CommandUp ==
  /\ Answer("events")
  /\ stepEnabled' = FALSE
  /\ \E a \in UpAddresses : breakpoints' = AddBreakpoint(breakpoints, a)
  /\ awaited' = IF /\ returns # << >> /\ ~refused
                   /\ Len(breakpoints) < MaxBreakpoints
                   /\ ~IsBreakpoint(Last(returns))
                  THEN awaited \cup {Last(returns)}
                  ELSE awaited \ (ToSet(breakpoints) \ ToSet(breakpoints'))
  /\ UNCHANGED tracer

CommandBreakpoint(a) ==
  /\ Answer("top")
  /\ breakpoints' = AddBreakpoint(breakpoints, a)
  /\ awaited' = awaited \ (ToSet(breakpoints) \ ToSet(breakpoints'))
  /\ UNCHANGED <<stepEnabled, tracer>>

CommandTracer ==
  /\ Answer("top")
  /\ tracer' \in IF tracer.active THEN {CleanupTracer(tracer)}
                 ELSE {tracer, InitTracerWindow(tracer)}
  /\ UNCHANGED <<stepEnabled, breakpoints, awaited>>

CommandScroll ==
  /\ Answer("top")
  /\ tracer' \in {TraceScrollUp(tracer), TraceScrollDown(tracer)}
  /\ UNCHANGED <<stepEnabled, breakpoints, awaited>>

(* Mutant: Ctrl+C is not told from the key c.                               *)
TakeEvent_CtrlIgnored ==
  /\ loop = "events" /\ queue # << >>
  /\ queue' = Tail(queue)
  /\ stepEnabled' = (stepEnabled \/ Head(queue) = "quit")
  /\ breakLoop' = (Head(queue) = "quit" /\ stepEnabled)
  /\ loop' = IF breakLoop' THEN "tracer" ELSE "events"
  /\ UNCHANGED <<machine, breakpoints, tracer, sent, asked, awaited>>

(* SDL_PollEvent in the loop itself: a quit ends a simulation that is      *)
(* being stepped, with the events behind it still in the queue, and stops  *)
(* one that runs; a key goes to KEY_INPUT (see Console).                   *)
TakeEvent ==
  /\ loop = "events" /\ queue # << >>
  /\ queue' = Tail(queue)
  /\ stepEnabled' = (stepEnabled \/ Head(queue) \in {"ctrlC", "quit"})
  /\ breakLoop' = (Head(queue) = "quit" /\ stepEnabled)
  /\ loop' = IF breakLoop' THEN "tracer" ELSE "events"
  /\ UNCHANGED <<machine, breakpoints, tracer, sent, asked, awaited>>

EventsTaken ==
  /\ loop = "events" /\ queue = << >>
  /\ loop' = "tracer"
  /\ UNCHANGED <<machine, stepEnabled, breakLoop, breakpoints, tracer, queue, sent,
                 asked, awaited>>

(* handle_tracer_events: nothing when the window is closed, else every     *)
(* event there is; a quit closes the window, a key of the program is lost. *)
TracerTakesEvents ==
  /\ loop = "tracer" /\ queue # << >> /\ tracer.active
  /\ queue' = << >>
  /\ tracer' = [tracer EXCEPT !.active = ~Contains(queue, "quit")]
  /\ UNCHANGED <<machine, loop, stepEnabled, breakLoop, breakpoints, sent, asked, awaited>>

(* The end of the turn, with the instruction executed and pc' behind it.   *)
Executed ==
  /\ loop = "tracer" /\ (queue = << >> \/ ~tracer.active)
  /\ asked' = FALSE
  /\ tracer' = IF stepEnabled \/ tracer.mode = 1 THEN AddTraceEntry(tracer, pc') ELSE tracer
  /\ loop' = IF breakLoop THEN "ended" ELSE "top"
  /\ UNCHANGED <<stepEnabled, breakLoop, breakpoints, queue, sent, awaited>>

ExecuteJsr ==
  /\ Program[pc].op = "JSR" /\ Len(returns) < MaxReturns
  /\ callStack' = PushSubroutineCall(pc)
  /\ refused' = (refused \/ Len(callStack) >= MaxCallStack)
  /\ returns' = Append(returns, pc + 1)
  /\ pc' \in Program[pc].to
  /\ Executed

ExecuteRts ==
  /\ Program[pc].op = "RTS" /\ returns # << >>
  /\ callStack' = PopSubroutineCall
  /\ returns' = Front(returns)
  /\ pc' = Last(returns)
  /\ refused' = (refused /\ returns' # << >>)
  /\ Executed

ExecuteOther ==
  /\ Program[pc].op = "GO"
  /\ pc' \in {a \in Program[pc].to : Program[a].op = "JSR" => Len(returns) < MaxReturns}
  /\ Executed
  /\ UNCHANGED <<callStack, returns, refused>>

ExecuteMagic ==
  /\ loop = "tracer" /\ (queue = << >> \/ ~tracer.active)
  /\ Program[pc].op = "FF"
  /\ loop' = "ended"
  /\ UNCHANGED <<machine, stepEnabled, breakLoop, breakpoints, tracer, queue, sent,
                 asked, awaited>>

(* The end of the input at the prompt, or a SIGINT.                        *)
End ==
  /\ loop \in {"top", "prompt"}
  /\ loop' = "ended"
  /\ UNCHANGED <<machine, stepEnabled, breakLoop, breakpoints, tracer, queue, sent,
                 asked, awaited>>

(* Something happens at the keyboard or to a window.                       *)
SdlEvent(e) ==
  /\ loop # "ended" /\ sent < MaxEvents
  /\ queue' = Append(queue, e)
  /\ sent' = sent + 1
  /\ UNCHANGED <<machine, loop, stepEnabled, breakLoop, breakpoints, tracer, asked, awaited>>

(* What the loop does without anyone's help.                               *)
Loop == \/ Top
        \/ TakeEvent \/ EventsTaken \/ TracerTakesEvents
        \/ ExecuteJsr \/ ExecuteRts \/ ExecuteOther \/ ExecuteMagic

Next == \/ Loop
        \/ CommandStep \/ CommandContinue \/ CommandUp
        \/ \E a \in BreakAddresses : CommandBreakpoint(a)
        \/ CommandTracer \/ CommandScroll
        \/ End
        \/ \E e \in Event : SdlEvent(e)

Spec == Init /\ [][Next]_vars /\ WF_vars(Loop)

-----------------------------------------------------------------------------
(* Properties                                                              *)

(* No instruction at a breakpoint is executed before the prompt was        *)
(* answered for it, and no address is in the table twice, so that b takes  *)
(* out for good what it put in.  Out of a full table it takes nothing.     *)
StopsAtBreakpoints ==
  [][/\ loop = "tracer" /\ loop' # loop /\ IsBreakpoint(pc) => asked
     /\ IsInjective(breakpoints')]_vars

(* The command t shows no call that has returned, and while no call was    *)
(* refused for want of room exactly those that have not.                   *)
CallStackNamesOpenCalls ==
  /\ \E open \in [DOMAIN callStack -> DOMAIN returns] :
       /\ \A i, j \in DOMAIN callStack : i < j => open[i] < open[j]
       /\ \A i \in DOMAIN callStack : callStack[i] + 1 = returns[open[i]]
  /\ ~refused => Len(callStack) = Len(returns)

(* The command u keeps its promise: control does not come back to the      *)
(* caller without stopping there.                                          *)
UpStopsInCaller ==
  [][loop = "top" /\ pc \in awaited /\ loop' \notin {"top", "ended"}
       => loop' = "prompt"]_vars

(* The entry [ and ] count from is the one printed last, so that they step *)
(* backward and forward from it, until the history has had to drop one.    *)
ScrollsFromEntryShown ==
  tracer.mode = 1 /\ tracer.allocated /\ ~tracer.shifted =>
    /\ tracer.index < Len(tracer.history)
    /\ tracer.history[tracer.index + 1] = tracer.shown

(* Ctrl+C in the window stops the program, as long as no tracer window     *)
(* takes the event.                                                        *)
CtrlCStops ==
  ("ctrlC" \in ToSet(queue) /\ ~tracer.active /\ ~breakLoop)
     ~> (loop \in {"prompt", "ended"})

=============================================================================
