------------------------------ MODULE ModeSwitch ------------------------------
(***************************************************************************)
(* The change of mode between the host (processing.pde) and the Teensy     *)
(* (teensy.ino).  The host sends the name of a mode, the Teensy answers    *)
(* ACK at once and MODE_CHANGED when it has finished a frame, and all the  *)
(* time sends frames of data in the mode it is in.                         *)
(*                                                                         *)
(* A serial line is a sequence of lines of text.  What the Teensy prints   *)
(* is first on the wire and then in the receive buffer of the host, which  *)
(* myPort.clear() empties.  requestModeChange runs in the host's animation *)
(* thread and serialEvent in that of the serial port, so the store to a    *)
(* flag and the call of clear() are steps of their own.  A frame is three  *)
(* lines: its start, its values (binary ones in the FFT mode) and its end. *)
(* Lines that change nothing (DEBUG, HEARTBEAT, READY) are left out.       *)
(***************************************************************************)
EXTENDS Naturals, Sequences, SequencesExt

CONSTANTS
  Modes,       \* MODE_FFT, MODE_CORR_01, ...
  Kind,        \* the format of the frames of a mode
  StartMode,   \* MODE_EYE: both programs begin in it
  MaxWire,     \* bound on the lines in transit
  MaxInbox     \* bound on the lines in the receive buffer

NoMode == "none"

ASSUME ModeSwitchAssumption ==
  /\ StartMode \in Modes /\ Modes \cap {NoMode, "NL"} = {}
  /\ Kind \in [Modes -> {"fft", "corr", "phat", "3d"}]
  /\ MaxWire \in Nat \ {0} /\ MaxInbox \in Nat \ {0}

Line == [tag : {"ACK", "ERROR", "CHANGED", "START", "DATA", "END"}, mode : Modes]

VARIABLES
  currentMode, waitingForAck, modeChanging,   \* the host's
  inFFTPacket, receivingData,                 \* what serialEvent is in the middle of
  parsed,           \* the mode of the values it parsed last
  clearing,         \* serialEvent is about to call myPort.clear()
  toTeensy,         \* modes and ends of line on their way to the Teensy
  wire, inbox,      \* the lines on their way to the host
  debugMode, pendingMode,     \* debug_mode, pending_mode
  commandBuffer, newCommand,  \* the Teensy's
  at,               \* where its loop is
  lost              \* a clear() erased an ACK or a MODE_CHANGED

flags == <<currentMode, waitingForAck, modeChanging>>
packet == <<inFFTPacket, receivingData, parsed>>
teensy == <<debugMode, pendingMode, commandBuffer, newCommand, at>>
vars == <<flags, packet, clearing, toTeensy, wire, inbox, teensy, lost>>

(* The buffers stay within their bounds and hold what they are read as.    *)
TypeOK ==
  /\ currentMode \in Modes /\ {waitingForAck, modeChanging} \subseteq BOOLEAN
  /\ {inFFTPacket, receivingData} \subseteq BOOLEAN /\ parsed \in Modes \cup {NoMode}
  /\ clearing \in BOOLEAN /\ lost \in BOOLEAN
  /\ toTeensy \in Seq(Modes \cup {"NL"})
  /\ wire \in Seq(Line) /\ Len(wire) <= MaxWire
  /\ inbox \in Seq(Line) /\ Len(inbox) <= MaxInbox
  /\ debugMode \in Modes /\ pendingMode \in Modes \cup {NoMode}
  /\ commandBuffer \in Seq(Modes) /\ newCommand \in BOOLEAN
  /\ at \in {"check", "process", "audio", "apply", "start", "data", "end"}

Init ==
  /\ currentMode = StartMode /\ waitingForAck = FALSE /\ modeChanging = FALSE
  /\ inFFTPacket = FALSE /\ receivingData = FALSE /\ parsed = NoMode
  /\ clearing = FALSE
  /\ toTeensy = << >> /\ wire = << >> /\ inbox = << >>
  /\ debugMode = StartMode /\ pendingMode = NoMode
  /\ commandBuffer = << >> /\ newCommand = FALSE
  /\ at = "check"
  /\ lost = FALSE

-----------------------------------------------------------------------------
(* The host                                                                *)

(* Mutant: only the answer to the request itself is waited for.            *)
RequestModeChange_AckIsEnough(m) ==
  /\ ~waitingForAck
  /\ waitingForAck' = TRUE /\ modeChanging' = TRUE
  /\ toTeensy' = toTeensy \o <<m, "NL">>
  /\ UNCHANGED <<currentMode, packet, clearing, wire, inbox, teensy, lost>>

RequestModeChange(m) ==
  /\ ~waitingForAck /\ ~modeChanging
  /\ waitingForAck' = TRUE /\ modeChanging' = TRUE
  /\ toTeensy' = toTeensy \o <<m, "NL">>
  /\ UNCHANGED <<currentMode, packet, clearing, wire, inbox, teensy, lost>>

(* serialEvent takes the next line l, unless it is about to clear.         *)
HostReads(l) ==
  /\ ~clearing
  /\ inbox # << >>
  /\ l = Head(inbox)
  /\ inbox' = Tail(inbox)
  /\ UNCHANGED <<toTeensy, wire, teensy, lost>>

HostReadsAck ==
  \E l \in Line :
    /\ HostReads(l) /\ ~inFFTPacket /\ l.tag = "ACK"
    /\ waitingForAck' = FALSE
    /\ clearing' = waitingForAck
    /\ UNCHANGED <<currentMode, modeChanging, packet>>

HostReadsModeChanged ==
  \E l \in Line :
    /\ HostReads(l) /\ ~inFFTPacket /\ l.tag = "CHANGED"
    /\ currentMode' = l.mode
    /\ modeChanging' = FALSE
    /\ clearing' = TRUE
    /\ UNCHANGED <<waitingForAck, packet>>

(* Mutant: a packet cut in two by the clear is taken to go on.             *)
HostClears_InsidePacket ==
  /\ clearing
  /\ inbox' = << >>
  /\ clearing' = FALSE
  /\ lost' = (lost \/ \E l \in ToSet(inbox) : l.tag \in {"ACK", "CHANGED"})
  /\ UNCHANGED <<flags, packet, toTeensy, wire, teensy>>

HostClears ==
  /\ clearing
  /\ inbox' = << >>
  /\ clearing' = FALSE
  /\ inFFTPacket' = FALSE /\ receivingData' = FALSE
  /\ lost' = (lost \/ \E l \in ToSet(inbox) : l.tag \in {"ACK", "CHANGED"})
  /\ UNCHANGED <<flags, parsed, toTeensy, wire, teensy>>

(* FFT_START, FFT_END and the values between them are taken whatever the   *)
(* mode, and whether it is changing or not; the values by their number.    *)
HostReadsFft ==
  \E l \in Line :
    /\ HostReads(l)
    /\ \/ /\ inFFTPacket
          /\ inFFTPacket' = FALSE
          /\ parsed' = l.mode
       \/ /\ ~inFFTPacket /\ l.tag \in {"START", "END"} /\ Kind[l.mode] = "fft"
          /\ inFFTPacket' = (l.tag = "START")
          /\ UNCHANGED parsed
    /\ UNCHANGED <<flags, clearing, receivingData>>

IsText(l) ==
  \/ l.tag \in {"ERROR", "DATA"}
  \/ l.tag \in {"START", "END"} /\ Kind[l.mode] # "fft"

(* serialEvent_corr, serialEvent_Eyes and serialEvent_3D: each knows the   *)
(* start and end of its own kind of frame, and takes whatever line comes   *)
(* between them for values.  While the mode changes, and in the FFT mode,  *)
(* nothing.                                                                *)
HostReadsText ==
  \E l \in Line :
    /\ HostReads(l) /\ ~inFFTPacket /\ IsText(l)
    /\ IF modeChanging \/ Kind[currentMode] = "fft"
         THEN UNCHANGED <<receivingData, parsed>>
         ELSE IF l.tag \in {"START", "END"} /\ Kind[l.mode] = Kind[currentMode]
           THEN receivingData' = (l.tag = "START") /\ UNCHANGED parsed
           ELSE /\ parsed' = IF receivingData THEN l.mode ELSE parsed
                /\ UNCHANGED receivingData
    /\ UNCHANGED <<flags, clearing, inFFTPacket>>

-----------------------------------------------------------------------------
(* The Teensy                                                              *)

TeensyGoes(from, to) ==
  /\ at = from
  /\ at' = to
  /\ UNCHANGED <<flags, packet, clearing, inbox, lost>>

Sends(tag, m) ==
  /\ Len(wire) < MaxWire
  /\ wire' = Append(wire, [tag |-> tag, mode |-> m])

(* checkSerialCommand: one more word of a command, or its end.             *)
TeensyReceives ==
  /\ TeensyGoes("check", "check")
  /\ toTeensy # << >>
  /\ toTeensy' = Tail(toTeensy)
  /\ IF Head(toTeensy) = "NL"
       THEN /\ newCommand' = (newCommand \/ commandBuffer # << >>)
            /\ UNCHANGED commandBuffer
       ELSE /\ commandBuffer' = Append(commandBuffer, Head(toTeensy))
            /\ UNCHANGED newCommand
  /\ UNCHANGED <<wire, debugMode, pendingMode>>

TeensyChecked ==
  /\ TeensyGoes("check", IF newCommand THEN "process" ELSE "audio")
  /\ UNCHANGED <<toTeensy, wire, debugMode, pendingMode, commandBuffer, newCommand>>

(* Mutant: what was processed stays in the buffer.                         *)
ProcessCommand_KeepsBuffer ==
  /\ TeensyGoes("process", "audio")
  /\ IF Len(commandBuffer) = 1
       THEN pendingMode' = commandBuffer[1] /\ Sends("ACK", commandBuffer[1])
       ELSE UNCHANGED pendingMode /\ Sends("ERROR", Head(commandBuffer))
  /\ newCommand' = FALSE
  /\ UNCHANGED <<toTeensy, debugMode, commandBuffer>>

(* processCommand: what has been accumulated is compared with the names of *)
(* the modes as one word.                                                  *)
ProcessCommand ==
  /\ TeensyGoes("process", "audio")
  /\ IF Len(commandBuffer) = 1
       THEN pendingMode' = commandBuffer[1] /\ Sends("ACK", commandBuffer[1])
       ELSE UNCHANGED pendingMode /\ Sends("ERROR", Head(commandBuffer))
  /\ commandBuffer' = << >> /\ newCommand' = FALSE
  /\ UNCHANGED <<toTeensy, debugMode>>

(* loop_gcc_phat: the samples of a frame are there, or not yet.            *)
FrameCollected ==
  /\ TeensyGoes("audio", "apply")
  /\ UNCHANGED <<toTeensy, wire, debugMode, pendingMode, commandBuffer, newCommand>>

NoFrameYet ==
  /\ TeensyGoes("audio", "check")
  /\ UNCHANGED <<toTeensy, wire, debugMode, pendingMode, commandBuffer, newCommand>>

(* Mutant: a change to the mode it is in is not reported.                  *)
ApplyPendingMode_OnlyNew ==
  /\ TeensyGoes("apply", "start")
  /\ IF pendingMode \in {NoMode, debugMode}
       THEN UNCHANGED <<debugMode, wire>>
       ELSE debugMode' = pendingMode /\ Sends("CHANGED", pendingMode)
  /\ pendingMode' = NoMode
  /\ UNCHANGED <<toTeensy, commandBuffer, newCommand>>

ApplyPendingMode ==
  /\ TeensyGoes("apply", "start")
  /\ IF pendingMode = NoMode
       THEN UNCHANGED <<debugMode, wire>>
       ELSE debugMode' = pendingMode /\ Sends("CHANGED", pendingMode)
  /\ pendingMode' = NoMode
  /\ UNCHANGED <<toTeensy, commandBuffer, newCommand>>

SendFrame ==
  /\ \/ TeensyGoes("start", "data") /\ Sends("START", debugMode)
     \/ TeensyGoes("data", "end")   /\ Sends("DATA", debugMode)
     \/ TeensyGoes("end", "check")  /\ Sends("END", debugMode)
  /\ UNCHANGED <<toTeensy, debugMode, pendingMode, commandBuffer, newCommand>>

(* In the eye and game modes a frame that makes no sense is not sent.      *)
SkipFrame ==
  /\ Kind[debugMode] = "phat"
  /\ TeensyGoes("start", "check")
  /\ UNCHANGED <<toTeensy, wire, debugMode, pendingMode, commandBuffer, newCommand>>

-----------------------------------------------------------------------------
(* The serial line: a line of the wire gets into the receive buffer.       *)
Deliver ==
  /\ wire # << >> /\ Len(inbox) < MaxInbox
  /\ inbox' = Append(inbox, Head(wire))
  /\ wire' = Tail(wire)
  /\ UNCHANGED <<flags, packet, clearing, toTeensy, teensy, lost>>

SerialEvent == \/ HostReadsAck \/ HostReadsModeChanged \/ HostClears
               \/ HostReadsFft \/ HostReadsText

TeensyLoop == \/ TeensyChecked \/ ProcessCommand \/ NoFrameYet
              \/ ApplyPendingMode \/ SendFrame \/ SkipFrame

Next == \/ \E m \in Modes : RequestModeChange(m)
        \/ SerialEvent
        \/ TeensyReceives \/ FrameCollected \/ TeensyLoop
        \/ Deliver

(* Both programs go on, what is sent arrives, and the microphones never    *)
(* stop.                                                                   *)
Spec ==
  /\ Init /\ [][Next]_vars
  /\ WF_vars(SerialEvent) /\ WF_vars(Deliver) /\ WF_vars(TeensyLoop)
  /\ SF_vars(TeensyReceives) /\ SF_vars(FrameCollected)

-----------------------------------------------------------------------------
(* Properties                                                              *)

(* When the host is not changing modes it is in the mode the Teensy is in, *)
(* and no change is on its way anywhere between them.                      *)
ModesAgree ==
  ~modeChanging =>
    /\ currentMode = debugMode
    /\ pendingMode = NoMode /\ commandBuffer = << >> /\ toTeensy = << >>
    /\ \A l \in ToSet(wire \o inbox) : l.tag # "CHANGED"

(* The Teensy never finds two commands run together, or the rest of an     *)
(* earlier one: it has no unknown command to complain about.               *)
CommandsArriveWhole == \A l \in ToSet(wire) : l.tag # "ERROR"

(* What the host takes for values, and what it shows at the end of a frame *)
(* whose start it saw, was measured in the mode it shows: no frame is      *)
(* decoded in the format of another, or completed with older values.       *)
FramesAreOfCurrentMode ==
  [][\A l \in Line : HostReads(l) /\ ~lost =>
       /\ parsed' # parsed => l.mode = currentMode
       /\ l.tag = "END" /\ receivingData /\ ~receivingData' => parsed = currentMode]_vars

(* A change of mode that was requested comes to its end, unless a clear()  *)
(* has erased an answer.                                                   *)
ChangeCompletesUnlessErased ==
  /\ waitingForAck ~> (~waitingForAck \/ lost)
  /\ modeChanging ~> (~modeChanging \/ lost)
=============================================================================
