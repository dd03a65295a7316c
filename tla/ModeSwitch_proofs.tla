--------------------------- MODULE ModeSwitch_proofs ---------------------------
(***************************************************************************)
(* The change of mode, proved for all modes and all bounds on the lines in *)
(* transit.                                                                *)
(*                                                                         *)
(* The wire and the receive buffer are two parts of one sequence of lines: *)
(* the invariants are about that sequence, the oldest line first, and not  *)
(* about where in it the receive buffer ends.                              *)
(***************************************************************************)
EXTENDS ModeSwitch, SequenceTheorems, TLAPS

Transit == inbox \o wire

IsFrame(l) == l.tag \in {"START", "DATA", "END"}

-----------------------------------------------------------------------------
(* The inductive invariant                                                 *)

(* A command is on the line, half of it in the buffer, complete there, or  *)
(* there is none.  It is processed only when it is complete.               *)
CommandOK ==
  /\ \/ Len(toTeensy) = 2 /\ toTeensy[1] \in Modes /\ toTeensy[2] = "NL"
        /\ commandBuffer = << >> /\ ~newCommand
     \/ Len(toTeensy) = 1 /\ toTeensy[1] = "NL" /\ Len(commandBuffer) = 1 /\ ~newCommand
     \/ toTeensy = << >> /\ Len(commandBuffer) = 1 /\ newCommand
     \/ toTeensy = << >> /\ commandBuffer = << >> /\ ~newCommand
  /\ at = "process" => newCommand

NoChange(s) == \A i \in 1 .. Len(s) : s[i].tag # "CHANGED"

(* No complaint is on its way, and at most one line that reports a change. *)
OneChange(s) ==
  \A i \in 1 .. Len(s) :
    /\ s[i].tag # "ERROR"
    /\ s[i].tag = "CHANGED" =>
         /\ s[i].mode = debugMode
         /\ \A j \in 1 .. Len(s) : s[j].tag = "CHANGED" => i = j

Busy == commandBuffer # << >> \/ toTeensy # << >> \/ pendingMode # NoMode

(* One change of mode is under way at a time: the host that waits for none *)
(* is in the mode of the Teensy, a command or a pending mode is one the    *)
(* host waits for, and after the Teensy has changed there is one line on   *)
(* its way that says so.                                                   *)
ChangeOK(s) ==
  /\ commandBuffer # << >> \/ toTeensy # << >> => pendingMode = NoMode
  /\ Busy => modeChanging /\ NoChange(s)
  /\ ~modeChanging => currentMode = debugMode /\ NoChange(s)
  /\ OneChange(s)

(* The Teensy does nothing between the three lines of a frame.             *)
FramesWhole(s) ==
  \A i \in 1 .. Len(s) :
    /\ s[i].tag = "START" => IF i < Len(s) THEN s[i + 1].tag = "DATA" ELSE at = "data"
    /\ s[i].tag = "DATA"  => IF i < Len(s) THEN s[i + 1].tag = "END"  ELSE at = "end"

(* As long as no answer was lost, the frames before the line that reports  *)
(* the change are in the host's mode and those behind it in the Teensy's.  *)
FrameModes(s) ==
  ~lost =>
    /\ NoChange(s) =>
         /\ currentMode = debugMode
         /\ \A i \in 1 .. Len(s) : IsFrame(s[i]) => s[i].mode = currentMode
    /\ \A c \in 1 .. Len(s) : s[c].tag = "CHANGED" =>
         \A i \in 1 .. Len(s) : IsFrame(s[i]) =>
           s[i].mode = IF i < c THEN currentMode ELSE debugMode

(* The host in the middle of a frame: an FFT packet goes on with its       *)
(* values, and what it receives in a settled mode with its values or, when *)
(* these have been taken, with the end.                                    *)
InFrame(s) ==
  /\ inFFTPacket => /\ ~clearing
                    /\ IF s = << >> THEN at = "data" ELSE s[1].tag = "DATA"
  /\ receivingData /\ ~clearing => Kind[currentMode] # "fft"
  /\ ~lost /\ receivingData /\ ~modeChanging /\ ~clearing =>
       IF s = << >> THEN at = "data" \/ (at = "end" /\ parsed = currentMode)
       ELSE s[1].tag = "DATA" \/ (s[1].tag = "END" /\ parsed = currentMode)

IInv == /\ TypeOK /\ CommandOK
        /\ ChangeOK(Transit) /\ FramesWhole(Transit)
        /\ FrameModes(Transit) /\ InFrame(Transit)

-----------------------------------------------------------------------------
(* What a step does to the lines in transit                                *)

(* The k oldest lines are gone, none is new.                               *)
Dropped(k) ==
  /\ k \in 0 .. Len(Transit) /\ Transit' \in Seq(Line)
  /\ Len(Transit') = Len(Transit) - k
  /\ \A i \in 1 .. Len(Transit') : Transit'[i] = Transit[i + k]

(* The line l is the newest.                                               *)
Sent(l) ==
  /\ l \in Line /\ Transit' \in Seq(Line)
  /\ Len(Transit') = Len(Transit) + 1
  /\ \A i \in 1 .. Len(Transit) : Transit'[i] = Transit[i]
  /\ Transit'[Len(Transit) + 1] = l

(* The lines in transit are lines, those of the receive buffer first.      *)
LEMMA TransitType ==
  ASSUME TypeOK
  PROVE  /\ Transit \in Seq(Line) /\ Len(Transit) = Len(inbox) + Len(wire)
         /\ \A i \in 1 .. Len(inbox) : Transit[i] = inbox[i]
         /\ \A i \in 1 .. Len(wire) : Transit[Len(inbox) + i] = wire[i]
<1>1. inbox \in Seq(Line) /\ wire \in Seq(Line)
  BY DEF TypeOK
<1>2. /\ Transit \in Seq(Line) /\ Len(Transit) = Len(inbox) + Len(wire)
      /\ \A i \in 1 .. Len(inbox) + Len(wire) :
           Transit[i] = IF i <= Len(inbox) THEN inbox[i] ELSE wire[i - Len(inbox)]
  BY <1>1, ConcatProperties DEF Transit
<1> HIDE DEF Transit
<1>3. Len(inbox) \in Nat /\ Len(wire) \in Nat
  BY <1>1
<1>4. ASSUME NEW i \in 1 .. Len(wire)
      PROVE  Transit[Len(inbox) + i] = wire[i]
  <2> DEFINE j == Len(inbox) + i
  <2>1. j \in 1 .. Len(inbox) + Len(wire) /\ ~(j <= Len(inbox)) /\ j - Len(inbox) = i
    BY <1>3
  <2>2. QED
    BY <1>2, <2>1
<1>5. QED
  BY <1>2, <1>3, <1>4

(* A step that leaves both parts alone drops no line.                      *)
LEMMA TransitStays ==
  ASSUME TypeOK, UNCHANGED <<wire, inbox>>
  PROVE  Dropped(0)
<1>1. Transit' = Transit
  BY DEF Transit
<1>2. QED
  BY <1>1, TransitType DEF Dropped

(* Serial port: a line that gets into the receive buffer stays in transit. *)
LEMMA DeliverKeepsTransit ==
  ASSUME TypeOK, Deliver
  PROVE  /\ Dropped(0)
         /\ wire' \in Seq(Line) /\ Len(wire') <= MaxWire
         /\ inbox' \in Seq(Line) /\ Len(inbox') <= MaxInbox
<1>1. /\ inbox \in Seq(Line) /\ wire \in Seq(Line) /\ wire # << >>
      /\ Len(inbox) < MaxInbox /\ Len(wire) <= MaxWire
      /\ inbox' = Append(inbox, Head(wire)) /\ wire' = Tail(wire)
  BY DEF TypeOK, Deliver
<1>2. /\ Head(wire) \in Line /\ Tail(wire) \in Seq(Line) /\ Len(Tail(wire)) = Len(wire) - 1
      /\ \A i \in 1 .. Len(Tail(wire)) : Tail(wire)[i] = wire[i + 1]
      /\ Head(wire) = wire[1]
  BY <1>1, HeadTailProperties
<1> DEFINE h == Head(wire)
           b == Append(inbox, h)
<1>3. h \in Line /\ h = wire[1]
  BY <1>2
<1> HIDE DEF h
<1>4. /\ b \in Seq(Line) /\ Len(b) = Len(inbox) + 1 /\ b[Len(inbox) + 1] = h
      /\ \A i \in 1 .. Len(inbox) : b[i] = inbox[i]
  BY <1>1, <1>3, AppendProperties
<1>5. b = inbox'
  BY <1>1 DEF h
<1> HIDE DEF b
<1> DEFINE w == Tail(wire)
<1>6. /\ w \in Seq(Line) /\ Len(w) = Len(wire) - 1 /\ w = wire'
      /\ \A i \in 1 .. Len(w) : w[i] = wire[i + 1]
  BY <1>1, <1>2
<1> HIDE DEF w
<1>7. /\ Transit \in Seq(Line) /\ Len(Transit) = Len(inbox) + Len(wire)
      /\ \A i \in 1 .. Len(inbox) : Transit[i] = inbox[i]
      /\ \A i \in 1 .. Len(wire) : Transit[Len(inbox) + i] = wire[i]
  BY TransitType
<1>8. /\ Transit' \in Seq(Line) /\ Len(Transit') = Len(b) + Len(w)
      /\ \A i \in 1 .. Len(b) + Len(w) :
           Transit'[i] = IF i <= Len(b) THEN b[i] ELSE w[i - Len(b)]
  <2>1. Transit' = b \o w
    BY <1>5, <1>6 DEF Transit
  <2>2. QED
    BY <1>4, <1>6, <2>1, ConcatProperties
<1>9. Len(inbox) \in Nat /\ Len(wire) \in Nat \ {0}
  <2>1. inbox \in Seq(Line) /\ wire \in Seq(Line) /\ wire # << >>
    BY <1>1
  <2>2. QED
    BY <2>1, EmptySeq
<1>10. Len(Transit') = Len(Transit)
  <2>1. /\ Len(Transit) = Len(inbox) + Len(wire) /\ Len(Transit') = Len(b) + Len(w)
        /\ Len(b) = Len(inbox) + 1 /\ Len(w) = Len(wire) - 1
    BY <1>4, <1>6, <1>7, <1>8
  <2>2. QED
    BY <1>9, <2>1
<1>11. ASSUME NEW i \in 1 .. Len(Transit')
       PROVE  Transit'[i] = Transit[i]
  <2>1. i \in 1 .. Len(inbox) + Len(wire) /\ i \in 1 .. Len(b) + Len(w)
    BY <1>4, <1>6, <1>7, <1>9, <1>10
  <2>2. CASE i <= Len(inbox)
    BY <1>4, <1>7, <1>8, <1>9, <2>1, <2>2
  <2>3. CASE i = Len(inbox) + 1
    BY <1>3, <1>4, <1>7, <1>8, <1>9, <2>1, <2>3
  <2>4. CASE i > Len(inbox) + 1
    <3> DEFINE j == i - Len(inbox)
    <3>1. /\ j \in 1 .. Len(wire) /\ Len(inbox) + j = i
          /\ j - 1 \in 1 .. Len(w) /\ i - Len(b) = j - 1 /\ (j - 1) + 1 = j
          /\ ~(i <= Len(b))
      BY <1>4, <1>6, <1>9, <2>1, <2>4
    <3>2. Transit'[i] = w[j - 1] /\ w[j - 1] = wire[j]
      <4>1. Transit'[i] = w[j - 1]
        BY <1>8, <2>1, <3>1
      <4>2. w[j - 1] = wire[j]
        BY <1>6, <3>1
      <4>3. QED
        BY <4>1, <4>2
    <3>3. QED
      BY <1>7, <3>1, <3>2
  <2>5. QED
    BY <1>9, <2>1, <2>2, <2>3, <2>4
<1>12. Dropped(0)
  <2>1. Len(Transit) \in Nat
    BY <1>7
  <2>2. 0 \in 0 .. Len(Transit) /\ Len(Transit') = Len(Transit) - 0
    BY <1>10, <2>1
  <2>3. ASSUME NEW i \in 1 .. Len(Transit')
        PROVE  Transit'[i] = Transit[i + 0]
    <3>1. i + 0 = i
      OBVIOUS
    <3>2. QED
      BY <1>11, <3>1
  <2>4. Transit' \in Seq(Line)
    BY <1>8
  <2>5. QED
    BY <2>2, <2>3, <2>4 DEF Dropped
<1>13. MaxInbox \in Nat /\ MaxWire \in Nat
  BY ModeSwitchAssumption
<1>14. Len(w) <= MaxWire /\ Len(b) <= MaxInbox
  <2>1. /\ Len(w) = Len(wire) - 1 /\ Len(b) = Len(inbox) + 1
        /\ Len(inbox) < MaxInbox /\ Len(wire) <= MaxWire
    BY <1>1, <1>4, <1>6
  <2>2. QED
    BY <1>9, <1>13, <2>1
<1>15. QED
  BY <1>4, <1>5, <1>6, <1>12, <1>14

(* serialEvent takes the oldest line.                                      *)
LEMMA ReadDropsOne ==
  ASSUME TypeOK, NEW l, HostReads(l)
  PROVE  /\ Dropped(1) /\ Len(Transit) >= 1 /\ Transit[1] = l
         /\ inbox' \in Seq(Line) /\ Len(inbox') <= MaxInbox /\ wire' = wire
<1>1. /\ inbox \in Seq(Line) /\ wire \in Seq(Line) /\ inbox # << >>
      /\ Len(inbox) <= MaxInbox /\ l = Head(inbox)
      /\ inbox' = Tail(inbox) /\ wire' = wire
  BY DEF TypeOK, HostReads
<1> DEFINE b == Tail(inbox)
<1>2. /\ l = inbox[1] /\ b \in Seq(Line) /\ Len(b) = Len(inbox) - 1
      /\ \A i \in 1 .. Len(b) : b[i] = inbox[i + 1]
  BY <1>1, HeadTailProperties
<1>3. b = inbox'
  BY <1>1
<1> HIDE DEF b
<1>4. /\ Transit \in Seq(Line) /\ Len(Transit) = Len(inbox) + Len(wire)
      /\ \A i \in 1 .. Len(inbox) : Transit[i] = inbox[i]
      /\ \A i \in 1 .. Len(wire) : Transit[Len(inbox) + i] = wire[i]
  BY TransitType
<1>5. /\ Transit' \in Seq(Line) /\ Len(Transit') = Len(b) + Len(wire)
      /\ \A i \in 1 .. Len(b) + Len(wire) :
           Transit'[i] = IF i <= Len(b) THEN b[i] ELSE wire[i - Len(b)]
  <2>1. Transit' = b \o wire
    BY <1>1, <1>3 DEF Transit
  <2>2. QED
    BY <1>1, <1>2, <2>1, ConcatProperties
<1>6. Len(inbox) \in Nat \ {0} /\ Len(wire) \in Nat
  BY <1>1, EmptySeq
<1>7. ASSUME NEW i \in 1 .. Len(Transit')
      PROVE  Transit'[i] = Transit[i + 1]
  <2>1. CASE i <= Len(b)
    BY <1>2, <1>4, <1>5, <1>6, <2>1
  <2>2. CASE ~(i <= Len(b))
    <3> DEFINE j == i - Len(b)
    <3>1. j \in 1 .. Len(wire) /\ Len(inbox) + j = i + 1
      BY <1>2, <1>5, <1>6, <2>2
    <3>2. QED
      BY <1>4, <1>5, <2>2, <3>1
  <2>3. QED
    BY <2>1, <2>2
<1>8. Len(Transit) >= 1 /\ Transit[1] = l /\ 1 \in 0 .. Len(Transit)
  BY <1>2, <1>4, <1>6
<1>9. Dropped(1)
  BY <1>2, <1>4, <1>5, <1>6, <1>7, <1>8 DEF Dropped
<1>10. QED
  BY <1>1, <1>2, <1>3, <1>6, <1>8, <1>9, ModeSwitchAssumption

(* myPort.clear() takes all of the receive buffer.                         *)
LEMMA ClearDropsInbox ==
  ASSUME TypeOK, HostClears
  PROVE  /\ Dropped(Len(inbox)) /\ inbox' \in Seq(Line) /\ Len(inbox') = 0
         /\ wire' = wire
<1>1. /\ inbox \in Seq(Line) /\ wire \in Seq(Line)
      /\ inbox' = << >> /\ wire' = wire
  BY DEF TypeOK, HostClears, teensy
<1>2. Transit' = wire
  BY <1>1, ConcatEmptySeq DEF Transit
<1>3. /\ Transit \in Seq(Line) /\ Len(Transit) = Len(inbox) + Len(wire)
      /\ \A i \in 1 .. Len(wire) : Transit[Len(inbox) + i] = wire[i]
  BY TransitType
<1>4. Len(inbox) \in Nat /\ Len(wire) \in Nat
  BY <1>1
<1>5. ASSUME NEW i \in 1 .. Len(wire)
      PROVE  wire[i] = Transit[i + Len(inbox)]
  <2>1. i + Len(inbox) = Len(inbox) + i
    BY <1>4
  <2>2. QED
    BY <1>3, <2>1
<1>6. QED
  BY <1>1, <1>2, <1>3, <1>4, <1>5 DEF Dropped

(* The Teensy prints a line: it is the last of the wire.                   *)
LEMMA SendAppends ==
  ASSUME TypeOK, NEW l \in Line, Sends(l.tag, l.mode), inbox' = inbox
  PROVE  Sent(l) /\ wire' \in Seq(Line) /\ Len(wire') <= MaxWire
<1> DEFINE w == Append(wire, l)
<1>1. inbox \in Seq(Line) /\ wire \in Seq(Line)
  BY DEF TypeOK
<1>2. Len(wire) < MaxWire /\ w = wire'
  <2>1. l = [tag |-> l.tag, mode |-> l.mode]
    BY DEF Line
  <2>2. QED
    BY <2>1 DEF Sends
<1>3. /\ w \in Seq(Line) /\ Len(w) = Len(wire) + 1 /\ w[Len(wire) + 1] = l
      /\ \A i \in 1 .. Len(wire) : w[i] = wire[i]
  BY <1>1, AppendProperties
<1> HIDE DEF w
<1>4. /\ Transit \in Seq(Line) /\ Len(Transit) = Len(inbox) + Len(wire)
      /\ \A i \in 1 .. Len(inbox) : Transit[i] = inbox[i]
      /\ \A i \in 1 .. Len(wire) : Transit[Len(inbox) + i] = wire[i]
  BY TransitType
<1>5. /\ Transit' \in Seq(Line) /\ Len(Transit') = Len(inbox) + Len(w)
      /\ \A i \in 1 .. Len(inbox) + Len(w) :
           Transit'[i] = IF i <= Len(inbox) THEN inbox[i] ELSE w[i - Len(inbox)]
  <2>1. Transit' = inbox \o w
    BY <1>2 DEF Transit
  <2>2. inbox \in Seq(Line) /\ w \in Seq(Line)
    BY <1>1, <1>3
  <2>3. QED
    BY <2>1, <2>2, ConcatProperties
<1>6. Len(inbox) \in Nat /\ Len(wire) \in Nat
  BY <1>1
<1>7. ASSUME NEW i \in 1 .. Len(Transit)
      PROVE  Transit'[i] = Transit[i]
  <2>1. CASE i <= Len(inbox)
    <3>1. i \in 1 .. Len(inbox) /\ i \in 1 .. Len(inbox) + Len(w)
      BY <1>3, <1>6, <2>1
    <3>2. QED
      BY <1>4, <1>5, <2>1, <3>1
  <2>2. CASE ~(i <= Len(inbox))
    <3> DEFINE j == i - Len(inbox)
    <3>1. j \in 1 .. Len(wire) /\ Len(inbox) + j = i
      BY <1>4, <1>6, <2>2
    <3>2. i \in 1 .. Len(inbox) + Len(w)
      BY <1>3, <1>4, <1>6
    <3>3. Transit'[i] = w[j] /\ w[j] = wire[j]
      BY <1>3, <1>5, <2>2, <3>1, <3>2
    <3>4. QED
      BY <1>4, <3>1, <3>3
  <2>3. QED
    BY <2>1, <2>2
<1>8. Transit'[Len(Transit) + 1] = l /\ Len(Transit') = Len(Transit) + 1
  <2> DEFINE n == Len(Transit) + 1
  <2>1. n \in 1 .. Len(inbox) + Len(w) /\ ~(n <= Len(inbox)) /\ n - Len(inbox) = Len(wire) + 1
    BY <1>3, <1>4, <1>6
  <2>2. QED
    BY <1>3, <1>4, <1>5, <1>6, <2>1
<1>9. Sent(l)
  BY <1>1, <1>5, <1>7, <1>8 DEF Sent
<1>10. QED
  BY <1>2, <1>1, <1>3, <1>6, <1>9, ModeSwitchAssumption

-----------------------------------------------------------------------------
(* What of the invariant survives the loss of old lines and a new one      *)

(* Behind a line of a frame is the next one, whatever was before it.       *)
LEMMA DropKeepsFrames ==
  ASSUME TypeOK, FramesWhole(Transit), NEW k, Dropped(k),
         at' = at \/ at \notin {"data", "end"}
  PROVE  FramesWhole(Transit)'
<1>1. Len(Transit) \in Nat /\ k \in 0 .. Len(Transit) /\ Len(Transit') = Len(Transit) - k
  BY TransitType DEF Dropped
<1>2. ASSUME NEW i \in 1 .. Len(Transit')
      PROVE  /\ i + k \in 1 .. Len(Transit) /\ Transit'[i] = Transit[i + k]
             /\ i < Len(Transit') <=> i + k < Len(Transit)
             /\ i < Len(Transit') => Transit'[i + 1] = Transit[(i + k) + 1]
  <2>1. i + k \in 1 .. Len(Transit) /\ (i < Len(Transit') <=> i + k < Len(Transit))
    BY <1>1
  <2>2. i < Len(Transit') => i + 1 \in 1 .. Len(Transit') /\ (i + 1) + k = (i + k) + 1
    BY <1>1
  <2>3. i < Len(Transit') => Transit'[i + 1] = Transit[(i + 1) + k]
    BY <2>2 DEF Dropped
  <2>4. Transit'[i] = Transit[i + k]
    BY DEF Dropped
  <2>5. QED
    BY <2>1, <2>2, <2>3, <2>4
<1> HIDE DEF Transit
<1>3. QED
  BY <1>2 DEF FramesWhole

(* No report of a change appears by losing lines.                         *)
LEMMA DropKeepsNoChange ==
  ASSUME TypeOK, NoChange(Transit), NEW k, Dropped(k)
  PROVE  NoChange(Transit)'
<1>1. ASSUME NEW i \in 1 .. Len(Transit')
      PROVE  i + k \in 1 .. Len(Transit) /\ Transit'[i] = Transit[i + k]
  BY TransitType DEF Dropped
<1>2. QED
  BY <1>1 DEF NoChange

(* Nor does a second one, and the one there is still tells the truth.      *)
LEMMA DropKeepsOneChange ==
  ASSUME TypeOK, OneChange(Transit), NEW k, Dropped(k), debugMode' = debugMode
  PROVE  OneChange(Transit)'
<1>1. k \in Nat
  BY TransitType DEF Dropped
<1>2. ASSUME NEW i \in 1 .. Len(Transit')
      PROVE  i + k \in 1 .. Len(Transit) /\ Transit'[i] = Transit[i + k]
  BY TransitType DEF Dropped
<1>3. ASSUME NEW i \in 1 .. Len(Transit'), NEW j \in 1 .. Len(Transit'), i + k = j + k
      PROVE  i = j
  BY <1>1, <1>3
<1>4. QED
  BY <1>2, <1>3 DEF OneChange

(* The modes of the frames, when the host's and the Teensy's stay and the  *)
(* lines dropped report no change.                                         *)
LEMMA DropKeepsFrameModes ==
  ASSUME TypeOK, FrameModes(Transit), NEW k, Dropped(k),
         UNCHANGED <<currentMode, debugMode>>, ~lost' => ~lost,
         ~lost' => \A i \in 1 .. k : Transit[i].tag # "CHANGED"
  PROVE  FrameModes(Transit)'
<1> SUFFICES ASSUME ~lost'
             PROVE  FrameModes(Transit)'
  BY DEF FrameModes
<1>1. Len(Transit) \in Nat /\ k \in 0 .. Len(Transit) /\ Len(Transit') = Len(Transit) - k
  BY TransitType DEF Dropped
<1>2. ASSUME NEW i \in 1 .. Len(Transit')
      PROVE  i + k \in 1 .. Len(Transit) /\ Transit'[i] = Transit[i + k]
  BY TransitType DEF Dropped
<1>3. ASSUME NEW i \in 1 .. Len(Transit'), NEW c \in 1 .. Len(Transit')
      PROVE  i < c <=> i + k < c + k
  BY <1>1
<1>4. NoChange(Transit)' => NoChange(Transit)
  <2> SUFFICES ASSUME NoChange(Transit'), NEW i \in 1 .. Len(Transit)
               PROVE  Transit[i].tag # "CHANGED"
    BY DEF NoChange
  <2>1. CASE i \in 1 .. k
    BY <2>1
  <2>2. CASE i \notin 1 .. k
    <3> DEFINE j == i - k
    <3>1. j \in 1 .. Len(Transit') /\ j + k = i
      BY <1>1, <2>2
    <3>2. QED
      BY <1>2, <3>1 DEF NoChange
  <2>3. QED
    BY <2>1, <2>2
<1>5. ~lost /\ currentMode' = currentMode /\ debugMode' = debugMode
  OBVIOUS
<1>6. ASSUME NoChange(Transit'), NEW i \in 1 .. Len(Transit'), IsFrame(Transit'[i])
      PROVE  Transit'[i].mode = currentMode
  BY <1>2, <1>4, <1>5, <1>6 DEF FrameModes
<1>7. ASSUME NEW c \in 1 .. Len(Transit'), Transit'[c].tag = "CHANGED",
             NEW i \in 1 .. Len(Transit'), IsFrame(Transit'[i])
      PROVE  Transit'[i].mode = IF i < c THEN currentMode ELSE debugMode
  <2>1. /\ c + k \in 1 .. Len(Transit) /\ Transit[c + k].tag = "CHANGED"
        /\ i + k \in 1 .. Len(Transit) /\ IsFrame(Transit[i + k])
    BY <1>2, <1>7
  <2>2. Transit[i + k].mode = IF i + k < c + k THEN currentMode ELSE debugMode
    BY <1>5, <2>1 DEF FrameModes
  <2>3. QED
    BY <1>2, <1>3, <2>2
<1>8. QED
  BY <1>4, <1>5, <1>6, <1>7 DEF FrameModes

(* A new line: it is the last, and what was there is where it was.         *)
LEMMA SentFacts ==
  ASSUME TypeOK, NEW l, Sent(l)
  PROVE  /\ Len(Transit) \in Nat /\ Len(Transit') = Len(Transit) + 1
         /\ \A i \in 1 .. Len(Transit) :
              i \in 1 .. Len(Transit') /\ i < Len(Transit') /\ Transit'[i] = Transit[i]
         /\ Len(Transit') \in 1 .. Len(Transit') /\ Transit'[Len(Transit')] = l
         /\ \A i \in 1 .. Len(Transit') : i \in 1 .. Len(Transit) \/ i = Len(Transit')
BY TransitType DEF Sent

(* A new line that reports no change.                                      *)
LEMMA SendKeepsNoChange ==
  ASSUME TypeOK, NoChange(Transit), NEW l, Sent(l), l.tag # "CHANGED"
  PROVE  NoChange(Transit)'
BY SentFacts DEF NoChange

(* The line that reports the change is alone when there was none before.   *)
LEMMA SendKeepsOneChange ==
  ASSUME TypeOK, OneChange(Transit), NEW l, Sent(l), l.tag # "ERROR",
         \/ l.tag # "CHANGED" /\ debugMode' = debugMode
         \/ NoChange(Transit) /\ l.mode = debugMode'
  PROVE  OneChange(Transit)'
<1>1. CASE l.tag # "CHANGED" /\ debugMode' = debugMode
  BY <1>1, SentFacts DEF OneChange
<1>2. CASE NoChange(Transit) /\ l.mode = debugMode'
  BY <1>2, SentFacts DEF OneChange, NoChange
<1>3. QED
  BY <1>1, <1>2

(* A frame of the Teensy's mode, or the line behind which its mode changed.*)
LEMMA SendKeepsFrameModes ==
  ASSUME TypeOK, FrameModes(Transit), NEW l, Sent(l), UNCHANGED <<currentMode, lost>>,
         \/ /\ l.tag # "CHANGED" /\ debugMode' = debugMode
            /\ IsFrame(l) => l.mode = debugMode
         \/ NoChange(Transit) /\ l.tag = "CHANGED"
  PROVE  FrameModes(Transit)'
<1> SUFFICES ASSUME ~lost
             PROVE  FrameModes(Transit)'
  BY DEF FrameModes
<1> DEFINE n == Len(Transit')
<1>1. /\ n \in 1 .. n /\ Transit'[n] = l
      /\ \A i \in 1 .. Len(Transit) : i \in 1 .. n /\ i < n /\ Transit'[i] = Transit[i]
      /\ \A i \in 1 .. n : i \in 1 .. Len(Transit) \/ i = n
  BY SentFacts
<1>2. CASE NoChange(Transit) /\ l.tag = "CHANGED"
  <2>1. \A i \in 1 .. n : Transit'[i].tag = "CHANGED" => i = n
    BY <1>1, <1>2 DEF NoChange
  <2>2. \A i \in 1 .. n : IsFrame(Transit'[i]) => i < n /\ Transit'[i].mode = currentMode
    BY <1>1, <1>2 DEF FrameModes, IsFrame
  <2>3. ~NoChange(Transit')
    BY <1>1, <1>2 DEF NoChange
  <2>4. QED
    BY <2>1, <2>2, <2>3 DEF FrameModes
<1>3. CASE /\ l.tag # "CHANGED" /\ debugMode' = debugMode
           /\ IsFrame(l) => l.mode = debugMode
  <2>1. NoChange(Transit') <=> NoChange(Transit)
    BY <1>1, <1>3 DEF NoChange
  <2>2. \A i \in 1 .. n : Transit'[i].tag = "CHANGED" => i \in 1 .. Len(Transit)
    BY <1>1, <1>3
  <2>3. \A c \in 1 .. Len(Transit) : ~(n < c)
    BY SentFacts
  <2>4. NoChange(Transit') =>
          \A i \in 1 .. n : IsFrame(Transit'[i]) => Transit'[i].mode = currentMode
    BY <1>1, <1>3, <2>1 DEF FrameModes
  <2>5. ASSUME NEW c \in 1 .. n, Transit'[c].tag = "CHANGED",
               NEW i \in 1 .. n, IsFrame(Transit'[i])
        PROVE  Transit'[i].mode = IF i < c THEN currentMode ELSE debugMode
    BY <1>1, <1>3, <2>2, <2>3, <2>5 DEF FrameModes
  <2>6. QED
    BY <1>3, <2>1, <2>4, <2>5 DEF FrameModes
<1>4. QED
  BY <1>2, <1>3

-----------------------------------------------------------------------------
(* The invariant holds at the start and no action destroys it              *)

(* Nothing has been sent, and both programs are in StartMode.              *)
LEMMA InitIInv == Init => IInv
<1> SUFFICES ASSUME Init PROVE IInv
  OBVIOUS
<1>1. TypeOK
  <2>1. StartMode \in Modes /\ 0 <= MaxWire /\ 0 <= MaxInbox
    BY ModeSwitchAssumption
  <2>2. << >> \in Seq(Line) /\ << >> \in Seq(Modes) /\ << >> \in Seq(Modes \cup {"NL"})
        /\ Len(<< >>) = 0
    OBVIOUS
  <2>3. /\ wire \in Seq(Line) /\ Len(wire) <= MaxWire
        /\ inbox \in Seq(Line) /\ Len(inbox) <= MaxInbox
    BY <2>1, <2>2 DEF Init
  <2>4. commandBuffer \in Seq(Modes) /\ toTeensy \in Seq(Modes \cup {"NL"})
    BY <2>2 DEF Init
  <2>5. QED
    BY <2>1, <2>3, <2>4 DEF Init, TypeOK
<1>2. Transit = << >> /\ Len(Transit) = 0 /\ commandBuffer = << >> /\ toTeensy = << >>
  BY DEF Init, Transit
<1>3. CommandOK
  BY <1>2 DEF Init, CommandOK
<1>4. ChangeOK(Transit)
  BY <1>2 DEF Init, ChangeOK, Busy, NoChange, OneChange
<1>5. FramesWhole(Transit) /\ FrameModes(Transit) /\ InFrame(Transit)
  BY <1>2 DEF Init, FramesWhole, FrameModes, InFrame
<1>6. QED
  BY <1>1, <1>3, <1>4, <1>5 DEF IInv

(* A host that waits for no change has nothing under way.                  *)
LEMMA Settled ==
  ASSUME IInv, ~modeChanging
  PROVE  /\ toTeensy = << >> /\ commandBuffer = << >> /\ pendingMode = NoMode
         /\ ~newCommand /\ at # "process"
         /\ currentMode = debugMode /\ NoChange(Transit)
<1>1. /\ toTeensy = << >> /\ commandBuffer = << >> /\ pendingMode = NoMode
      /\ currentMode = debugMode /\ NoChange(Transit)
  BY DEF IInv, ChangeOK, Busy
<1>2. Len(toTeensy) = 0 /\ Len(commandBuffer) = 0
  BY <1>1
<1>3. QED
  BY <1>1, <1>2 DEF IInv, CommandOK

(* requestModeChange: the command is on the line, the host waits.          *)
LEMMA RequestKeepsIInv ==
  ASSUME IInv, NEW m \in Modes, RequestModeChange(m)
  PROVE  IInv'
<1>1. TypeOK /\ Dropped(0)
  BY TransitStays DEF IInv, RequestModeChange
<1>2. /\ ~modeChanging /\ modeChanging' /\ waitingForAck'
      /\ UNCHANGED <<currentMode, packet, clearing, wire, inbox, teensy, lost>>
      /\ toTeensy' = toTeensy \o <<m, "NL">>
  BY DEF RequestModeChange
<1>3. /\ toTeensy = << >> /\ commandBuffer = << >> /\ pendingMode = NoMode
      /\ ~newCommand /\ at # "process" /\ NoChange(Transit)
  BY <1>2, Settled
<1> DEFINE sent == <<m, "NL">>
<1>4. /\ sent \in Seq(Modes \cup {"NL"}) /\ Len(sent) = 2
      /\ sent[1] = m /\ sent[2] = "NL"
  OBVIOUS
<1> HIDE DEF sent
<1>5. toTeensy' = sent
  <2>1. toTeensy' = << >> \o sent
    BY <1>2, <1>3 DEF sent
  <2>2. QED
    BY <1>4, <2>1, ConcatEmptySeq
<1>6. TypeOK'
  BY <1>1, <1>2, <1>4, <1>5 DEF TypeOK, packet, teensy
<1>7. CommandOK'
  BY <1>2, <1>3, <1>4, <1>5 DEF CommandOK, teensy
<1>8. ChangeOK(Transit)'
  <2>1. NoChange(Transit)' /\ OneChange(Transit)'
    BY <1>1, <1>2, <1>3, DropKeepsNoChange, DropKeepsOneChange DEF IInv, ChangeOK, teensy
  <2>2. QED
    BY <1>2, <1>3, <2>1 DEF ChangeOK, Busy, teensy
<1>9. FramesWhole(Transit)' /\ FrameModes(Transit)'
  <2>1. \A i \in 1 .. 0 : Transit[i].tag # "CHANGED"
    OBVIOUS
  <2>2. QED
    BY <1>1, <1>2, <2>1, DropKeepsFrames, DropKeepsFrameModes DEF IInv, teensy
<1>10. InFrame(Transit)'
  <2>1. Transit' = Transit
    BY <1>2 DEF Transit
  <2>2. QED
    BY <1>2, <2>1 DEF IInv, InFrame, packet, teensy
<1>11. QED
  BY <1>6, <1>7, <1>8, <1>9, <1>10 DEF IInv

(* What serialEvent leaves alone when it takes a line that reports no      *)
(* change.                                                                 *)
LEMMA ReadKeepsAllButInFrame ==
  ASSUME IInv, NEW l \in Line, HostReads(l), l.tag # "CHANGED",
         UNCHANGED <<currentMode, modeChanging>>, TypeOK'
  PROVE  CommandOK' /\ ChangeOK(Transit)' /\ FramesWhole(Transit)' /\ FrameModes(Transit)'
<1>1. /\ TypeOK /\ Dropped(1) /\ Transit[1] = l
  BY ReadDropsOne DEF IInv
<1>2. UNCHANGED <<toTeensy, wire, teensy, lost>>
  BY DEF HostReads
<1>3. CommandOK'
  BY <1>2 DEF IInv, CommandOK, teensy
<1>4. ChangeOK(Transit)'
  <2>1. NoChange(Transit) => NoChange(Transit)'
    BY <1>1, DropKeepsNoChange
  <2>2. OneChange(Transit)'
    BY <1>1, <1>2, DropKeepsOneChange DEF IInv, ChangeOK, teensy
  <2>3. QED
    BY <1>2, <2>1, <2>2 DEF IInv, ChangeOK, Busy, teensy
<1>5. FramesWhole(Transit)' /\ FrameModes(Transit)'
  <2>1. \A i \in 1 .. 1 : Transit[i].tag # "CHANGED"
    BY <1>1
  <2>2. QED
    BY <1>1, <1>2, <2>1, DropKeepsFrames, DropKeepsFrameModes DEF IInv, teensy
<1>6. QED
  BY <1>3, <1>4, <1>5

(* What follows the oldest line when that is a line of a frame.            *)
LEMMA NextInFrame ==
  ASSUME IInv, NEW l \in Line, HostReads(l)
  PROVE  /\ l.tag = "START" => IF Transit' = << >> THEN at' = "data" ELSE Transit'[1].tag = "DATA"
         /\ l.tag = "DATA"  => IF Transit' = << >> THEN at' = "end" ELSE Transit'[1].tag = "END"
         /\ inFFTPacket => l.tag = "DATA"
         /\ ~lost /\ receivingData /\ ~modeChanging =>
              l.tag = "DATA" \/ (l.tag = "END" /\ parsed = currentMode)
         /\ ~lost /\ IsFrame(l) => l.mode = currentMode
<1>1. TypeOK /\ Dropped(1) /\ Transit[1] = l /\ Len(Transit) >= 1
  BY ReadDropsOne DEF IInv
<1>2. at' = at /\ ~clearing
  BY DEF HostReads, teensy
<1>3. Transit \in Seq(Line) /\ 1 \in 1 .. Len(Transit) /\ Transit # << >>
  BY <1>1, TransitType
<1>4. Transit' = << >> => ~(1 < Len(Transit))
  <2>1. Len(<< >>) = 0
    OBVIOUS
  <2>2. Transit' = << >> => Len(Transit) - 1 = 0
    BY <1>1, <2>1 DEF Dropped
  <2>3. Len(Transit) \in Nat
    BY <1>3
  <2> DEFINE n == Len(Transit)
             none == Transit' = << >>
  <2>4. n \in Nat /\ (none => n - 1 = 0)
    BY <2>2, <2>3
  <2> HIDE DEF n, none
  <2>5. none => ~(1 < n)
    BY <2>4
  <2>6. QED
    BY <2>5 DEF n, none
<1>5. Transit' # << >> => 1 < Len(Transit) /\ Transit'[1] = Transit[1 + 1]
  <2> SUFFICES ASSUME Transit' # << >>
               PROVE  1 < Len(Transit) /\ Transit'[1] = Transit[1 + 1]
    OBVIOUS
  <2>1. Transit' \in Seq(Line)
    BY <1>1 DEF Dropped
  <2>2. Len(Transit') \in Nat /\ Len(Transit') # 0
    BY <2>1, EmptySeq
  <2>3. 1 \in 1 .. Len(Transit')
    BY <2>2
  <2>4. QED
    BY <1>1, <1>3, <2>2, <2>3 DEF Dropped
<1>6. FramesWhole(Transit) /\ InFrame(Transit) /\ FrameModes(Transit)
  BY DEF IInv
<1>7. /\ l.tag = "START" => IF Transit' = << >> THEN at' = "data" ELSE Transit'[1].tag = "DATA"
      /\ l.tag = "DATA"  => IF Transit' = << >> THEN at' = "end" ELSE Transit'[1].tag = "END"
  BY <1>1, <1>2, <1>3, <1>4, <1>5, <1>6 DEF FramesWhole
<1>8. /\ inFFTPacket => l.tag = "DATA"
      /\ ~lost /\ receivingData /\ ~modeChanging =>
           l.tag = "DATA" \/ (l.tag = "END" /\ parsed = currentMode)
  BY <1>1, <1>2, <1>3, <1>6 DEF InFrame
<1>9. ~lost /\ NoChange(Transit) /\ IsFrame(l) => l.mode = currentMode
  BY <1>1, <1>3, <1>6 DEF FrameModes
<1>10. ~lost /\ IsFrame(l) /\ ~NoChange(Transit) => l.mode = currentMode
  <2> SUFFICES ASSUME ~lost, IsFrame(l), NEW c \in 1 .. Len(Transit), Transit[c].tag = "CHANGED"
               PROVE  l.mode = currentMode
    BY DEF NoChange
  <2>1. c # 1
    BY <1>1 DEF IsFrame
  <2>2. 1 < c
    BY <1>3, <2>1
  <2>3. QED
    BY <1>1, <1>3, <1>6, <2>2 DEF FrameModes
<1>11. QED
  BY <1>7, <1>8, <1>9, <1>10

(* serialEvent, ACK: the answer changes nothing but what the host waits    *)
(* for; in the middle of a frame of a settled mode it does not come.       *)
LEMMA ReadAckKeepsIInv ==
  ASSUME IInv, HostReadsAck
  PROVE  IInv'
<1>1. PICK l \in Line : /\ HostReads(l) /\ ~inFFTPacket /\ l.tag = "ACK"
                        /\ waitingForAck' = FALSE
                        /\ clearing' = waitingForAck
                        /\ UNCHANGED <<currentMode, modeChanging, packet>>
  BY DEF HostReadsAck
<1>2. TypeOK'
  <2>1. inbox' \in Seq(Line) /\ Len(inbox') <= MaxInbox /\ wire' = wire
    BY <1>1, ReadDropsOne DEF IInv
  <2>2. QED
    BY <1>1, <2>1 DEF IInv, TypeOK, HostReads, packet, teensy
<1>3. CommandOK' /\ ChangeOK(Transit)' /\ FramesWhole(Transit)' /\ FrameModes(Transit)'
  BY <1>1, <1>2, ReadKeepsAllButInFrame DEF packet
<1>4. InFrame(Transit)'
  <2>1. ~lost /\ receivingData => modeChanging
    BY <1>1, NextInFrame
  <2>2. ~clearing /\ lost' = lost
    BY <1>1 DEF HostReads
  <2>3. QED
    BY <1>1, <2>1, <2>2 DEF IInv, InFrame, packet
<1>5. QED
  BY <1>2, <1>3, <1>4 DEF IInv

(* serialEvent, MODE_CHANGED: it was the only such line, and every frame   *)
(* behind it is in the mode the host is in now.                            *)
LEMMA ReadModeChangedKeepsIInv ==
  ASSUME IInv, HostReadsModeChanged
  PROVE  IInv'
<1>1. PICK l \in Line : /\ HostReads(l) /\ ~inFFTPacket /\ l.tag = "CHANGED"
                        /\ currentMode' = l.mode
                        /\ modeChanging' = FALSE
                        /\ clearing' = TRUE
                        /\ UNCHANGED <<waitingForAck, packet>>
  BY DEF HostReadsModeChanged
<1>2. /\ TypeOK /\ Dropped(1) /\ Transit[1] = l /\ Len(Transit) >= 1
      /\ inbox' \in Seq(Line) /\ Len(inbox') <= MaxInbox /\ wire' = wire
  BY <1>1, ReadDropsOne DEF IInv
<1>3. UNCHANGED <<toTeensy, wire, teensy, lost>>
  BY <1>1 DEF HostReads
<1>4. l.mode \in Modes
  BY DEF Line
<1>5. TypeOK'
  BY <1>1, <1>2, <1>3, <1>4 DEF TypeOK, packet, teensy
<1>6. CommandOK'
  BY <1>3 DEF IInv, CommandOK, teensy
<1>7. /\ 1 \in 1 .. Len(Transit) /\ OneChange(Transit)
      /\ \A i \in 1 .. Len(Transit') :
           i + 1 \in 1 .. Len(Transit) /\ i + 1 # 1 /\ Transit'[i] = Transit[i + 1]
  <2>1. Len(Transit) \in Nat
    BY <1>2, TransitType
  <2>2. \A i \in 1 .. Len(Transit') : i + 1 \in 1 .. Len(Transit) /\ i + 1 # 1
    BY <1>2, <2>1 DEF Dropped
  <2>3. QED
    BY <1>2, <2>1, <2>2 DEF Dropped, IInv, ChangeOK
<1>8. l.mode = debugMode /\ ~NoChange(Transit) /\ NoChange(Transit)'
  BY <1>1, <1>2, <1>7 DEF OneChange, NoChange
<1>9. ChangeOK(Transit)'
  <2>1. ~Busy
    BY <1>8 DEF IInv, ChangeOK
  <2>2. OneChange(Transit)'
    BY <1>2, <1>3, <1>7, DropKeepsOneChange DEF teensy
  <2>3. QED
    BY <1>1, <1>3, <1>8, <2>1, <2>2 DEF ChangeOK, Busy, teensy
<1>10. FramesWhole(Transit)'
  BY <1>2, <1>3, DropKeepsFrames DEF IInv, teensy
<1>11. FrameModes(Transit)'
  <2> SUFFICES ASSUME ~lost, NEW i \in 1 .. Len(Transit'), IsFrame(Transit'[i])
               PROVE  Transit'[i].mode = debugMode
    BY <1>1, <1>3, <1>8 DEF FrameModes, NoChange, teensy
  <2>1. i + 1 \in 1 .. Len(Transit) /\ IsFrame(Transit[i + 1]) /\ Transit'[i] = Transit[i + 1]
    BY <1>7
  <2>2. ~(i + 1 < 1)
    BY <1>7
  <2>3. Transit[i + 1].mode = debugMode
    BY <1>1, <1>2, <1>7, <2>1, <2>2 DEF IInv, FrameModes
  <2>4. QED
    BY <2>1, <2>3
<1>12. InFrame(Transit)'
  BY <1>1 DEF InFrame, packet
<1>13. QED
  BY <1>5, <1>6, <1>9, <1>10, <1>11, <1>12 DEF IInv

(* myPort.clear(): the host is in the middle of nothing, and an answer     *)
(* that was in the receive buffer is lost.                                 *)
LEMMA ClearKeepsIInv ==
  ASSUME IInv, HostClears
  PROVE  IInv'
<1> DEFINE k == Len(inbox)
<1>1. /\ TypeOK /\ Dropped(k) /\ inbox' \in Seq(Line) /\ Len(inbox') = 0 /\ wire' = wire
  BY ClearDropsInbox DEF IInv
<1>2. /\ clearing' = FALSE /\ inFFTPacket' = FALSE /\ receivingData' = FALSE
      /\ lost' = (lost \/ \E l \in ToSet(inbox) : l.tag \in {"ACK", "CHANGED"})
      /\ UNCHANGED <<flags, parsed, toTeensy, wire, teensy>>
  BY DEF HostClears
<1>3. TypeOK'
  <2>1. 0 <= MaxInbox
    BY ModeSwitchAssumption
  <2>2. QED
    BY <1>1, <1>2, <2>1 DEF TypeOK, flags, teensy
<1>4. CommandOK'
  BY <1>2 DEF IInv, CommandOK, teensy
<1>5. ChangeOK(Transit)'
  <2>1. NoChange(Transit) => NoChange(Transit)'
    BY <1>1, DropKeepsNoChange
  <2>2. OneChange(Transit)'
    BY <1>1, <1>2, DropKeepsOneChange DEF IInv, ChangeOK, teensy
  <2>3. QED
    BY <1>2, <2>1, <2>2 DEF IInv, ChangeOK, Busy, flags, teensy
<1>6. FramesWhole(Transit)'
  BY <1>1, <1>2, DropKeepsFrames DEF IInv, teensy
<1>7. FrameModes(Transit)'
  <2>1. ASSUME ~lost', NEW i \in 1 .. k
        PROVE  Transit[i].tag # "CHANGED"
    <3>1. inbox[i] \in ToSet(inbox)
      BY <1>1 DEF ToSet, TypeOK
    <3>2. inbox[i].tag # "CHANGED"
      BY <1>2, <2>1, <3>1
    <3>3. Transit[i] = inbox[i]
      BY <1>1, TransitType
    <3>4. QED
      BY <3>2, <3>3
  <2>2. ~lost' => ~lost
    BY <1>2
  <2> HIDE DEF k
  <2>3. UNCHANGED <<currentMode, debugMode>>
    BY <1>2 DEF flags, teensy
  <2>4. QED
    BY <1>1, <2>1, <2>2, <2>3, DropKeepsFrameModes DEF IInv
<1>8. InFrame(Transit)'
  BY <1>2 DEF InFrame
<1>9. QED
  BY <1>3, <1>4, <1>5, <1>6, <1>7, <1>8 DEF IInv

(* serialEvent in the FFT mode: behind the start of a packet are its       *)
(* values.                                                                 *)
LEMMA ReadFftKeepsIInv ==
  ASSUME IInv, HostReadsFft
  PROVE  IInv'
<1>1. PICK l \in Line :
        /\ HostReads(l)
        /\ \/ /\ inFFTPacket
              /\ inFFTPacket' = FALSE
              /\ parsed' = l.mode
           \/ /\ ~inFFTPacket /\ l.tag \in {"START", "END"} /\ Kind[l.mode] = "fft"
              /\ inFFTPacket' = (l.tag = "START")
              /\ UNCHANGED parsed
        /\ UNCHANGED <<flags, clearing, receivingData>>
  BY DEF HostReadsFft
<1>2. /\ inFFTPacket => l.tag = "DATA"
      /\ l.tag = "START" => IF Transit' = << >> THEN at' = "data" ELSE Transit'[1].tag = "DATA"
      /\ l.tag = "DATA"  => IF Transit' = << >> THEN at' = "end" ELSE Transit'[1].tag = "END"
      /\ ~lost /\ receivingData /\ ~modeChanging =>
           l.tag = "DATA" \/ (l.tag = "END" /\ parsed = currentMode)
      /\ ~lost /\ IsFrame(l) => l.mode = currentMode
  BY <1>1, NextInFrame
<1>3. TypeOK'
  <2>1. inbox' \in Seq(Line) /\ Len(inbox') <= MaxInbox /\ wire' = wire
    BY <1>1, ReadDropsOne DEF IInv
  <2>2. l.mode \in Modes
    BY DEF Line
  <2>3. inFFTPacket' \in BOOLEAN /\ parsed' \in Modes \cup {NoMode}
    BY <1>1, <2>2 DEF IInv, TypeOK
  <2>4. QED
    BY <1>1, <2>1, <2>3 DEF IInv, TypeOK, HostReads, flags, teensy
<1>4. CommandOK' /\ ChangeOK(Transit)' /\ FramesWhole(Transit)' /\ FrameModes(Transit)'
  BY <1>1, <1>2, <1>3, ReadKeepsAllButInFrame DEF flags
<1>5. InFrame(Transit)'
  <2>1. ~clearing /\ lost' = lost /\ UNCHANGED <<currentMode, modeChanging>>
    BY <1>1 DEF HostReads, flags
  <2>2. CASE inFFTPacket
    <3>1. l.tag = "DATA" /\ (~lost => parsed' = currentMode)
      BY <1>1, <1>2, <2>2 DEF IsFrame
    <3>2. QED
      BY <1>1, <1>2, <2>1, <2>2, <3>1 DEF IInv, InFrame
  <2>3. CASE ~inFFTPacket
    <3>1. ~(~lost /\ receivingData /\ ~modeChanging)
      <4> SUFFICES ASSUME ~lost, receivingData, ~modeChanging PROVE FALSE
        OBVIOUS
      <4>1. l.tag = "END" /\ Kind[l.mode] = "fft" /\ l.mode = currentMode
        BY <1>1, <1>2, <2>3 DEF IsFrame
      <4>2. QED
        BY <2>1, <4>1 DEF IInv, InFrame
    <3>2. QED
      BY <1>1, <1>2, <2>1, <2>3, <3>1 DEF IInv, InFrame
  <2>4. QED
    BY <2>2, <2>3
<1>6. QED
  BY <1>3, <1>4, <1>5 DEF IInv

(* serialEvent_corr and its kin: the values come before the end, so at the *)
(* end the values are those of the frame.                                  *)
LEMMA ReadTextKeepsIInv ==
  ASSUME IInv, HostReadsText
  PROVE  IInv'
<1>1. PICK l \in Line :
        /\ HostReads(l) /\ ~inFFTPacket /\ IsText(l)
        /\ IF modeChanging \/ Kind[currentMode] = "fft"
             THEN UNCHANGED <<receivingData, parsed>>
             ELSE IF l.tag \in {"START", "END"} /\ Kind[l.mode] = Kind[currentMode]
               THEN receivingData' = (l.tag = "START") /\ UNCHANGED parsed
               ELSE /\ parsed' = IF receivingData THEN l.mode ELSE parsed
                    /\ UNCHANGED receivingData
        /\ UNCHANGED <<flags, clearing, inFFTPacket>>
  BY DEF HostReadsText
<1>2. /\ l.tag = "START" => IF Transit' = << >> THEN at' = "data" ELSE Transit'[1].tag = "DATA"
      /\ l.tag = "DATA"  => IF Transit' = << >> THEN at' = "end" ELSE Transit'[1].tag = "END"
      /\ ~lost /\ receivingData /\ ~modeChanging =>
           l.tag = "DATA" \/ (l.tag = "END" /\ parsed = currentMode)
      /\ ~lost /\ IsFrame(l) => l.mode = currentMode
  BY <1>1, NextInFrame
<1>3. TypeOK'
  <2>1. inbox' \in Seq(Line) /\ Len(inbox') <= MaxInbox /\ wire' = wire
    BY <1>1, ReadDropsOne DEF IInv
  <2>2. l.mode \in Modes
    BY DEF Line
  <2>3. receivingData' \in BOOLEAN /\ parsed' \in Modes \cup {NoMode}
    BY <1>1, <2>2 DEF IInv, TypeOK
  <2>4. QED
    BY <1>1, <2>1, <2>3 DEF IInv, TypeOK, HostReads, flags, teensy
<1>4. CommandOK' /\ ChangeOK(Transit)' /\ FramesWhole(Transit)' /\ FrameModes(Transit)'
  <2>1. l.tag # "CHANGED"
    BY <1>1 DEF IsText
  <2>2. QED
    BY <1>1, <1>3, <2>1, ReadKeepsAllButInFrame DEF flags
<1>5. InFrame(Transit)'
  <2>1. ~clearing /\ lost' = lost /\ UNCHANGED <<currentMode, modeChanging, clearing, inFFTPacket>>
    BY <1>1 DEF HostReads, flags
  <2>2. inFFTPacket' = FALSE
    BY <1>1, <2>1 DEF IInv, TypeOK
  <2>3. receivingData' => Kind[currentMode] # "fft"
    BY <1>1, <2>1 DEF IInv, InFrame
  <2>4. ASSUME ~lost, receivingData', ~modeChanging
        PROVE  IF Transit' = << >> THEN at' = "data" \/ (at' = "end" /\ parsed' = currentMode)
               ELSE Transit'[1].tag = "DATA" \/ (Transit'[1].tag = "END" /\ parsed' = currentMode)
    <3>1. Kind[currentMode] # "fft"
      BY <2>3, <2>4
    <3>2. CASE l.tag \in {"START", "END"} /\ Kind[l.mode] = Kind[currentMode]
      <4>1. l.tag = "START"
        BY <1>1, <2>4, <3>1, <3>2
      <4>2. QED
        BY <1>2, <4>1
    <3>3. CASE ~(l.tag \in {"START", "END"} /\ Kind[l.mode] = Kind[currentMode])
      <4>1. receivingData /\ parsed' = IF receivingData THEN l.mode ELSE parsed
        BY <1>1, <2>4, <3>1, <3>3
      <4>2. l.tag \in {"DATA", "END"} => l.mode = currentMode
        BY <1>2, <2>4 DEF IsFrame
      <4>3. l.tag = "DATA" /\ parsed' = currentMode
        BY <1>2, <2>4, <3>3, <4>1, <4>2
      <4>4. QED
        BY <1>2, <4>3
    <3>4. QED
      BY <3>2, <3>3
  <2>5. QED
    BY <2>1, <2>2, <2>3, <2>4 DEF InFrame
<1>6. QED
  BY <1>3, <1>4, <1>5 DEF IInv

(* checkSerialCommand: the next word of the command, or its end.           *)
LEMMA ReceiveKeepsIInv ==
  ASSUME IInv, TeensyReceives
  PROVE  IInv'
<1>1. /\ at = "check" /\ at' = "check" /\ toTeensy # << >>
      /\ toTeensy' = Tail(toTeensy)
      /\ IF Head(toTeensy) = "NL"
           THEN /\ newCommand' = (newCommand \/ commandBuffer # << >>)
                /\ UNCHANGED commandBuffer
           ELSE /\ commandBuffer' = Append(commandBuffer, Head(toTeensy))
                /\ UNCHANGED newCommand
      /\ UNCHANGED <<wire, inbox, debugMode, pendingMode, flags, packet, clearing, lost>>
  BY DEF TeensyReceives, TeensyGoes
<1>2. TypeOK /\ Dropped(0) /\ Transit' = Transit
  BY <1>1, TransitStays DEF IInv, Transit
<1> DEFINE Word == Modes \cup {"NL"}
<1>3. toTeensy \in Seq(Word) /\ toTeensy # << >>
  BY <1>1, <1>2 DEF TypeOK
<1>4. Len(<< >>) = 0 /\ Len(toTeensy) \in Nat /\ commandBuffer \in Seq(Modes)
  BY <1>2 DEF TypeOK
<1> HIDE DEF Word
<1> DEFINE rest == Tail(toTeensy)
<1>5. /\ Head(toTeensy) = toTeensy[1]
      /\ rest \in Seq(Word) /\ Len(rest) = Len(toTeensy) - 1
      /\ \A i \in 1 .. Len(rest) : rest[i] = toTeensy[i + 1]
  BY <1>3, HeadTailProperties
<1> HIDE DEF rest
<1>6. \/ /\ Len(toTeensy) = 2 /\ toTeensy[1] \in Modes /\ toTeensy[2] = "NL"
         /\ commandBuffer = << >> /\ ~newCommand
      \/ Len(toTeensy) = 1 /\ toTeensy[1] = "NL" /\ Len(commandBuffer) = 1 /\ ~newCommand
  BY <1>3, <1>4 DEF IInv, CommandOK
<1>7. /\ toTeensy' \in Seq(Modes \cup {"NL"}) /\ commandBuffer' \in Seq(Modes)
      /\ newCommand' \in BOOLEAN
      /\ \/ /\ Len(toTeensy') = 1 /\ toTeensy'[1] = "NL"
            /\ Len(commandBuffer') = 1 /\ ~newCommand'
         \/ toTeensy' = << >> /\ Len(commandBuffer') = 1 /\ newCommand'
  <2>1. toTeensy' = rest
    BY <1>1 DEF rest
  <2>2. CASE /\ Len(toTeensy) = 2 /\ toTeensy[1] \in Modes /\ toTeensy[2] = "NL"
             /\ commandBuffer = << >> /\ ~newCommand
    <3>1. Len(rest) = 1 /\ rest[1] = "NL"
      <4>1. Len(rest) = 1
        BY <1>5, <2>2
      <4>2. 1 \in 1 .. Len(rest) /\ 1 + 1 = 2
        BY <4>1
      <4>3. rest[1] = toTeensy[1 + 1]
        BY <1>5, <4>2
      <4>4. QED
        BY <2>2, <4>1, <4>2, <4>3
    <3>2. Head(toTeensy) \in Modes /\ Head(toTeensy) # "NL"
      BY <1>5, <2>2, ModeSwitchAssumption
    <3>3. commandBuffer' = Append(<< >>, Head(toTeensy)) /\ newCommand' = newCommand
      BY <1>1, <2>2, <3>2
    <3>4. commandBuffer' \in Seq(Modes) /\ Len(commandBuffer') = 1
      BY <3>2, <3>3
    <3>5. toTeensy' \in Seq(Modes \cup {"NL"})
      BY <1>5, <2>1 DEF Word
    <3>6. newCommand' \in BOOLEAN
      BY <1>2, <3>3 DEF TypeOK
    <3>7. QED
      BY <2>1, <2>2, <3>1, <3>3, <3>4, <3>5, <3>6
  <2>3. CASE Len(toTeensy) = 1 /\ toTeensy[1] = "NL" /\ Len(commandBuffer) = 1 /\ ~newCommand
    <3>1. rest = << >>
      <4>1. Len(rest) = 0 /\ rest \in Seq(Word)
        BY <1>5, <2>3
      <4>2. QED
        BY <4>1, EmptySeq
    <3>2. commandBuffer # << >>
      BY <1>4, <2>3
    <3>3. commandBuffer' = commandBuffer /\ newCommand' = TRUE
      BY <1>1, <1>5, <2>3, <3>2
    <3>4. QED
      BY <1>4, <1>5, <2>1, <2>3, <3>1, <3>3 DEF Word
  <2>4. QED
    BY <1>6, <2>2, <2>3
<1>8. Busy /\ pendingMode = NoMode /\ modeChanging /\ NoChange(Transit)
  BY <1>1 DEF IInv, ChangeOK, Busy
<1>9. TypeOK'
  BY <1>1, <1>2, <1>7 DEF TypeOK, flags, packet
<1>10. CommandOK'
  BY <1>1, <1>7 DEF CommandOK
<1>11. ChangeOK(Transit)'
  <2>1. NoChange(Transit)' /\ OneChange(Transit)'
    BY <1>1, <1>2, <1>8, DropKeepsNoChange, DropKeepsOneChange DEF IInv, ChangeOK
  <2>2. QED
    BY <1>1, <1>8, <2>1 DEF ChangeOK, Busy, flags
<1>12. FramesWhole(Transit)' /\ FrameModes(Transit)'
  <2>1. \A i \in 1 .. 0 : Transit[i].tag # "CHANGED"
    OBVIOUS
  <2>2. QED
    BY <1>1, <1>2, <2>1, DropKeepsFrames, DropKeepsFrameModes DEF IInv, flags
<1>13. InFrame(Transit)'
  BY <1>1, <1>2 DEF IInv, InFrame, packet, flags
<1>14. QED
  BY <1>9, <1>10, <1>11, <1>12, <1>13 DEF IInv

(* A step of the Teensy's loop that is no part of a frame and prints       *)
(* nothing.                                                                *)
LEMMA SilentStepKeepsIInv ==
  ASSUME IInv, NEW from, NEW to, TeensyGoes(from, to), from \notin {"data", "end"},
         to \in {"process", "audio", "apply", "start", "check"}, to = "process" => newCommand,
         UNCHANGED <<toTeensy, wire, debugMode, pendingMode, commandBuffer, newCommand>>
  PROVE  IInv'
<1>1. /\ at = from /\ at' = to
      /\ UNCHANGED <<wire, inbox, flags, packet, clearing, lost>>
  BY DEF TeensyGoes
<1>2. TypeOK /\ Dropped(0) /\ Transit' = Transit
  BY <1>1, TransitStays DEF IInv, Transit
<1>3. TypeOK'
  BY <1>1, <1>2 DEF TypeOK, flags, packet
<1>4. CommandOK'
  BY <1>1 DEF IInv, CommandOK
<1>5. ChangeOK(Transit)'
  <2>1. NoChange(Transit) => NoChange(Transit)'
    BY <1>2, DropKeepsNoChange
  <2>2. OneChange(Transit)'
    BY <1>2, DropKeepsOneChange DEF IInv, ChangeOK
  <2>3. QED
    BY <1>1, <2>1, <2>2 DEF IInv, ChangeOK, Busy, flags
<1>6. FramesWhole(Transit)' /\ FrameModes(Transit)'
  <2>1. \A i \in 1 .. 0 : Transit[i].tag # "CHANGED"
    OBVIOUS
  <2>2. QED
    BY <1>1, <1>2, <2>1, DropKeepsFrames, DropKeepsFrameModes DEF IInv, flags
<1>7. InFrame(Transit)'
  BY <1>1, <1>2 DEF IInv, InFrame, packet, flags
<1>8. QED
  BY <1>3, <1>4, <1>5, <1>6, <1>7 DEF IInv

(* What a line that the Teensy prints does to the host's place in a frame. *)
LEMMA PrintKeepsInFrame ==
  ASSUME IInv, NEW l \in Line, Sent(l), UNCHANGED <<flags, packet, clearing, lost>>,
         at = "data" => l.tag = "DATA", at = "end" => l.tag = "END"
  PROVE  InFrame(Transit)'
<1>1. TypeOK /\ Transit \in Seq(Line) /\ Len(Transit) \in Nat
  BY TransitType DEF IInv
<1>2. Transit' # << >>
  <2>1. Len(Transit') # 0
    BY <1>1 DEF Sent
  <2>2. Len(<< >>) = 0
    OBVIOUS
  <2>3. QED
    BY <2>1, <2>2
<1>3. Transit = << >> => Transit'[1] = l
  <2>1. Transit = << >> => Len(Transit) + 1 = 1
    <3>1. Len(<< >>) = 0
      OBVIOUS
    <3>2. QED
      BY <3>1
  <2>2. QED
    BY <2>1 DEF Sent
<1>4. Transit # << >> => Transit'[1] = Transit[1]
  <2>1. Transit # << >> => Len(Transit) # 0
    BY <1>1, EmptySeq
  <2>2. Transit # << >> => 1 \in 1 .. Len(Transit)
    BY <1>1, <2>1
  <2>3. QED
    BY <2>2 DEF Sent
<1>5. QED
  BY <1>2, <1>3, <1>4 DEF IInv, InFrame, flags, packet

(* processCommand: the buffer holds one word, the name of a mode, so the   *)
(* answer is ACK.                                                          *)
LEMMA ProcessKeepsIInv ==
  ASSUME IInv, ProcessCommand
  PROVE  IInv'
<1>1. /\ at = "process" /\ at' = "audio"
      /\ commandBuffer' = << >> /\ newCommand' = FALSE
      /\ UNCHANGED <<toTeensy, debugMode, inbox, flags, packet, clearing, lost>>
  BY DEF ProcessCommand, TeensyGoes
<1>2. /\ TypeOK /\ newCommand /\ Len(commandBuffer) = 1 /\ toTeensy = << >>
      /\ commandBuffer # << >>
  <2>1. newCommand
    BY <1>1 DEF IInv, CommandOK
  <2>2. Len(commandBuffer) = 1 /\ toTeensy = << >>
    BY <2>1 DEF IInv, CommandOK
  <2>3. commandBuffer # << >>
    <3>1. Len(<< >>) = 0
      OBVIOUS
    <3>2. QED
      BY <2>2, <3>1
  <2>4. QED
    BY <2>1, <2>2, <2>3 DEF IInv
<1>3. /\ pendingMode' = commandBuffer[1] /\ Sends("ACK", commandBuffer[1])
      /\ commandBuffer[1] \in Modes
  BY <1>2 DEF ProcessCommand, TypeOK
<1> DEFINE l == [tag |-> "ACK", mode |-> commandBuffer[1]]
<1>4. l \in Line /\ l.tag = "ACK" /\ l.mode = commandBuffer[1]
  BY <1>3 DEF Line
<1>5. Sends(l.tag, l.mode)
  BY <1>3, <1>4
<1> HIDE DEF l
<1>6. Sent(l) /\ wire' \in Seq(Line) /\ Len(wire') <= MaxWire
  BY <1>1, <1>2, <1>4, <1>5, SendAppends
<1>7. modeChanging /\ NoChange(Transit) /\ OneChange(Transit)
  BY <1>2 DEF IInv, ChangeOK, Busy
<1>8. TypeOK'
  <2>1. commandBuffer' \in Seq(Modes) /\ newCommand' \in BOOLEAN
    <3>1. << >> \in Seq(Modes) /\ FALSE \in BOOLEAN
      OBVIOUS
    <3>2. QED
      BY <1>1, <3>1
  <2>2. pendingMode' \in Modes
    BY <1>3
  <2>3. QED
    BY <1>1, <1>2, <1>6, <2>1, <2>2 DEF TypeOK, flags, packet
<1>9. CommandOK'
  BY <1>1, <1>2 DEF CommandOK
<1>10. ChangeOK(Transit)'
  <2>1. NoChange(Transit)' /\ OneChange(Transit)'
    BY <1>1, <1>2, <1>4, <1>6, <1>7, SendKeepsNoChange, SendKeepsOneChange
  <2>2. QED
    BY <1>1, <1>2, <1>7, <2>1 DEF ChangeOK, Busy, flags
<1>11. FramesWhole(Transit)'
  BY <1>1, <1>2, <1>4, <1>6, SentFacts DEF IInv, FramesWhole
<1>12. FrameModes(Transit)'
  BY <1>1, <1>2, <1>4, <1>6, SendKeepsFrameModes DEF IInv, IsFrame, flags
<1>13. InFrame(Transit)'
  BY <1>1, <1>4, <1>6, PrintKeepsInFrame
<1>14. QED
  BY <1>8, <1>9, <1>10, <1>11, <1>12, <1>13 DEF IInv

(* A pending mode is applied before a frame, and reported.                 *)
LEMMA ApplyKeepsIInv ==
  ASSUME IInv, ApplyPendingMode, pendingMode # NoMode
  PROVE  IInv'
<1>1. /\ at = "apply" /\ at' = "start"
      /\ debugMode' = pendingMode /\ Sends("CHANGED", pendingMode)
      /\ pendingMode' = NoMode
      /\ UNCHANGED <<toTeensy, commandBuffer, newCommand, inbox, flags, packet, clearing, lost>>
  BY DEF ApplyPendingMode, TeensyGoes
<1>2. TypeOK /\ pendingMode \in Modes
  BY DEF IInv, TypeOK
<1> DEFINE l == [tag |-> "CHANGED", mode |-> pendingMode]
<1>3. l \in Line /\ l.tag = "CHANGED" /\ l.mode = pendingMode
  BY <1>2 DEF Line
<1>4. Sends(l.tag, l.mode)
  BY <1>1, <1>3
<1> HIDE DEF l
<1>5. Sent(l) /\ wire' \in Seq(Line) /\ Len(wire') <= MaxWire
  BY <1>1, <1>2, <1>3, <1>4, SendAppends
<1>6. /\ modeChanging /\ NoChange(Transit) /\ OneChange(Transit)
      /\ commandBuffer = << >> /\ toTeensy = << >>
  BY DEF IInv, ChangeOK, Busy
<1>7. TypeOK'
  BY <1>1, <1>2, <1>5 DEF TypeOK, flags, packet
<1>8. CommandOK'
  BY <1>1 DEF IInv, CommandOK
<1>9. ChangeOK(Transit)'
  <2>1. OneChange(Transit)'
    BY <1>1, <1>2, <1>3, <1>5, <1>6, SendKeepsOneChange
  <2>2. QED
    BY <1>1, <1>6, <2>1 DEF ChangeOK, Busy, flags
<1>10. FramesWhole(Transit)'
  BY <1>1, <1>2, <1>3, <1>5, SentFacts DEF IInv, FramesWhole
<1>11. FrameModes(Transit)'
  BY <1>1, <1>2, <1>3, <1>5, <1>6, SendKeepsFrameModes DEF IInv, flags
<1>12. InFrame(Transit)'
  BY <1>1, <1>3, <1>5, PrintKeepsInFrame
<1>13. QED
  BY <1>7, <1>8, <1>9, <1>10, <1>11, <1>12 DEF IInv

(* One line of a frame, in the Teensy's mode.                              *)
LEMMA FrameKeepsIInv ==
  ASSUME IInv, SendFrame
  PROVE  IInv'
<1>1. PICK t \in {"START", "DATA", "END"} :
        /\ \/ t = "START" /\ at = "start" /\ at' = "data"
           \/ t = "DATA" /\ at = "data" /\ at' = "end"
           \/ t = "END" /\ at = "end" /\ at' = "check"
        /\ Sends(t, debugMode)
        /\ UNCHANGED <<inbox, flags, packet, clearing, lost>>
        /\ UNCHANGED <<toTeensy, debugMode, pendingMode, commandBuffer, newCommand>>
  BY DEF SendFrame, TeensyGoes
<1>2. TypeOK /\ debugMode \in Modes
  BY DEF IInv, TypeOK
<1> DEFINE l == [tag |-> t, mode |-> debugMode]
<1>3. l \in Line /\ l.tag = t /\ l.mode = debugMode
  BY <1>2 DEF Line
<1>4. Sends(l.tag, l.mode)
  BY <1>1, <1>3
<1> HIDE DEF l
<1>5. Sent(l) /\ wire' \in Seq(Line) /\ Len(wire') <= MaxWire
  BY <1>1, <1>2, <1>3, <1>4, SendAppends
<1>6. TypeOK'
  BY <1>1, <1>2, <1>5 DEF TypeOK, flags, packet
<1>7. CommandOK'
  BY <1>1 DEF IInv, CommandOK
<1>8. l.tag \notin {"CHANGED", "ERROR"}
  BY <1>1, <1>3
<1>9. ChangeOK(Transit)'
  <2>1. NoChange(Transit) => NoChange(Transit)'
    BY <1>2, <1>5, <1>8, SendKeepsNoChange
  <2>2. OneChange(Transit)'
    BY <1>1, <1>2, <1>5, <1>8, SendKeepsOneChange DEF IInv, ChangeOK
  <2>3. QED
    BY <1>1, <2>1, <2>2 DEF IInv, ChangeOK, Busy, flags
<1>10. FramesWhole(Transit)'
  <2> SUFFICES ASSUME NEW i \in 1 .. Len(Transit')
               PROVE  /\ Transit'[i].tag = "START" =>
                           IF i < Len(Transit') THEN Transit'[i + 1].tag = "DATA" ELSE at' = "data"
                      /\ Transit'[i].tag = "DATA"  =>
                           IF i < Len(Transit') THEN Transit'[i + 1].tag = "END"  ELSE at' = "end"
    BY DEF FramesWhole
  <2> DEFINE n == Len(Transit)
  <2>1. n \in Nat /\ Len(Transit') = n + 1 /\ (i \in 1 .. n \/ i = n + 1)
    BY <1>2, <1>5, SentFacts
  <2>2. CASE i = n + 1
    <3>1. Transit'[i] = l /\ ~(i < Len(Transit'))
      BY <1>2, <1>5, <2>1, <2>2, SentFacts
    <3>2. QED
      BY <1>1, <1>3, <3>1
  <2>3. CASE i \in 1 .. n
    <3>1. Transit'[i] = Transit[i] /\ i < Len(Transit')
      BY <1>2, <1>5, <2>3, SentFacts
    <3>2. CASE i < n
      <4>1. i + 1 \in 1 .. n
        BY <2>1, <2>3, <3>2
      <4>2. Transit'[i + 1] = Transit[i + 1]
        BY <1>2, <1>5, <4>1, SentFacts
      <4>3. QED
        BY <2>3, <3>1, <3>2, <4>2 DEF IInv, FramesWhole
    <3>3. CASE ~(i < n)
      <4>1. i + 1 = Len(Transit')
        BY <2>1, <2>3, <3>3
      <4>2. Transit'[i + 1] = l
        BY <1>2, <1>5, <4>1, SentFacts
      <4>3. QED
        BY <1>1, <1>3, <2>3, <3>1, <3>3, <4>2 DEF IInv, FramesWhole
    <3>4. QED
      BY <3>2, <3>3
  <2>4. QED
    BY <2>1, <2>2, <2>3
<1>11. FrameModes(Transit)'
  BY <1>1, <1>2, <1>3, <1>5, <1>8, SendKeepsFrameModes DEF IInv, flags
<1>12. InFrame(Transit)'
  BY <1>1, <1>3, <1>5, PrintKeepsInFrame
<1>13. QED
  BY <1>6, <1>7, <1>9, <1>10, <1>11, <1>12 DEF IInv

(* A line in the receive buffer is as much in transit as one on the wire.  *)
LEMMA DeliverKeepsIInv ==
  ASSUME IInv, Deliver
  PROVE  IInv'
<1>1. /\ TypeOK /\ Dropped(0)
      /\ wire' \in Seq(Line) /\ Len(wire') <= MaxWire
      /\ inbox' \in Seq(Line) /\ Len(inbox') <= MaxInbox
  BY DeliverKeepsTransit DEF IInv
<1>2. UNCHANGED <<flags, packet, clearing, toTeensy, teensy, lost>>
  BY DEF Deliver
<1>3. TypeOK'
  BY <1>1, <1>2 DEF TypeOK, flags, packet, teensy
<1>4. CommandOK'
  BY <1>2 DEF IInv, CommandOK, teensy
<1>5. ChangeOK(Transit)'
  <2>1. NoChange(Transit) => NoChange(Transit)'
    BY <1>1, DropKeepsNoChange
  <2>2. OneChange(Transit)'
    BY <1>1, <1>2, DropKeepsOneChange DEF IInv, ChangeOK, teensy
  <2>3. QED
    BY <1>2, <2>1, <2>2 DEF IInv, ChangeOK, Busy, flags, teensy
<1>6. FramesWhole(Transit)' /\ FrameModes(Transit)'
  <2>1. \A i \in 1 .. 0 : Transit[i].tag # "CHANGED"
    OBVIOUS
  <2>2. QED
    BY <1>1, <1>2, <2>1, DropKeepsFrames, DropKeepsFrameModes DEF IInv, flags, teensy
<1>7. InFrame(Transit)'
  <2>1. Len(Transit) \in Nat /\ Len(Transit') = Len(Transit) /\ Transit \in Seq(Line)
        /\ Transit' \in Seq(Line)
    BY <1>1, TransitType DEF Dropped
  <2>2. (Transit' = << >> <=> Transit = << >>)
    BY <2>1, EmptySeq
  <2>3. Transit # << >> => Transit'[1] = Transit[1]
    <3>1. Transit # << >> => Len(Transit) # 0
      BY <2>1, EmptySeq
    <3>2. Transit # << >> => 1 \in 1 .. Len(Transit') /\ 1 + 0 = 1
      BY <2>1, <3>1
    <3>3. QED
      BY <1>1, <3>2 DEF Dropped
  <2>4. QED
    BY <1>2, <2>2, <2>3 DEF IInv, InFrame, flags, packet, teensy
<1>8. QED
  BY <1>3, <1>4, <1>5, <1>6, <1>7 DEF IInv

(* Every step of the host, the Teensy and the line keeps the invariant.    *)
THEOREM Invariance == Spec => []IInv
<1>1. IInv /\ [Next]_vars => IInv'
  <2> SUFFICES ASSUME IInv, [Next]_vars PROVE IInv'
    OBVIOUS
  <2>1. ASSUME NEW m \in Modes, RequestModeChange(m) PROVE IInv'
    BY <2>1, RequestKeepsIInv
  <2>2. CASE SerialEvent
    BY <2>2, ReadAckKeepsIInv, ReadModeChangedKeepsIInv, ClearKeepsIInv,
       ReadFftKeepsIInv, ReadTextKeepsIInv DEF SerialEvent
  <2>3. CASE TeensyReceives
    BY <2>3, ReceiveKeepsIInv
  <2>4. CASE FrameCollected \/ NoFrameYet \/ SkipFrame
    <3>1. \E from \in {"audio", "start"}, to \in {"apply", "check"} : TeensyGoes(from, to)
      BY <2>4 DEF FrameCollected, NoFrameYet, SkipFrame
    <3>2. UNCHANGED <<toTeensy, wire, debugMode, pendingMode, commandBuffer, newCommand>>
      BY <2>4 DEF FrameCollected, NoFrameYet, SkipFrame
    <3>3. QED
      BY <3>1, <3>2, SilentStepKeepsIInv
  <2>5. CASE TeensyChecked
    <3>1. /\ UNCHANGED <<toTeensy, wire, debugMode, pendingMode, commandBuffer, newCommand>>
          /\ TeensyGoes("check", IF newCommand THEN "process" ELSE "audio")
      BY <2>5 DEF TeensyChecked
    <3>2. CASE newCommand
      <4>1. TeensyGoes("check", "process")
        BY <3>1, <3>2
      <4>2. QED
        BY <3>1, <3>2, <4>1, SilentStepKeepsIInv
    <3>3. CASE ~newCommand
      <4>1. TeensyGoes("check", "audio")
        BY <3>1, <3>3
      <4>2. QED
        BY <3>1, <4>1, SilentStepKeepsIInv
    <3>4. QED
      BY <3>2, <3>3
  <2>6. CASE ApplyPendingMode
    <3>1. CASE pendingMode = NoMode
      <4>1. /\ TeensyGoes("apply", "start")
            /\ UNCHANGED <<toTeensy, wire, debugMode, pendingMode, commandBuffer, newCommand>>
        BY <2>6, <3>1 DEF ApplyPendingMode
      <4>2. QED
        BY <4>1, SilentStepKeepsIInv
    <3>2. CASE pendingMode # NoMode
      BY <2>6, <3>2, ApplyKeepsIInv
    <3>3. QED
      BY <3>1, <3>2
  <2>7. CASE ProcessCommand \/ SendFrame \/ Deliver
    BY <2>7, ProcessKeepsIInv, FrameKeepsIInv, DeliverKeepsIInv
  <2>8. CASE UNCHANGED vars
    <3>1. Transit' = Transit
      BY <2>8 DEF vars, Transit
    <3>2. TypeOK' /\ CommandOK'
      BY <2>8 DEF IInv, TypeOK, CommandOK, vars, flags, packet, teensy
    <3>3. ChangeOK(Transit)' /\ FramesWhole(Transit)' /\ FrameModes(Transit)' /\ InFrame(Transit)'
      BY <2>8, <3>1 DEF IInv, ChangeOK, Busy, OneChange, NoChange, FramesWhole, FrameModes,
         InFrame, vars, flags, packet, teensy
    <3>4. QED
      BY <3>2, <3>3 DEF IInv
  <2>9. QED
    BY <2>1, <2>2, <2>3, <2>4, <2>5, <2>6, <2>7, <2>8 DEF Next, TeensyLoop
<1>2. QED
  BY <1>1, InitIInv, PTL DEF Spec

-----------------------------------------------------------------------------
(* What the invariant says of the properties                               *)

(* The buffers hold what they are read as, and stay within their bounds.   *)
THEOREM TypeCorrect == Spec => []TypeOK
<1>1. IInv => TypeOK
  BY DEF IInv
<1>2. QED
  BY <1>1, Invariance, PTL

(* requestModeChange, applied by the Teensy: a host that waits for no      *)
(* change shows the mode that the Teensy measures in.                      *)
THEOREM ModesAlwaysAgree == Spec => []ModesAgree
<1>1. IInv => ModesAgree
  <2> SUFFICES ASSUME IInv, ~modeChanging PROVE ModesAgree
    BY DEF ModesAgree
  <2>1. /\ currentMode = debugMode /\ pendingMode = NoMode
        /\ commandBuffer = << >> /\ toTeensy = << >> /\ NoChange(Transit)
    BY Settled
  <2>2. inbox \in Seq(Line) /\ wire \in Seq(Line)
    BY DEF IInv, TypeOK
  <2>3. ASSUME NEW l \in ToSet(wire \o inbox)
        PROVE  l.tag # "CHANGED"
    <3>1. PICK i \in 1 .. Len(wire) + Len(inbox) : l = (wire \o inbox)[i]
      BY <2>2 DEF ToSet
    <3>2. (wire \o inbox)[i] = IF i <= Len(wire) THEN wire[i] ELSE inbox[i - Len(wire)]
      BY <2>2, ConcatProperties
    <3>3. /\ Len(Transit) = Len(inbox) + Len(wire)
          /\ \A j \in 1 .. Len(inbox) : Transit[j] = inbox[j]
          /\ \A j \in 1 .. Len(wire) : Transit[Len(inbox) + j] = wire[j]
      BY TransitType DEF IInv
    <3>4. Len(inbox) \in Nat /\ Len(wire) \in Nat
      BY <2>2
    <3>5. CASE i <= Len(wire)
      <4>1. i \in 1 .. Len(wire) /\ Len(inbox) + i \in 1 .. Len(inbox) + Len(wire)
        BY <3>4, <3>5
      <4>2. l = Transit[Len(inbox) + i]
        BY <3>1, <3>2, <3>3, <3>5, <4>1
      <4>3. QED
        BY <2>1, <3>3, <4>1, <4>2 DEF NoChange
    <3>6. CASE ~(i <= Len(wire))
      <4> DEFINE j == i - Len(wire)
      <4>1. j \in 1 .. Len(inbox) /\ j \in 1 .. Len(inbox) + Len(wire)
        BY <3>4, <3>6
      <4>2. l = Transit[j]
        BY <3>1, <3>2, <3>3, <3>6, <4>1
      <4>3. QED
        BY <2>1, <3>3, <4>1, <4>2 DEF NoChange
    <3>7. QED
      BY <3>5, <3>6
  <2>4. QED
    BY <2>1, <2>3 DEF ModesAgree
<1>2. QED
  BY <1>1, Invariance, PTL

(* checkSerialCommand and processCommand: what is compared with the names  *)
(* of the modes is one whole command.                                      *)
THEOREM CommandsWhole == Spec => []CommandsArriveWhole
<1>1. IInv => CommandsArriveWhole
  <2> SUFFICES ASSUME IInv, NEW l \in ToSet(wire)
               PROVE  l.tag # "ERROR"
    BY DEF CommandsArriveWhole
  <2>1. inbox \in Seq(Line) /\ wire \in Seq(Line)
    BY DEF IInv, TypeOK
  <2>2. PICK i \in 1 .. Len(wire) : l = wire[i]
    BY <2>1 DEF ToSet
  <2>3. Len(Transit) = Len(inbox) + Len(wire) /\ Transit[Len(inbox) + i] = wire[i]
    BY TransitType DEF IInv
  <2>4. Len(inbox) + i \in 1 .. Len(inbox) + Len(wire)
    BY <2>1
  <2>5. QED
    BY <2>2, <2>3, <2>4 DEF IInv, ChangeOK, OneChange
<1>2. QED
  BY <1>1, Invariance, PTL

(* serialEvent and its parsers: as long as no answer was erased, what the  *)
(* host takes for values was measured in the mode it shows, and a frame    *)
(* ends with its own values.                                               *)
THEOREM FramesOfCurrentMode == Spec => FramesAreOfCurrentMode
<1> DEFINE A == \A l \in Line : HostReads(l) /\ ~lost =>
                  /\ parsed' # parsed => l.mode = currentMode
                  /\ l.tag = "END" /\ receivingData /\ ~receivingData' => parsed = currentMode
<1>1. IInv /\ [Next]_vars => A
  <2> SUFFICES ASSUME IInv, [Next]_vars, NEW l \in Line, HostReads(l), ~lost
               PROVE  /\ parsed' # parsed => l.mode = currentMode
                      /\ l.tag = "END" /\ receivingData /\ ~receivingData' =>
                           parsed = currentMode
    OBVIOUS
  <2>1. /\ inFFTPacket => l.tag = "DATA"
        /\ receivingData /\ ~modeChanging =>
             l.tag = "DATA" \/ (l.tag = "END" /\ parsed = currentMode)
        /\ IsFrame(l) => l.mode = currentMode
    BY NextInFrame
  <2>2. CASE UNCHANGED <<parsed, receivingData>>
    BY <2>2
  <2>3. CASE HostReadsFft
    <3>1. /\ receivingData' = receivingData
          /\ parsed' # parsed => inFFTPacket /\ parsed' = l.mode
      BY <2>3 DEF HostReadsFft, HostReads
    <3>2. QED
      BY <2>1, <3>1 DEF IsFrame
  <2>4. CASE HostReadsText
    <3>1. /\ receivingData' # receivingData => ~modeChanging
          /\ parsed' # parsed => receivingData /\ ~modeChanging /\ parsed' = l.mode
      BY <2>4 DEF HostReadsText, HostReads
    <3>2. QED
      BY <2>1, <3>1 DEF IsFrame
  <2>5. CASE HostClears
    BY <2>5 DEF HostClears, HostReads
  <2>6. QED
    BY <2>2, <2>3, <2>4, <2>5
       DEF Next, RequestModeChange, SerialEvent, HostReadsAck, HostReadsModeChanged,
           TeensyReceives, FrameCollected, TeensyLoop, TeensyChecked, ProcessCommand,
           NoFrameYet, ApplyPendingMode, SendFrame, SkipFrame, TeensyGoes, Deliver,
           vars, packet
<1>2. IInv /\ [Next]_vars => [A]_vars
  BY <1>1
<1> HIDE DEF A
<1>3. Spec => [][A]_vars
  BY <1>2, Invariance, PTL DEF Spec
<1>4. QED
  BY <1>3 DEF A, FramesAreOfCurrentMode
=============================================================================
