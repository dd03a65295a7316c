---------------------------- MODULE Ps2Keyboard ----------------------------
(***************************************************************************)
(* The PS/2 keyboard of the vi-move game (game_design/v2_vi_move_game):    *)
(* the interrupt handler that stores scan codes in the circular buffer and *)
(* process_key_input that takes them out, one a frame.                     *)
(*                                                                         *)
(* The handler runs with interrupts disabled, so it is one step; it can    *)
(* come between any two instructions of the main loop, so the places where *)
(* process_key_input reads KEY_BUF_HEAD, reads the buffer and writes       *)
(* KEY_BUF_TAIL are steps of their own.  The reset button restarts the     *)
(* program at any point with its RAM as it was.                            *)
(*                                                                         *)
(* A byte on the wire carries its role for the key it belongs to, which    *)
(* the program does not see.                                               *)
(***************************************************************************)
EXTENDS Naturals, Sequences

CONSTANTS
  Size,       \* KEY_BUF_SIZE, 16
  Code,       \* the scan codes of keys
  Extended,   \* those the keyboard sends after the byte E0
  MaxWire     \* bound on the bytes the keyboard holds back

ASSUME Ps2Assumption ==
  /\ Size \in Nat /\ Size >= 2
  /\ MaxWire \in Nat /\ MaxWire >= 2
  /\ Extended \subseteq Code
  /\ Code \cap {"E0", "F0", "AA", "FA"} = {}

Stored == Code \cup {"E0", "AA", "FA"}
Slot == 0 .. Size - 1

VARIABLES
  wire,          \* the bytes the keyboard has to send
  handshakeDone, \* HANDSHAKE_DONE
  skip,          \* F0_DETECTED
  buffer,        \* KEY_BUFFER
  head,          \* KEY_BUF_HEAD
  tail,          \* KEY_BUF_TAIL
  scanCode,      \* SCAN_CODE_BUFFER, the key being handled
  at,            \* where process_key_input is
  quiet          \* history: no byte has been handled since the reset

ringVars == <<buffer, head, tail, scanCode, at>>
vars == <<wire, handshakeDone, skip, buffer, head, tail, scanCode, at, quiet>>

(* Both pointers stay in the buffer, where the AND behind each increment   *)
(* keeps them, every slot holds a byte that may be stored, and the         *)
(* keyboard holds back no more than MaxWire bytes.                         *)
TypeOK ==
  /\ wire \in Seq([byte : Stored \cup {"F0"},
                   role : {"press", "release", "prefix", "reply"}])
  /\ Len(wire) <= MaxWire
  /\ handshakeDone \in BOOLEAN /\ skip \in BOOLEAN /\ quiet \in BOOLEAN
  /\ buffer \in [Slot -> Stored]
  /\ head \in Slot /\ tail \in Slot
  /\ scanCode \in Stored
  /\ at \in {"check", "load", "advance"}

NextSlot(i) == (i + 1) % Size

SelfTest == [byte |-> "AA", role |-> "reply"]
Acknowledge == [byte |-> "FA", role |-> "reply"]
Prefix(b) == [byte |-> b, role |-> "prefix"]

(* Power on, with RAM that does not hold the magic value.  The keyboard's  *)
(* self test is under way, or its report came while the display was set up *)
(* and was forgotten by the read of KB_PORTA that ends irq_setup.  One     *)
(* value stands for what else RAM holds: no slot of the buffer is read     *)
(* before it is written.                                                   *)
Init ==
  /\ wire \in {<<SelfTest>>, << >>}
  /\ handshakeDone = FALSE
  /\ skip = FALSE
  /\ \E c \in Stored : buffer = [i \in Slot |-> c] /\ scanCode = c
  /\ head = 0 /\ tail = 0
  /\ at = "check"
  /\ quiet = TRUE

-----------------------------------------------------------------------------
(* The keyboard                                                            *)

Sends(bytes) ==
  /\ Len(wire) + Len(bytes) <= MaxWire
  /\ wire' = wire \o bytes
  /\ UNCHANGED <<handshakeDone, skip, ringVars, quiet>>

ExtendedPrefix(c) == IF c \in Extended THEN <<Prefix("E0")>> ELSE << >>

(* A key goes down, or is held down and repeats.                           *)
PressKey(c) == Sends(ExtendedPrefix(c) \o <<[byte |-> c, role |-> "press"]>>)

ReleaseKey(c) ==
  Sends(ExtendedPrefix(c) \o <<Prefix("F0"), [byte |-> c, role |-> "release"]>>)

-----------------------------------------------------------------------------
(* IRQ_HANDLER                                                             *)

Byte == Head(wire).byte

Receives ==
  /\ wire # << >>
  /\ wire' = Tail(wire)
  /\ quiet' = FALSE

(* Until the keyboard has reported its self test, everything else is       *)
(* ignored: all there is until the next reset when the report was missed.  *)
IgnoreEarly ==
  /\ ~handshakeDone
  /\ Receives
  /\ Byte # "AA"
  /\ UNCHANGED <<handshakeDone, skip, ringVars>>

(* The reply FF is the PS/2 reset command: the keyboard drops what it had  *)
(* to send, acknowledges the command and tests itself again.  The handler  *)
(* stores both answers like any scan code.                                 *)
Handshake ==
  /\ ~handshakeDone
  /\ wire # << >>
  /\ Byte = "AA"
  /\ handshakeDone' = TRUE
  /\ wire' = <<Acknowledge, SelfTest>>
  /\ quiet' = FALSE
  /\ UNCHANGED <<skip, ringVars>>

ReceiveF0 ==
  /\ handshakeDone
  /\ Receives
  /\ ~skip /\ Byte = "F0"
  /\ skip' = TRUE
  /\ UNCHANGED <<handshakeDone, ringVars>>

(* Mutant: the state is left only by the next F0.                          *)
SkipReleased_Stays ==
  /\ handshakeDone
  /\ Receives
  /\ skip
  /\ skip' = (Byte # "F0")
  /\ UNCHANGED <<handshakeDone, ringVars>>

SkipReleased ==
  /\ handshakeDone
  /\ Receives
  /\ skip
  /\ skip' = FALSE
  /\ UNCHANGED <<handshakeDone, ringVars>>

(* Mutant: the new head is not cut to the buffer.                          *)
StoreScancode_NoWrap ==
  /\ handshakeDone
  /\ Receives
  /\ ~skip /\ Byte # "F0"
  /\ buffer' = [buffer EXCEPT ![head] = Byte]
  /\ head' = head + 1
  /\ UNCHANGED <<handshakeDone, skip, tail, scanCode, at>>

(* There is no test for a full buffer.                                     *)
StoreScancode ==
  /\ handshakeDone
  /\ Receives
  /\ ~skip /\ Byte # "F0"
  /\ buffer' = [buffer EXCEPT ![head] = Byte]
  /\ head' = NextSlot(head)
  /\ UNCHANGED <<handshakeDone, skip, tail, scanCode, at>>

IrqHandler ==
  IgnoreEarly \/ Handshake \/ ReceiveF0 \/ SkipReleased \/ StoreScancode

-----------------------------------------------------------------------------
(* process_key_input                                                       *)

KeyAvailable ==
  /\ at = "check"
  /\ head # tail
  /\ at' = "load"
  /\ UNCHANGED <<wire, handshakeDone, skip, buffer, head, tail, scanCode, quiet>>

(* Mutant: the slot that will be written next is read.                     *)
LoadKey_AtHead ==
  /\ at = "load"
  /\ scanCode' = buffer[head]
  /\ at' = "advance"
  /\ UNCHANGED <<wire, handshakeDone, skip, buffer, head, tail, quiet>>

LoadKey ==
  /\ at = "load"
  /\ scanCode' = buffer[tail]
  /\ at' = "advance"
  /\ UNCHANGED <<wire, handshakeDone, skip, buffer, head, tail, quiet>>

AdvanceTail ==
  /\ at = "advance"
  /\ tail' = NextSlot(tail)
  /\ at' = "check"
  /\ UNCHANGED <<wire, handshakeDone, skip, buffer, head, scanCode, quiet>>

-----------------------------------------------------------------------------
(* The reset button.  RAM has kept the magic value, so the handshake is    *)
(* taken as done, and any number of bytes arrive while the display is set  *)
(* up and are forgotten by the read of KB_PORTA that ends irq_setup.       *)
WarmReset ==
  /\ \E n \in 0 .. Len(wire) : wire' = SubSeq(wire, n + 1, Len(wire))
  /\ handshakeDone' = TRUE
  /\ skip' = FALSE
  /\ head' = 0 /\ tail' = 0
  /\ at' = "check"
  /\ quiet' = TRUE
  /\ UNCHANGED <<buffer, scanCode>>

Next ==
  \/ \E c \in Code : PressKey(c) \/ ReleaseKey(c)
  \/ IrqHandler
  \/ KeyAvailable \/ LoadKey \/ AdvanceTail
  \/ WarmReset

Spec == Init /\ [][Next]_vars

-----------------------------------------------------------------------------
(* Properties                                                              *)

(* Once the handshake is done a release is never taken for a press, nor a  *)
(* press for a release ("Change the IRQ so that it skips 0xF0 and the one  *)
(* after that", v1_AA_FF_handshake/README.txt), with one exception: the    *)
(* first byte after a reset that came between F0 and the code.             *)
ReleasesAreSkipped ==
  [][ handshakeDone /\ wire # << >> /\ wire' = Tail(wire) /\ ~quiet' =>
        LET sent == Head(wire)
            isKey == sent.role # "release" /\ sent.byte # "F0"
        IN (head' # head) = (isKey \/ (quiet /\ sent.role = "release")) ]_vars

(* How many scan codes wait.  Equal pointers mean an empty buffer, except  *)
(* while process_key_input is past its check, when an interrupt can make   *)
(* them equal by filling it.                                               *)
Waiting ==
  CASE at = "check"   -> (head + Size - tail) % Size
    [] at = "load"    -> IF head = tail THEN Size ELSE (head + Size - tail) % Size
    [] at = "advance" -> (head + Size - NextSlot(tail)) % Size

Oldest == IF at = "advance" THEN NextSlot(tail) ELSE tail

Abstract ==
  INSTANCE KeyQueue WITH
    Capacity <- Size,
    Item <- Stored,
    pending <- [i \in 1 .. Waiting |-> buffer[(Oldest + i - 1) % Size]],
    taken <- scanCode,
    quiet <- quiet

(* Two writers that share a buffer without a lock, and interrupts at any   *)
(* point of the taking, are the queue of KeyQueue.                         *)
KeyQueueSpec == Abstract!Spec
=============================================================================
