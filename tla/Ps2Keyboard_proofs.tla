-------------------------- MODULE Ps2Keyboard_proofs --------------------------
(***************************************************************************)
(* The PS/2 keyboard of the vi-move game, proved for all buffer sizes, all *)
(* scan codes and all bounds on the bytes the keyboard holds back: which   *)
(* bytes the interrupt handler stores, and that the buffer with its two    *)
(* pointers is a queue.                                                    *)
(***************************************************************************)
EXTENDS Ps2Keyboard, SequenceTheorems, TLAPS

Entry == [byte : Stored \cup {"F0"},
          role : {"press", "release", "prefix", "reply"}]

-----------------------------------------------------------------------------
(* The inductive invariant                                                 *)

(* F0 and the code of the released key follow each other on the wire: only *)
(* the first byte can be a released key whose F0 is gone.                  *)
Paired(w) ==
  \A i \in 1 .. Len(w) :
    /\ w[i].role = "release" => w[i].byte \in Code
    /\ w[i].byte = "F0" => i < Len(w) /\ w[i + 1].role = "release"
    /\ w[i].role = "release" /\ i > 1 => w[i - 1].byte = "F0"

(* The handler waits for a released key exactly when one comes next, but   *)
(* for the first byte after a reset.                                       *)
SkipOK ==
  /\ skip => handshakeDone /\ ~quiet /\ wire # << >> /\ wire[1].role = "release"
  /\ handshakeDone /\ wire # << >> /\ wire[1].role = "release" => skip \/ quiet

IInv == TypeOK /\ Paired(wire) /\ SkipOK

-----------------------------------------------------------------------------
(* What happens to the bytes on the wire                                   *)

(* The codes of keys are not the bytes with a meaning of their own.        *)
LEMMA CodeFacts == \A c \in Code : c # "E0" /\ c # "F0" /\ c # "AA"
  BY Ps2Assumption

(* Bytes are added behind those that wait.                                 *)
LEMMA SendFacts ==
  ASSUME NEW w \in Seq(Entry), NEW b \in Seq(Entry), Paired(w), Paired(b),
         b # << >>, b[1].role # "release"
  PROVE  /\ w \o b \in Seq(Entry) /\ Paired(w \o b) /\ w \o b # << >>
         /\ (w \o b)[1] = IF w = << >> THEN b[1] ELSE w[1]
<1> DEFINE s == w \o b
           n == Len(w)
           m == Len(b)
<1>1. /\ s \in Seq(Entry) /\ Len(s) = n + m
      /\ \A i \in 1 .. n + m : s[i] = IF i <= n THEN w[i] ELSE b[i - n]
  BY ConcatProperties
<1>2. n \in Nat /\ m \in Nat \ {0} /\ (n = 0 <=> w = << >>)
  <2>1. n \in Nat /\ m \in Nat
    BY LenProperties
  <2>2. (n = 0 <=> w = << >>) /\ m # 0
    OBVIOUS
  <2>3. QED
    BY <2>1, <2>2
<1>3. /\ \A i \in 1 .. n : /\ w[i].role = "release" => w[i].byte \in Code
                           /\ w[i].byte = "F0" => i < n /\ w[i + 1].role = "release"
                           /\ w[i].role = "release" /\ i > 1 => w[i - 1].byte = "F0"
      /\ \A i \in 1 .. m : /\ b[i].role = "release" => b[i].byte \in Code
                           /\ b[i].byte = "F0" => i < m /\ b[i + 1].role = "release"
                           /\ b[i].role = "release" /\ i > 1 => b[i - 1].byte = "F0"
  BY DEF Paired
<1> HIDE DEF s, n, m
<1>4. ASSUME NEW i \in 1 .. n + m
      PROVE  /\ s[i].role = "release" => s[i].byte \in Code
             /\ s[i].byte = "F0" => i < n + m /\ s[i + 1].role = "release"
             /\ s[i].role = "release" /\ i > 1 => s[i - 1].byte = "F0"
  <2>1. CASE i <= n
    <3>1. i \in 1 .. n /\ s[i] = w[i]
      BY <1>1, <1>2, <2>1
    <3>2. i < n => i + 1 \in 1 .. n + m /\ s[i + 1] = w[i + 1]
      BY <1>1, <1>2, <2>1
    <3>3. i > 1 => i - 1 \in 1 .. n + m /\ s[i - 1] = w[i - 1]
      BY <1>1, <1>2, <2>1
    <3>4. i < n => i < n + m
      BY <1>2
    <3>5. QED
      BY <1>3, <3>1, <3>2, <3>3, <3>4
  <2>2. CASE ~(i <= n)
    <3> DEFINE j == i - n
    <3>1. j \in 1 .. m /\ s[i] = b[j] /\ (j < m => i < n + m)
      BY <1>1, <1>2, <2>2
    <3>2. j < m => s[i + 1] = b[j + 1]
      <4>1. SUFFICES ASSUME j < m PROVE s[i + 1] = b[j + 1]
        OBVIOUS
      <4> DEFINE q == i + 1
      <4>2. q \in 1 .. n + m /\ ~(q <= n) /\ q - n = j + 1
        BY <1>2, <2>2, <4>1
      <4> HIDE DEF q
      <4>3. s[q] = b[q - n]
        BY <1>1, <4>2
      <4>4. QED
        BY <4>2, <4>3 DEF q
    <3>3. j > 1 => s[i - 1] = b[j - 1]
      <4>1. SUFFICES ASSUME j > 1 PROVE s[i - 1] = b[j - 1]
        OBVIOUS
      <4>2. i - 1 \in 1 .. n + m /\ ~(i - 1 <= n) /\ i - 1 - n = j - 1
        BY <1>2, <2>2, <4>1
      <4>3. QED
        BY <1>1, <4>2
    <3> HIDE DEF j
    <3>4. j > 1 \/ j = 1
      BY <1>2, <3>1
    <3>5. QED
      BY <1>3, <3>1, <3>2, <3>3, <3>4
  <2>3. QED
    BY <2>1, <2>2
<1>5. s # << >> /\ s[1] = IF w = << >> THEN b[1] ELSE w[1]
  <2>1. 1 \in 1 .. n + m /\ (1 <= n <=> w # << >>) /\ (n = 0 => 1 - n = 1) /\ n + m # 0
    BY <1>2
  <2>2. s # << >>
    BY <1>1, <2>1
  <2>3. QED
    BY <1>1, <1>2, <2>1, <2>2
<1>6. Paired(s)
  BY <1>1, <1>4 DEF Paired
<1>7. QED
  BY <1>1, <1>5, <1>6 DEF s

(* What a key press and a release begin with.                              *)
LEMMA PrefixFacts ==
  ASSUME NEW c \in Code
  PROVE  /\ ExtendedPrefix(c) \in Seq(Entry) /\ Paired(ExtendedPrefix(c))
         /\ ExtendedPrefix(c) # << >> => ExtendedPrefix(c)[1].role # "release"
<1> DEFINE e == Prefix("E0")
<1>1. e \in Entry /\ e.byte = "E0" /\ e.role = "prefix"
  BY DEF Prefix, Entry, Stored
<1>2. ExtendedPrefix(c) \in {<< >>, <<e>>}
  BY DEF ExtendedPrefix
<1> HIDE DEF e
<1>3. << >> \in Seq(Entry) /\ Paired(<< >>)
  <2>1. << >> \in Seq(Entry) /\ Len(<< >>) = 0
    OBVIOUS
  <2>2. QED
    BY <2>1 DEF Paired
<1>4. <<e>> \in Seq(Entry) /\ Paired(<<e>>) /\ <<e>>[1].role # "release"
  <2>1. <<e>> \in Seq(Entry) /\ Len(<<e>>) = 1 /\ <<e>>[1] = e
    BY <1>1
  <2>2. QED
    BY <1>1, <2>1 DEF Paired
<1>5. QED
  BY <1>2, <1>3, <1>4

(* What they end with.                                                     *)
LEMMA KeyFacts ==
  ASSUME NEW c \in Code,
         NEW v \in {<<[byte |-> c, role |-> "press"]>>,
                    <<Prefix("F0"), [byte |-> c, role |-> "release"]>>}
  PROVE  v \in Seq(Entry) /\ v # << >> /\ Paired(v) /\ v[1].role # "release"
<1> DEFINE f == Prefix("F0")
           p == [byte |-> c, role |-> "press"]
           r == [byte |-> c, role |-> "release"]
<1>1. /\ f \in Entry /\ f.byte = "F0" /\ f.role = "prefix"
      /\ p \in Entry /\ p.byte = c /\ p.role = "press"
      /\ r \in Entry /\ r.byte = c /\ r.role = "release"
  BY DEF Prefix, Entry, Stored
<1>2. c # "F0"
  BY CodeFacts
<1>3. v \in {<<p>>, <<f, r>>}
  OBVIOUS
<1> HIDE DEF p, r, f
<1>4. CASE v = <<p>>
  <2>1. v \in Seq(Entry) /\ v # << >> /\ Len(v) = 1 /\ v[1] = p
    BY <1>1, <1>4
  <2>2. QED
    BY <1>1, <1>2, <2>1 DEF Paired
<1>5. CASE v = <<f, r>>
  <2>1. v \in Seq(Entry) /\ v # << >> /\ Len(v) = 2 /\ v[1] = f /\ v[2] = r
    BY <1>1, <1>5
  <2>2. QED
    BY <1>1, <1>2, <2>1 DEF Paired
<1>6. QED
  BY <1>3, <1>4, <1>5

(* The keyboard sends whole key strokes.                                   *)
LEMMA StrokeFacts ==
  ASSUME NEW c \in Code,
         NEW v \in {<<[byte |-> c, role |-> "press"]>>,
                    <<Prefix("F0"), [byte |-> c, role |-> "release"]>>},
         NEW b, b = ExtendedPrefix(c) \o v
  PROVE  b \in Seq(Entry) /\ b # << >> /\ Paired(b) /\ b[1].role # "release"
<1> DEFINE w == ExtendedPrefix(c)
<1>1. w \in Seq(Entry) /\ Paired(w) /\ (w # << >> => w[1].role # "release")
  BY PrefixFacts
<1>2. v \in Seq(Entry) /\ v # << >> /\ Paired(v) /\ v[1].role # "release"
  BY KeyFacts
<1>3. b = w \o v
  OBVIOUS
<1> HIDE DEF w
<1>4. /\ w \o v \in Seq(Entry) /\ Paired(w \o v) /\ w \o v # << >>
      /\ (w \o v)[1] = IF w = << >> THEN v[1] ELSE w[1]
  BY <1>1, <1>2, SendFacts
<1>5. QED
  BY <1>1, <1>2, <1>3, <1>4

(* The first n bytes are gone.                                             *)
LEMMA DropFacts ==
  ASSUME NEW w \in Seq(Entry), Paired(w), NEW n \in 0 .. Len(w),
         NEW s, s = SubSeq(w, n + 1, Len(w))
  PROVE  s \in Seq(Entry) /\ Paired(s) /\ Len(s) <= Len(w)
<1> DEFINE k == Len(w)
<1>1. k \in Nat /\ n \in Nat /\ n <= k
  BY LenProperties
<1>2. \A i \in n + 1 .. k : w[i] \in Entry
  <2>1. \A i \in 1 .. k : w[i] \in Entry
    OBVIOUS
  <2>2. QED
    BY <1>1, <2>1
<1>3. \A i \in 1 .. k : /\ w[i].role = "release" => w[i].byte \in Code
                        /\ w[i].byte = "F0" => i < k /\ w[i + 1].role = "release"
                        /\ w[i].role = "release" /\ i > 1 => w[i - 1].byte = "F0"
  BY DEF Paired
<1>4. s = SubSeq(w, n + 1, k)
  OBVIOUS
<1> HIDE DEF k
<1>5. n + 1 \in Int /\ k \in Int
  BY <1>1
<1>6. /\ s \in Seq(Entry)
      /\ Len(s) = IF n + 1 <= k THEN k - (n + 1) + 1 ELSE 0
      /\ \A i \in 1 .. k - (n + 1) + 1 : s[i] = w[n + 1 + i - 1]
  BY <1>2, <1>4, <1>5, SubSeqProperties
<1>7. Len(s) = k - n /\ \A i \in 1 .. k - n : s[i] = w[i + n]
  <2>1. k - (n + 1) + 1 = k - n /\ (~(n + 1 <= k) => k - n = 0)
    BY <1>1
  <2>2. \A i \in 1 .. k - n : n + 1 + i - 1 = i + n
    BY <1>1
  <2>3. QED
    BY <1>6, <2>1, <2>2
<1>8. ASSUME NEW i \in 1 .. k - n
      PROVE  /\ s[i].role = "release" => s[i].byte \in Code
             /\ s[i].byte = "F0" => i < k - n /\ s[i + 1].role = "release"
             /\ s[i].role = "release" /\ i > 1 => s[i - 1].byte = "F0"
  <2> DEFINE j == i + n
  <2>1. j \in 1 .. k /\ s[i] = w[j] /\ (j < k => i < k - n) /\ (i > 1 => j > 1)
    BY <1>1, <1>7
  <2>2. j < k => s[i + 1] = w[j + 1]
    <3>1. SUFFICES ASSUME j < k PROVE s[i + 1] = w[j + 1]
      OBVIOUS
    <3>2. i + 1 \in 1 .. k - n /\ i + 1 + n = j + 1
      BY <1>1, <3>1
    <3>3. QED
      BY <1>7, <3>2
  <2>3. i > 1 => s[i - 1] = w[j - 1]
    <3>1. SUFFICES ASSUME i > 1 PROVE s[i - 1] = w[j - 1]
      OBVIOUS
    <3>2. i - 1 \in 1 .. k - n /\ i - 1 + n = j - 1
      BY <1>1, <3>1
    <3>3. QED
      BY <1>7, <3>2
  <2> HIDE DEF j
  <2>4. QED
    BY <1>3, <2>1, <2>2, <2>3
<1>9. Paired(s)
  BY <1>6, <1>7, <1>8 DEF Paired
<1>10. Len(s) <= k
  BY <1>1, <1>7
<1>11. QED
  BY <1>6, <1>9, <1>10 DEF k

(* One byte is taken: a released key comes next exactly after F0.          *)
LEMMA ReceiveFacts ==
  ASSUME NEW w \in Seq(Entry), Paired(w), w # << >>
  PROVE  /\ Head(w) = w[1] /\ w[1] \in Entry
         /\ w[1].role = "release" => w[1].byte \in Code
         /\ Tail(w) \in Seq(Entry) /\ Paired(Tail(w))
         /\ Len(Tail(w)) # Len(w) /\ Len(Tail(w)) <= Len(w)
         /\ w[1].byte = "F0" => Tail(w) # << >> /\ Tail(w)[1].role = "release"
         /\ w[1].byte # "F0" /\ Tail(w) # << >> => Tail(w)[1].role # "release"
<1> DEFINE k == Len(w)
           t == Tail(w)
<1>1. k \in Nat \ {0}
  BY EmptySeq
<1>2. /\ Head(w) = w[1] /\ t \in Seq(Entry) /\ Len(t) = k - 1
      /\ \A i \in 1 .. Len(t) : t[i] = w[i + 1]
  BY HeadTailProperties
<1>3. w[1] \in Entry
  BY <1>1
<1>4. t = SubSeq(w, 1 + 1, k)
  <2>1. t = SubSeq(w, 2, k)
    BY TailIsSubSeq
  <2>2. QED
    BY <2>1
<1>5. Paired(t)
  <2>1. 1 \in 0 .. Len(w)
    BY <1>1
  <2>2. QED
    BY <1>4, <2>1, DropFacts
<1>6. \A i \in 1 .. k : /\ w[i].role = "release" => w[i].byte \in Code
                        /\ w[i].byte = "F0" => i < k /\ w[i + 1].role = "release"
                        /\ w[i].role = "release" /\ i > 1 => w[i - 1].byte = "F0"
  BY DEF Paired
<1>7. t # << >> => Len(t) \in Nat \ {0}
  BY <1>2, EmptySeq
<1>8. 1 < k => t # << >>
  <2>1. Len(<< >>) = 0
    OBVIOUS
  <2>2. 1 < k => Len(t) # 0
    BY <1>1, <1>2
  <2>3. QED
    BY <2>1, <2>2
<1> HIDE DEF k, t
<1>9. t # << >> => 2 \in 1 .. k /\ 2 > 1 /\ t[1] = w[2]
  BY <1>1, <1>2, <1>7
<1>10. /\ w[1].role = "release" => w[1].byte \in Code
       /\ w[1].byte = "F0" => 1 < k /\ w[2].role = "release"
  BY <1>1, <1>6
<1>11. t # << >> /\ w[2].role = "release" => w[1].byte = "F0"
  BY <1>6, <1>9
<1>12. Len(t) # Len(w) /\ Len(t) <= Len(w)
  BY <1>1, <1>2 DEF k
<1>13. QED
  BY <1>2, <1>3, <1>5, <1>8, <1>9, <1>10, <1>11, <1>12 DEF t

-----------------------------------------------------------------------------
(* Type correctness and the invariant of the wire                          *)

(* The slot after a slot is another one.                                   *)
LEMMA NextSlotFacts ==
  ASSUME NEW i \in Slot
  PROVE  NextSlot(i) \in Slot /\ NextSlot(i) # i
         /\ NextSlot(i) = IF i + 1 = Size THEN 0 ELSE i + 1
<1>1. Size \in Nat /\ Size >= 2 /\ i \in Nat /\ i <= Size - 1
  BY Ps2Assumption DEF Slot
<1>2. CASE i + 1 = Size
  <2>1. Size % Size = 0
    BY <1>1
  <2>2. NextSlot(i) = 0
    BY <1>2, <2>1 DEF NextSlot
  <2>3. QED
    BY <1>1, <1>2, <2>2 DEF Slot
<1>3. CASE i + 1 < Size
  <2>1. (i + 1) % Size = i + 1
    BY <1>1, <1>3
  <2>2. QED
    BY <1>1, <1>3, <2>1 DEF Slot, NextSlot
<1>4. QED
  BY <1>1, <1>2, <1>3

(* A byte the handler takes for a scan code is one that is stored.         *)
LEMMA StoredFacts ==
  ASSUME NEW e \in Entry
  PROVE  e.byte # "F0" => e.byte \in Stored
  BY DEF Entry, Stored

(* Power on: only the report of the self test can be on its way.           *)
LEMMA InitInv == Init => IInv
<1> SUFFICES ASSUME Init PROVE IInv
  OBVIOUS
<1>1. SelfTest \in Entry /\ SelfTest.byte = "AA" /\ SelfTest.role = "reply"
  BY DEF SelfTest, Entry, Stored
<1>2. wire \in Seq(Entry) /\ Paired(wire) /\ Len(wire) <= MaxWire
  <2>1. CASE wire = <<SelfTest>>
    <3>1. Len(wire) = 1 /\ wire[1] = SelfTest /\ wire \in Seq(Entry)
      BY <1>1, <2>1
    <3>2. QED
      BY <1>1, <3>1, Ps2Assumption DEF Paired
  <2>2. CASE wire = << >>
    <3>1. Len(wire) = 0 /\ wire \in Seq(Entry)
      BY <2>2
    <3>2. QED
      BY <3>1, Ps2Assumption DEF Paired
  <2>3. QED
    BY <2>1, <2>2 DEF Init
<1>3. 0 \in Slot
  BY Ps2Assumption DEF Slot
<1>4. buffer \in [Slot -> Stored] /\ scanCode \in Stored
  BY DEF Init
<1>5. TypeOK
  BY <1>2, <1>3, <1>4 DEF Init, TypeOK, Entry
<1>6. SkipOK
  BY DEF Init, SkipOK
<1>7. QED
  BY <1>2, <1>5, <1>6 DEF IInv

(* What is on the wire when the handler runs, and after it.                *)
LEMMA HandlerFacts ==
  ASSUME TypeOK, Paired(wire), Receives
  PROVE  /\ Head(wire) = wire[1] /\ Head(wire) \in Entry
         /\ wire[1].role = "release" => wire[1].byte \in Code
         /\ wire' \in Seq(Entry) /\ Paired(wire)' /\ Len(wire') <= MaxWire /\ ~quiet'
         /\ wire[1].byte = "F0" => wire' # << >> /\ wire'[1].role = "release"
         /\ wire[1].byte # "F0" /\ wire' # << >> => wire'[1].role # "release"
<1>1. wire \in Seq(Entry) /\ wire # << >> /\ wire' = Tail(wire) /\ quiet' = FALSE
  BY DEF TypeOK, Entry, Receives
<1>2. Paired(Tail(wire)) => Paired(wire)'
  BY <1>1 DEF Paired
<1>3. Len(wire') <= MaxWire
  <2>1. Len(wire) \in Nat /\ Len(wire') \in Nat /\ Len(wire') <= Len(wire)
    BY <1>1, LenProperties, ReceiveFacts
  <2>2. Len(wire) <= MaxWire
    BY DEF TypeOK
  <2>3. QED
    BY <2>1, <2>2, Ps2Assumption
<1>4. QED
  BY <1>1, <1>2, <1>3, ReceiveFacts

(* Every step keeps the invariant.                                         *)
LEMMA NextInv == IInv /\ [Next]_vars => IInv'
<1> SUFFICES ASSUME IInv, [Next]_vars PROVE IInv'
  OBVIOUS
<1> USE DEF IInv
<1>1. wire \in Seq(Entry)
  BY DEF TypeOK, Entry
<1>2. ASSUME NEW c \in Code, PressKey(c) \/ ReleaseKey(c)
      PROVE  IInv'
  <2>1. PICK v \in {<<[byte |-> c, role |-> "press"]>>,
                    <<Prefix("F0"), [byte |-> c, role |-> "release"]>>} :
          Sends(ExtendedPrefix(c) \o v)
    BY <1>2 DEF PressKey, ReleaseKey
  <2> DEFINE b == ExtendedPrefix(c) \o v
  <2>2. b \in Seq(Entry) /\ b # << >> /\ Paired(b) /\ b[1].role # "release"
    BY StrokeFacts
  <2>3. wire' = wire \o b /\ UNCHANGED <<handshakeDone, skip, ringVars, quiet>>
    BY <2>1 DEF Sends
  <2> HIDE DEF b
  <2>4. /\ wire' \in Seq(Entry) /\ Paired(wire') /\ wire' # << >>
        /\ wire'[1] = IF wire = << >> THEN b[1] ELSE wire[1]
    BY <1>1, <2>2, <2>3, SendFacts
  <2>5. Len(wire') <= MaxWire
    <3>1. Len(wire) + Len(b) <= MaxWire
      BY <2>1 DEF Sends, b
    <3>2. Len(wire \o b) = Len(wire) + Len(b)
      BY <1>1, <2>2, ConcatProperties
    <3>3. QED
      BY <2>3, <3>1, <3>2
  <2>6. TypeOK'
    BY <2>3, <2>4, <2>5 DEF TypeOK, Entry, ringVars
  <2>7. SkipOK'
    BY <2>2, <2>3, <2>4 DEF SkipOK
  <2>8. Paired(wire)'
    BY <2>4 DEF Paired
  <2>9. QED
    BY <2>6, <2>7, <2>8
<1>3. CASE IgnoreEarly
  <2>1. /\ wire' \in Seq(Entry) /\ Paired(wire)' /\ Len(wire') <= MaxWire
        /\ ~quiet' /\ quiet' \in BOOLEAN
    BY <1>3, HandlerFacts DEF IgnoreEarly, Receives
  <2>2. TypeOK'
    BY <1>3, <2>1 DEF IgnoreEarly, TypeOK, Entry, ringVars
  <2>3. SkipOK'
    BY <1>3 DEF IgnoreEarly, SkipOK
  <2>4. QED
    BY <2>1, <2>2, <2>3
<1>4. CASE Handshake
  <2>1. /\ SelfTest \in Entry /\ SelfTest.byte = "AA" /\ SelfTest.role = "reply"
        /\ Acknowledge \in Entry /\ Acknowledge.byte = "FA" /\ Acknowledge.role = "reply"
    BY DEF SelfTest, Acknowledge, Entry, Stored
  <2>2. wire' = <<Acknowledge, SelfTest>>
    BY <1>4 DEF Handshake
  <2>3. /\ wire' \in Seq(Entry) /\ Len(wire') = 2 /\ Len(wire') <= MaxWire
        /\ wire'[1] = Acknowledge /\ wire'[2] = SelfTest
    BY <2>1, <2>2, Ps2Assumption
  <2>4. Paired(wire)'
    BY <2>1, <2>3 DEF Paired
  <2>5. TypeOK'
    BY <1>4, <2>3 DEF Handshake, TypeOK, Entry, ringVars
  <2>6. SkipOK'
    BY <1>4, <2>1, <2>3 DEF Handshake, SkipOK
  <2>7. QED
    BY <2>4, <2>5, <2>6
<1>5. CASE ReceiveF0
  <2>1. /\ Head(wire) = wire[1] /\ wire' \in Seq(Entry) /\ Paired(wire)'
        /\ Len(wire') <= MaxWire /\ ~quiet' /\ quiet' \in BOOLEAN
        /\ wire[1].byte = "F0" => wire' # << >> /\ wire'[1].role = "release"
    BY <1>5, HandlerFacts DEF ReceiveF0, Receives
  <2>2. TypeOK'
    BY <1>5, <2>1 DEF ReceiveF0, TypeOK, Entry, ringVars
  <2>3. SkipOK'
    BY <1>5, <2>1 DEF ReceiveF0, SkipOK, Byte
  <2>4. QED
    BY <2>1, <2>2, <2>3
<1>6. CASE SkipReleased
  <2>1. /\ wire[1].role = "release" => wire[1].byte \in Code
        /\ wire' \in Seq(Entry) /\ Paired(wire)' /\ Len(wire') <= MaxWire
        /\ quiet' \in BOOLEAN
        /\ wire[1].byte # "F0" /\ wire' # << >> => wire'[1].role # "release"
    BY <1>6, HandlerFacts DEF SkipReleased, Receives
  <2>2. TypeOK'
    BY <1>6, <2>1 DEF SkipReleased, TypeOK, Entry, ringVars
  <2>3. wire[1].byte # "F0"
    BY <1>6, <2>1, CodeFacts DEF SkipReleased, SkipOK
  <2>4. SkipOK'
    BY <1>6, <2>1, <2>3 DEF SkipReleased, SkipOK
  <2>5. QED
    BY <2>1, <2>2, <2>4
<1>7. CASE StoreScancode
  <2>1. /\ Head(wire) = wire[1] /\ wire[1] \in Entry
        /\ wire' \in Seq(Entry) /\ Paired(wire)' /\ Len(wire') <= MaxWire
        /\ quiet' \in BOOLEAN
        /\ wire[1].byte # "F0" /\ wire' # << >> => wire'[1].role # "release"
    BY <1>7, HandlerFacts DEF StoreScancode, Receives
  <2>2. Byte \in Stored
    BY <1>7, <2>1, StoredFacts DEF StoreScancode, Byte
  <2>3. NextSlot(head) \in Slot
    BY NextSlotFacts DEF TypeOK
  <2>4. TypeOK'
    <3>1. buffer' \in [Slot -> Stored] /\ head' \in Slot
      BY <1>7, <2>2, <2>3 DEF StoreScancode, TypeOK
    <3>2. QED
      BY <1>7, <2>1, <3>1 DEF StoreScancode, TypeOK, Entry
  <2>5. SkipOK'
    BY <1>7, <2>1 DEF StoreScancode, SkipOK, Byte
  <2>6. QED
    BY <2>1, <2>4, <2>5
<1>8. CASE KeyAvailable
  <2>1. TypeOK'
    BY <1>8 DEF KeyAvailable, TypeOK
  <2>2. QED
    BY <1>8, <2>1 DEF KeyAvailable, Paired, SkipOK
<1>9. CASE LoadKey
  <2>1. TypeOK'
    BY <1>9 DEF LoadKey, TypeOK
  <2>2. QED
    BY <1>9, <2>1 DEF LoadKey, Paired, SkipOK
<1>10. CASE AdvanceTail
  <2>1. NextSlot(tail) \in Slot
    BY NextSlotFacts DEF TypeOK
  <2>2. TypeOK'
    BY <1>10, <2>1 DEF AdvanceTail, TypeOK
  <2>3. QED
    BY <1>10, <2>2 DEF AdvanceTail, Paired, SkipOK
<1>11. CASE WarmReset
  <2>1. wire' \in Seq(Entry) /\ Paired(wire') /\ Len(wire') <= MaxWire
    <3>1. wire' \in Seq(Entry) /\ Paired(wire') /\ Len(wire') <= Len(wire)
      BY <1>1, <1>11, DropFacts DEF WarmReset
    <3>2. Len(wire) \in Nat /\ Len(wire') \in Nat /\ Len(wire) <= MaxWire
      BY <1>1, <3>1, LenProperties DEF TypeOK
    <3>3. QED
      BY <3>1, <3>2, Ps2Assumption
  <2>2. 0 \in Slot
    BY Ps2Assumption DEF Slot
  <2>3. TypeOK'
    BY <1>11, <2>1, <2>2 DEF WarmReset, TypeOK, Entry
  <2>4. SkipOK'
    BY <1>11 DEF WarmReset, SkipOK
  <2>5. Paired(wire)'
    BY <2>1 DEF Paired
  <2>6. QED
    BY <2>3, <2>4, <2>5
<1>12. CASE UNCHANGED vars
  BY <1>12 DEF vars, ringVars, TypeOK, Paired, SkipOK
<1>13. QED
  BY <1>2, <1>3, <1>4, <1>5, <1>6, <1>7, <1>8, <1>9, <1>10, <1>11, <1>12 DEF Next, IrqHandler

(* The invariant holds for as long as the keyboard works, through every    *)
(* reset.                                                                  *)
THEOREM Invariance == Spec => []IInv
  BY InitInv, NextInv, PTL DEF Spec

(* Both pointers stay in the buffer, every slot holds a byte that may be   *)
(* stored, and the keyboard holds back no more than MaxWire bytes.         *)
THEOREM TypeCorrect == Spec => []TypeOK
<1>1. IInv => TypeOK
  BY DEF IInv
<1>2. QED
  BY <1>1, Invariance, PTL

-----------------------------------------------------------------------------
(* IRQ_HANDLER stores presses and nothing else, but for a release whose F0 *)
(* was lost in a reset.                                                    *)
THEOREM OnlyPressesAreStored == Spec => ReleasesAreSkipped
<1> DEFINE A ==
      handshakeDone /\ wire # << >> /\ wire' = Tail(wire) /\ ~quiet' =>
        LET sent == Head(wire)
            isKey == sent.role # "release" /\ sent.byte # "F0"
        IN (head' # head) = (isKey \/ (quiet /\ sent.role = "release"))
<1>1. IInv /\ [Next]_vars => [A]_vars
  <2> SUFFICES ASSUME IInv, Next, handshakeDone, wire # << >>, wire' = Tail(wire), ~quiet'
               PROVE  (head' # head) <=> (\/ wire[1].role # "release" /\ wire[1].byte # "F0"
                                          \/ quiet /\ wire[1].role = "release")
    <3>1. IInv /\ wire # << >> => Head(wire) = wire[1]
      <4>1. IInv => wire \in Seq(Entry) /\ Paired(wire)
        BY DEF IInv, TypeOK, Entry
      <4>2. QED
        BY <4>1, ReceiveFacts
    <3>2. QED
      BY <3>1
  <2>1. /\ wire \in Seq(Entry) /\ Head(wire) = wire[1] /\ Len(Tail(wire)) # Len(wire)
        /\ wire[1].role = "release" => wire[1].byte \in Code
    <3>1. wire \in Seq(Entry)
      BY DEF IInv, TypeOK, Entry
    <3>2. QED
      BY <3>1, ReceiveFacts DEF IInv
  <2>2. wire[1].role = "release" => wire[1].byte # "F0"
    BY <2>1, CodeFacts
  <2>3. ASSUME NEW c \in Code, PressKey(c) \/ ReleaseKey(c)
        PROVE  FALSE
    <3>1. PICK v \in {<<[byte |-> c, role |-> "press"]>>,
                      <<Prefix("F0"), [byte |-> c, role |-> "release"]>>} :
            Sends(ExtendedPrefix(c) \o v)
      BY <2>3 DEF PressKey, ReleaseKey
    <3> DEFINE b == ExtendedPrefix(c) \o v
    <3>2. b \in Seq(Entry) /\ b # << >>
      BY StrokeFacts
    <3>3. wire' = wire \o b
      BY <3>1 DEF Sends
    <3> HIDE DEF b
    <3>4. Len(wire \o b) = Len(wire) + Len(b) /\ Len(wire) \in Nat /\ Len(b) \in Nat \ {0}
      BY <2>1, <3>2, ConcatProperties, EmptySeq, LenProperties
    <3>5. Len(Tail(wire)) = Len(wire) - 1
      BY <2>1, HeadTailProperties
    <3> DEFINE n == Len(wire)
               m == Len(b)
    <3>6. n + m = n - 1 /\ n \in Nat /\ m \in Nat
      BY <3>3, <3>4, <3>5
    <3> HIDE DEF n, m
    <3>7. QED
      BY <3>6
  <2>4. CASE IrqHandler
    <3>1. ~IgnoreEarly /\ ~Handshake
      BY DEF IgnoreEarly, Handshake
    <3>2. CASE ReceiveF0
      BY <2>1, <2>2, <3>2 DEF ReceiveF0, Byte, ringVars
    <3>3. CASE SkipReleased
      BY <2>1, <2>2, <3>3 DEF SkipReleased, ringVars, IInv, SkipOK
    <3>4. CASE StoreScancode
      <4>1. head' # head
        BY <3>4, NextSlotFacts DEF StoreScancode, IInv, TypeOK
      <4>2. wire[1].byte # "F0" /\ ~skip
        BY <2>1, <3>4 DEF StoreScancode, Byte
      <4>3. QED
        BY <4>1, <4>2 DEF IInv, SkipOK
    <3>5. QED
      BY <2>4, <3>1, <3>2, <3>3, <3>4 DEF IrqHandler
  <2>5. CASE KeyAvailable \/ LoadKey \/ AdvanceTail
    <3>1. Tail(wire) = wire
      BY <2>5 DEF KeyAvailable, LoadKey, AdvanceTail
    <3>2. QED
      BY <2>1, <3>1
  <2>6. CASE WarmReset
    BY <2>6 DEF WarmReset
  <2>7. QED
    BY <2>3, <2>4, <2>5, <2>6 DEF Next
<1> HIDE DEF A
<1>2. Spec => [][A]_vars
  BY <1>1, Invariance, PTL DEF Spec
<1>3. QED
  BY <1>2 DEF A, ReleasesAreSkipped

-----------------------------------------------------------------------------
(* The circular buffer is a queue                                          *)

(* The n slots from o on, the queue that the buffer b stands for.          *)
Ring(b, o, n) == [i \in 1 .. n |-> b[(o + i - 1) % Size]]

(* The remainder of a sum below twice the divisor.                         *)
LEMMA RemainderFacts ==
  ASSUME NEW x \in Nat, NEW y \in Nat, x + y < 2 * Size
  PROVE  (x + y) % Size = IF x + y < Size THEN x + y ELSE x + y - Size
<1>1. Size \in Nat /\ Size >= 2
  BY Ps2Assumption
<1>2. CASE x + y < Size
  BY <1>1, <1>2
<1>3. CASE ~(x + y < Size)
  <2>1. PICK r \in Nat : r < Size /\ x + y = r + Size
    <3>1. x + y - Size \in Nat /\ x + y - Size < Size /\ x + y = (x + y - Size) + Size
      BY <1>1, <1>3
    <3>2. QED
      BY <3>1
  <2>2. (r + Size) % Size = r
    BY <1>1, <2>1
  <2>3. (x + y) % Size = r
    BY <2>1, <2>2
  <2>4. r = x + y - Size
    BY <1>1, <2>1
  <2>5. QED
    BY <1>3, <2>3, <2>4
<1>4. QED
  BY <1>2, <1>3

(* The slot d slots after o.                                               *)
SlotAt(o, d) == (o + d) % Size

(* A distance of up to Size slots from a slot: around the end once.        *)
LEMMA WrapFacts ==
  ASSUME NEW o \in Slot, NEW d \in 0 .. Size
  PROVE  /\ SlotAt(o, d) = IF o + d < Size THEN o + d ELSE o + d - Size
         /\ SlotAt(o, d) \in Slot
<1>1. Size \in Nat /\ Size >= 2 /\ o \in Nat /\ o < Size /\ d \in Nat /\ d <= Size
  BY Ps2Assumption DEF Slot
<1>2. o + d < 2 * Size
  BY <1>1
<1>3. SlotAt(o, d) = IF o + d < Size THEN o + d ELSE o + d - Size
  BY <1>1, <1>2, RemainderFacts DEF SlotAt
<1>4. (IF o + d < Size THEN o + d ELSE o + d - Size) \in Slot
  BY <1>1 DEF Slot
<1>5. QED
  BY <1>3, <1>4

(* Slots at different distances are different.                             *)
LEMMA SlotsDiffer ==
  ASSUME NEW o \in Slot, NEW d \in 0 .. Size - 1, NEW e \in 0 .. Size - 1, d # e
  PROVE  SlotAt(o, d) # SlotAt(o, e)
<1>1. Size \in Nat /\ o \in Nat /\ o < Size
  BY Ps2Assumption DEF Slot
<1>2. d \in 0 .. Size /\ e \in 0 .. Size
  BY <1>1
<1>3. /\ SlotAt(o, d) = IF o + d < Size THEN o + d ELSE o + d - Size
      /\ SlotAt(o, e) = IF o + e < Size THEN o + e ELSE o + e - Size
  BY <1>2, WrapFacts
<1>4. (IF o + d < Size THEN o + d ELSE o + d - Size)
        # (IF o + e < Size THEN o + e ELSE o + e - Size)
  BY <1>1
<1>5. QED
  BY <1>3, <1>4

(* The queue holds n scan codes.                                           *)
LEMMA RingType ==
  ASSUME NEW b \in [Slot -> Stored], NEW o \in Slot, NEW n \in 0 .. Size
  PROVE  /\ Ring(b, o, n) \in Seq(Stored) /\ Len(Ring(b, o, n)) = n
         /\ \A i \in 1 .. n : Ring(b, o, n)[i] = b[SlotAt(o, i - 1)]
<1>1. Size \in Nat /\ o \in Nat /\ n \in Nat /\ n <= Size
  BY Ps2Assumption DEF Slot
<1>2. \A i \in 1 .. n : o + i - 1 = o + (i - 1) /\ i - 1 \in 0 .. Size
  BY <1>1
<1>3. \A i \in 1 .. n : (o + i - 1) % Size = SlotAt(o, i - 1)
  BY <1>2 DEF SlotAt
<1>4. \A i \in 1 .. n : b[SlotAt(o, i - 1)] \in Stored
  BY <1>2, WrapFacts
<1> DEFINE r == Ring(b, o, n)
<1>5. r = [i \in 1 .. n |-> b[SlotAt(o, i - 1)]]
  BY <1>3 DEF Ring
<1> HIDE DEF r
<1>6. r \in [1 .. n -> Stored]
  BY <1>4, <1>5
<1>7. r \in Seq(Stored) /\ Len(r) = n
  BY <1>1, <1>6
<1>8. \A i \in 1 .. n : r[i] = b[SlotAt(o, i - 1)]
  BY <1>5
<1>9. QED
  BY <1>7, <1>8 DEF r

(* No slots, no scan codes.                                                *)
LEMMA RingEmpty ==
  ASSUME NEW b \in [Slot -> Stored], NEW o \in Slot
  PROVE  Ring(b, o, 0) = << >>
<1>1. 0 \in 0 .. Size
  BY Ps2Assumption
<1>2. Ring(b, o, 0) \in Seq(Stored) /\ Len(Ring(b, o, 0)) = 0
  BY <1>1, RingType
<1>3. QED
  BY <1>2, EmptySeq

(* Taking the oldest.                                                      *)
LEMMA RingTail ==
  ASSUME NEW b \in [Slot -> Stored], NEW o \in Slot, NEW n \in 1 .. Size
  PROVE  /\ Ring(b, o, n) # << >> /\ Head(Ring(b, o, n)) = b[o]
         /\ Tail(Ring(b, o, n)) = Ring(b, NextSlot(o), n - 1)
<1> DEFINE r == Ring(b, o, n)
           o1 == NextSlot(o)
           q == Ring(b, o1, n - 1)
<1>1. Size \in Nat /\ Size >= 2 /\ o \in Nat /\ o < Size /\ n \in Nat /\ 1 <= n /\ n <= Size
  BY Ps2Assumption DEF Slot
<1>2. /\ o1 \in Slot /\ o1 = IF o + 1 = Size THEN 0 ELSE o + 1
      /\ n - 1 \in 0 .. Size /\ n \in 0 .. Size
  BY <1>1, NextSlotFacts
<1> HIDE DEF o1
<1>3. /\ r \in Seq(Stored) /\ Len(r) = n
      /\ \A i \in 1 .. n : r[i] = b[SlotAt(o, i - 1)]
  BY <1>2, RingType
<1>4. /\ q \in Seq(Stored) /\ Len(q) = n - 1
      /\ \A i \in 1 .. n - 1 : q[i] = b[SlotAt(o1, i - 1)]
  BY <1>2, RingType
<1> HIDE DEF r, q
<1>5. r # << >>
  <2>1. Len(<< >>) = 0
    OBVIOUS
  <2>2. QED
    BY <1>1, <1>3, <2>1
<1>6. /\ Head(r) = r[1] /\ Tail(r) \in Seq(Stored) /\ Len(Tail(r)) = n - 1
      /\ \A i \in 1 .. n - 1 : Tail(r)[i] = r[i + 1]
  BY <1>3, <1>5, HeadTailProperties
<1>7. r[1] = b[o]
  <2>1. 1 \in 1 .. n /\ 1 - 1 = 0 /\ o + 0 = o /\ 0 \in 0 .. Size
    BY <1>1
  <2>2. SlotAt(o, 0) = o
    BY <1>1, <2>1, WrapFacts
  <2>3. QED
    BY <1>3, <2>1, <2>2
<1>8. ASSUME NEW i \in 1 .. n - 1
      PROVE  Tail(r)[i] = q[i]
  <2>1. i + 1 \in 1 .. n /\ i + 1 - 1 = i /\ i \in 0 .. Size /\ i - 1 \in 0 .. Size
    BY <1>1
  <2>2. Tail(r)[i] = b[SlotAt(o, i)]
    BY <1>3, <1>6, <2>1
  <2>3. q[i] = b[SlotAt(o1, i - 1)]
    BY <1>4
  <2>4. /\ SlotAt(o, i) = IF o + i < Size THEN o + i ELSE o + i - Size
        /\ SlotAt(o1, i - 1) = IF o1 + (i - 1) < Size THEN o1 + (i - 1)
                                   ELSE o1 + (i - 1) - Size
    BY <1>2, <2>1, WrapFacts
  <2>5. (IF o + i < Size THEN o + i ELSE o + i - Size)
          = (IF o1 + (i - 1) < Size THEN o1 + (i - 1) ELSE o1 + (i - 1) - Size)
    BY <1>1, <1>2
  <2>6. QED
    BY <2>2, <2>3, <2>4, <2>5
<1>9. Tail(r) = q
  BY <1>4, <1>6, <1>8, SeqEqual
<1>10. QED
  BY <1>5, <1>6, <1>7, <1>9 DEF r, q, o1

(* Storing a scan code behind the newest.                                  *)
LEMMA RingAppend ==
  ASSUME NEW b \in [Slot -> Stored], NEW o \in Slot, NEW n \in 0 .. Size - 1,
         NEW x \in Stored, NEW c, c = [b EXCEPT ![SlotAt(o, n)] = x]
  PROVE  Ring(c, o, n + 1) = Append(Ring(b, o, n), x)
<1> DEFINE h == SlotAt(o, n)
           r == Ring(b, o, n)
           q == Ring(c, o, n + 1)
<1>1. Size \in Nat /\ Size >= 2 /\ n \in Nat /\ n < Size
  BY Ps2Assumption
<1>2. n \in 0 .. Size /\ n + 1 \in 0 .. Size
  BY <1>1
<1>3. h \in Slot
  BY <1>2, WrapFacts
<1>4. c = [b EXCEPT ![h] = x]
  OBVIOUS
<1>5. \A i \in 0 .. n - 1 : SlotAt(o, i) # h /\ SlotAt(o, i) \in Slot
  <2>1. SUFFICES ASSUME NEW i \in 0 .. n - 1
                 PROVE  SlotAt(o, i) # h /\ SlotAt(o, i) \in Slot
    OBVIOUS
  <2>2. i \in 0 .. Size - 1 /\ n \in 0 .. Size - 1 /\ i # n /\ i \in 0 .. Size
    BY <1>1
  <2>3. QED
    BY <2>2, SlotsDiffer, WrapFacts
<1> HIDE DEF h
<1>6. /\ c \in [Slot -> Stored] /\ c[h] = x
      /\ \A i \in 0 .. n - 1 : c[SlotAt(o, i)] = b[SlotAt(o, i)]
  BY <1>3, <1>4, <1>5
<1>7. /\ r \in Seq(Stored) /\ Len(r) = n
      /\ \A i \in 1 .. n : r[i] = b[SlotAt(o, i - 1)]
  BY <1>2, RingType
<1>8. /\ q \in Seq(Stored) /\ Len(q) = n + 1
      /\ \A i \in 1 .. n + 1 : q[i] = c[SlotAt(o, i - 1)]
  BY <1>2, <1>6, RingType
<1> HIDE DEF r, q
<1>9. /\ Append(r, x) \in Seq(Stored) /\ Len(Append(r, x)) = n + 1
      /\ \A i \in 1 .. n : Append(r, x)[i] = r[i]
      /\ Append(r, x)[n + 1] = x
  BY <1>7, AppendProperties
<1>10. q[n + 1] = x
  <2>1. n + 1 \in 1 .. n + 1 /\ n + 1 - 1 = n
    BY <1>1
  <2>2. q[n + 1] = c[SlotAt(o, n)]
    BY <1>8, <2>1
  <2>3. QED
    BY <1>6, <2>2 DEF h
<1>11. \A i \in 1 .. n : q[i] = Append(r, x)[i]
  <2>1. \A i \in 1 .. n : i \in 1 .. n + 1 /\ i - 1 \in 0 .. n - 1
    BY <1>1
  <2>2. QED
    BY <1>6, <1>7, <1>8, <1>9, <2>1
<1>12. \A i \in 1 .. n + 1 : q[i] = Append(r, x)[i]
  <2>1. \A i \in 1 .. n + 1 : i \in 1 .. n \/ i = n + 1
    BY <1>1
  <2>2. QED
    BY <1>9, <1>10, <1>11, <2>1
<1>13. q = Append(r, x)
  BY <1>8, <1>9, <1>12, SeqEqual
<1>14. QED
  BY <1>13 DEF q, r

-----------------------------------------------------------------------------
(* Every step is a step of the queue                                       *)

(* The slot of the oldest scan code and the number that wait, as functions *)
(* of the pointers.                                                        *)
OldestOf(a, t) == IF a = "advance" THEN NextSlot(t) ELSE t
WaitingOf(a, h, t) ==
  CASE a = "check"   -> (h + Size - t) % Size
    [] a = "load"    -> IF h = t THEN Size ELSE (h + Size - t) % Size
    [] a = "advance" -> (h + Size - NextSlot(t)) % Size

Pending == Ring(buffer, Oldest, Waiting)

(* The number of slots from o to h.                                        *)
LEMMA DistanceFacts ==
  ASSUME NEW o \in Slot, NEW h \in Slot
  PROVE  (h + Size - o) % Size = IF h >= o THEN h - o ELSE h + Size - o
<1>1. Size \in Nat /\ o \in Nat /\ o < Size /\ h \in Nat /\ h < Size
  BY Ps2Assumption DEF Slot
<1> DEFINE d == Size - o
<1>2. d \in 0 .. Size /\ h + Size - o = h + d
  BY <1>1
<1>3. SlotAt(h, d) = IF h + d < Size THEN h + d ELSE h + d - Size
  BY <1>2, WrapFacts
<1>4. (h + Size - o) % Size = SlotAt(h, d)
  BY <1>2 DEF SlotAt
<1>5. /\ h + d < Size <=> ~(h >= o)
      /\ h + d - Size = h - o /\ h + d = h + Size - o
  BY <1>1
<1> HIDE DEF d
<1>6. QED
  BY <1>3, <1>4, <1>5

(* Where the pointers are, the oldest scan code and the number of those    *)
(* that wait are determined: the newest is in the slot before the head.    *)
LEMMA PointerFacts ==
  ASSUME NEW a \in {"check", "load", "advance"}, NEW h \in Slot, NEW t \in Slot,
         NEW o, o = OldestOf(a, t), NEW n, n = WaitingOf(a, h, t)
  PROVE  /\ o \in Slot /\ n \in 0 .. Size
         /\ SlotAt(o, n) = h
         /\ n = IF h > o THEN h - o
                ELSE IF h < o THEN h + Size - o
                ELSE IF a = "load" THEN Size ELSE 0
<1>1. Size \in Nat /\ Size >= 2 /\ h \in Nat /\ h < Size /\ t \in Nat /\ t < Size
  BY Ps2Assumption DEF Slot
<1>2. o \in Slot /\ o \in Nat /\ o < Size
  <2>1. o \in Slot
    BY NextSlotFacts DEF OldestOf
  <2>2. QED
    BY <1>1, <2>1 DEF Slot
<1>3. n = IF a = "load" /\ h = o THEN Size ELSE (h + Size - o) % Size
  BY DEF OldestOf, WaitingOf
<1>4. (h + Size - o) % Size = IF h >= o THEN h - o ELSE h + Size - o
  BY <1>2, DistanceFacts
<1>5. n = IF h > o THEN h - o
          ELSE IF h < o THEN h + Size - o
          ELSE IF a = "load" THEN Size ELSE 0
  <2> DEFINE e == (h + Size - o) % Size
  <2>1. n = IF a = "load" /\ h = o THEN Size ELSE e
    BY <1>3
  <2>2. e = IF h >= o THEN h - o ELSE h + Size - o
    BY <1>4
  <2> HIDE DEF e
  <2>3. h > o \/ h < o \/ h = o
    BY <1>1, <1>2
  <2>4. CASE h > o
    BY <1>1, <1>2, <2>1, <2>2, <2>4
  <2>5. CASE h < o
    BY <1>1, <1>2, <2>1, <2>2, <2>5
  <2>6. CASE h = o
    <3>1. e = 0
      BY <1>1, <1>2, <2>2, <2>6
    <3>2. ~(h > o) /\ ~(h < o)
      BY <1>1, <1>2, <2>6
    <3>3. QED
      BY <2>1, <2>6, <3>1, <3>2
  <2>7. QED
    BY <2>3, <2>4, <2>5, <2>6
<1>6. n \in 0 .. Size
  BY <1>1, <1>2, <1>5
<1>7. SlotAt(o, n) = IF o + n < Size THEN o + n ELSE o + n - Size
  BY <1>2, <1>6, WrapFacts
<1>8. (IF o + n < Size THEN o + n ELSE o + n - Size) = h
  BY <1>1, <1>2, <1>5
<1>9. QED
  BY <1>2, <1>5, <1>6, <1>7, <1>8

(* The queue of a state.                                                   *)
LEMMA PendingFacts ==
  ASSUME TypeOK
  PROVE  /\ Oldest = OldestOf(at, tail) /\ Waiting = WaitingOf(at, head, tail)
         /\ Oldest \in Slot /\ Waiting \in 0 .. Size
         /\ SlotAt(Oldest, Waiting) = head
         /\ Waiting = IF head > Oldest THEN head - Oldest
                      ELSE IF head < Oldest THEN head + Size - Oldest
                      ELSE IF at = "load" THEN Size ELSE 0
         /\ Pending \in Seq(Stored) /\ Len(Pending) = Waiting
<1>1. /\ at \in {"check", "load", "advance"} /\ head \in Slot /\ tail \in Slot
      /\ buffer \in [Slot -> Stored]
  BY DEF TypeOK
<1>2. Oldest = OldestOf(at, tail) /\ Waiting = WaitingOf(at, head, tail)
  BY DEF Oldest, OldestOf, Waiting, WaitingOf
<1> DEFINE o == Oldest
           n == Waiting
<1> HIDE DEF o, n
<1>3. o = OldestOf(at, tail) /\ n = WaitingOf(at, head, tail)
  BY <1>2 DEF o, n
<1>4. /\ o \in Slot /\ n \in 0 .. Size
      /\ SlotAt(o, n) = head
      /\ n = IF head > o THEN head - o
             ELSE IF head < o THEN head + Size - o
             ELSE IF at = "load" THEN Size ELSE 0
  BY <1>1, <1>3, PointerFacts
<1>5. Ring(buffer, o, n) \in Seq(Stored) /\ Len(Ring(buffer, o, n)) = n
  BY <1>1, <1>4, RingType
<1>6. QED
  BY <1>2, <1>4, <1>5 DEF o, n, Pending

(* The same of the next state.                                             *)
LEMMA PendingFactsNext ==
  ASSUME TypeOK'
  PROVE  /\ Oldest' = OldestOf(at', tail') /\ Waiting' = WaitingOf(at', head', tail')
         /\ Oldest' \in Slot /\ Waiting' \in 0 .. Size
         /\ Waiting' = IF head' > Oldest' THEN head' - Oldest'
                       ELSE IF head' < Oldest' THEN head' + Size - Oldest'
                       ELSE IF at' = "load" THEN Size ELSE 0
         /\ Pending' = Ring(buffer', Oldest', Waiting')
<1>1. at' \in {"check", "load", "advance"} /\ head' \in Slot /\ tail' \in Slot
  BY DEF TypeOK
<1>2. Oldest' = OldestOf(at', tail') /\ Waiting' = WaitingOf(at', head', tail')
  BY DEF Oldest, OldestOf, Waiting, WaitingOf
<1> DEFINE o == Oldest'
           n == Waiting'
<1>3. o = OldestOf(at', tail') /\ n = WaitingOf(at', head', tail')
  BY <1>2
<1>4. Pending' = Ring(buffer', o, n)
  BY DEF Pending, Ring
<1> HIDE DEF o, n
<1>5. /\ o \in Slot /\ n \in 0 .. Size
      /\ n = IF head' > o THEN head' - o
             ELSE IF head' < o THEN head' + Size - o
             ELSE IF at' = "load" THEN Size ELSE 0
  BY <1>1, <1>3, PointerFacts
<1>6. QED
  BY <1>2, <1>4, <1>5 DEF o, n

(* What a step must do to the queue to be one of KeyQueue.                 *)
LEMMA QueueSteps ==
  /\ UNCHANGED <<Pending, scanCode, quiet>> => UNCHANGED Abstract!vars
  /\ UNCHANGED <<Pending, scanCode>> /\ quiet' = FALSE => Abstract!Next
  /\ \A k \in Stored :
       Len(Pending) < Size /\ Pending' = Append(Pending, k) /\ quiet' = FALSE
         /\ UNCHANGED scanCode => Abstract!Next
  /\ Len(Pending) = Size - 1 /\ Pending' = << >> /\ quiet' = FALSE
       /\ UNCHANGED scanCode => Abstract!Next
  /\ \A k \in Stored :
       Len(Pending) = Size /\ Pending' = <<k>> /\ quiet' = FALSE
         /\ UNCHANGED scanCode => Abstract!Next
  /\ Pending # << >> /\ scanCode' = Head(Pending) /\ Pending' = Tail(Pending)
       /\ UNCHANGED quiet => Abstract!Next
  /\ Pending' = << >> /\ quiet' = TRUE /\ UNCHANGED scanCode => Abstract!Next
<1> USE DEF Pending, Ring, Abstract!Next
<1>1. UNCHANGED <<Pending, scanCode, quiet>> => UNCHANGED Abstract!vars
  BY DEF Abstract!vars
<1>2. UNCHANGED <<Pending, scanCode>> /\ quiet' = FALSE => Abstract!Next
  BY DEF Abstract!Ignore
<1>3. ASSUME NEW k \in Stored, Len(Pending) < Size, Pending' = Append(Pending, k),
             quiet' = FALSE, UNCHANGED scanCode
      PROVE  Abstract!Next
  BY <1>3 DEF Abstract!Arrive
<1>4. Len(Pending) = Size - 1 /\ Pending' = << >> /\ quiet' = FALSE
        /\ UNCHANGED scanCode => Abstract!Next
  BY DEF Abstract!Overflow
<1>5. ASSUME NEW k \in Stored, Len(Pending) = Size, Pending' = <<k>>,
             quiet' = FALSE, UNCHANGED scanCode
      PROVE  Abstract!Next
  BY <1>5 DEF Abstract!Overflow
<1>6. Pending # << >> /\ scanCode' = Head(Pending) /\ Pending' = Tail(Pending)
        /\ UNCHANGED quiet => Abstract!Next
  BY DEF Abstract!Take
<1>7. Pending' = << >> /\ quiet' = TRUE /\ UNCHANGED scanCode => Abstract!Next
  BY DEF Abstract!Restart
<1>8. QED
  BY <1>1, <1>2, <1>3, <1>4, <1>5, <1>6, <1>7

(* The queue does not change when the buffer and the two ends of the queue *)
(* do not.                                                                 *)
LEMMA PendingStays ==
  ASSUME Oldest' = Oldest, Waiting' = Waiting, buffer' = buffer
  PROVE  Pending' = Pending
  BY DEF Pending, Ring

(* IRQ_HANDLER stores one scan code.                                       *)
LEMMA StoreIsArriveOrOverflow ==
  ASSUME TypeOK, TypeOK', Paired(wire), StoreScancode
  PROVE  Abstract!Next
<1>1. Byte \in Stored /\ quiet' = FALSE
  <2>1. Receives
    BY DEF StoreScancode
  <2>2. QED
    BY <2>1, HandlerFacts, StoredFacts DEF StoreScancode, Byte, Receives
<1>2. /\ buffer \in [Slot -> Stored] /\ head \in Slot /\ head' \in Slot
      /\ Size \in Nat /\ Size >= 2 /\ \A i \in Slot : i \in Nat /\ i < Size
  BY Ps2Assumption DEF TypeOK, Slot
<1>3. /\ buffer' = [buffer EXCEPT ![head] = Byte] /\ buffer' \in [Slot -> Stored]
      /\ head' = IF head + 1 = Size THEN 0 ELSE head + 1
      /\ tail' = tail /\ scanCode' = scanCode /\ at' = at
  BY <1>2, NextSlotFacts DEF StoreScancode, TypeOK
<1> DEFINE o == Oldest
           n == Waiting
           k == Byte
<1>4. /\ o \in Slot /\ n \in 0 .. Size /\ SlotAt(o, n) = head
      /\ n = IF head > o THEN head - o
             ELSE IF head < o THEN head + Size - o
             ELSE IF at = "load" THEN Size ELSE 0
      /\ Pending = Ring(buffer, o, n) /\ Len(Pending) = n
  BY PendingFacts DEF Pending
<1>5. /\ Oldest' = o
      /\ Waiting' \in 0 .. Size
      /\ Waiting' = IF head' > o THEN head' - o
                    ELSE IF head' < o THEN head' + Size - o
                    ELSE IF at = "load" THEN Size ELSE 0
      /\ Pending' = Ring(buffer', o, Waiting')
  <2>1. Oldest' = o
    BY <1>3 DEF Oldest
  <2> HIDE DEF o
  <2>2. QED
    BY <1>3, <2>1, PendingFactsNext
<1> HIDE DEF k
<1>6. k \in Stored /\ buffer' = [buffer EXCEPT ![head] = k]
  BY <1>1, <1>3 DEF k
<1> HIDE DEF o, n
<1>7. CASE Waiting' = n + 1
  <2>1. n < Size /\ n \in 0 .. Size - 1
    <3>1. n \in 0 .. Size /\ n + 1 \in 0 .. Size
      BY <1>4, <1>5, <1>7
    <3>2. Size \in Nat
      BY <1>2
    <3>3. QED
      BY <3>1, <3>2
  <2>2. Ring(buffer', o, n + 1) = Append(Ring(buffer, o, n), k)
    <3>1. buffer' = [buffer EXCEPT ![SlotAt(o, n)] = k]
      BY <1>4, <1>6, Zenon
    <3>2. o \in Slot /\ buffer \in [Slot -> Stored] /\ k \in Stored
      BY <1>2, <1>4, <1>6
    <3>3. QED
      BY <2>1, <3>1, <3>2, RingAppend, Zenon
  <2>3. Pending' = Append(Pending, k) /\ Len(Pending) < Size
    BY <1>4, <1>5, <1>7, <2>1, <2>2
  <2>4. QED
    BY <1>1, <1>3, <1>6, <2>3, QueueSteps
<1>8. CASE n = Size - 1 /\ Waiting' = 0
  <2>1. Pending' = << >>
    BY <1>3, <1>4, <1>5, <1>8, RingEmpty
  <2>2. QED
    BY <1>1, <1>3, <1>4, <1>8, <2>1, QueueSteps
<1>9. CASE n = Size /\ Waiting' = 1
  <2>1. head = o
    BY <1>2, <1>4, <1>9
  <2>2. 0 \in 0 .. Size - 1 /\ SlotAt(o, 0) = o /\ 0 + 1 = 1
    <3>1. o \in Nat /\ o < Size /\ Size \in Nat /\ o \in Slot
      BY <1>2, <1>4
    <3>2. 0 \in 0 .. Size /\ o + 0 = o
      BY <3>1
    <3>3. QED
      BY <3>1, <3>2, WrapFacts
  <2>3. Ring(buffer', o, 0 + 1) = Append(Ring(buffer, o, 0), k)
    <3>1. buffer' = [buffer EXCEPT ![SlotAt(o, 0)] = k]
      BY <1>6, <2>1, <2>2, Zenon
    <3>2. o \in Slot /\ buffer \in [Slot -> Stored] /\ k \in Stored
      BY <1>2, <1>4, <1>6
    <3>3. QED
      BY <2>2, <3>1, <3>2, RingAppend, Zenon
  <2>4. Ring(buffer, o, 0) = << >> /\ Append(<< >>, k) = <<k>>
    <3>1. o \in Slot /\ buffer \in [Slot -> Stored]
      BY <1>2, <1>4
    <3>2. Ring(buffer, o, 0) = << >>
      BY <3>1, RingEmpty
    <3>3. Append(<< >>, k) = <<k>>
      OBVIOUS
    <3>4. QED
      BY <3>2, <3>3
  <2>5. Pending' = <<k>>
    BY <1>5, <1>9, <2>2, <2>3, <2>4
  <2>6. QED
    BY <1>1, <1>3, <1>4, <1>6, <1>9, <2>5, QueueSteps
<1>10. Waiting' = n + 1 \/ (n = Size - 1 /\ Waiting' = 0) \/ (n = Size /\ Waiting' = 1)
  BY <1>2, <1>3, <1>4, <1>5
<1>11. QED
  BY <1>7, <1>8, <1>9, <1>10

(* process_key_input reads the oldest scan code.                           *)
LEMMA LoadIsTake ==
  ASSUME TypeOK, TypeOK', LoadKey
  PROVE  Abstract!Next
<1>1. /\ buffer \in [Slot -> Stored] /\ head \in Slot /\ tail \in Slot /\ at = "load"
      /\ scanCode' = buffer[tail] /\ at' = "advance"
      /\ buffer' = buffer /\ head' = head /\ tail' = tail /\ quiet' = quiet
  BY DEF LoadKey, TypeOK
<1>2. Size \in Nat /\ Size >= 2 /\ \A i \in Slot : i \in Nat /\ i < Size
  BY Ps2Assumption DEF Slot
<1>3. NextSlot(tail) \in Slot /\ NextSlot(tail) = IF tail + 1 = Size THEN 0 ELSE tail + 1
  BY <1>1, NextSlotFacts
<1>4. Oldest = tail /\ Oldest' = NextSlot(tail)
  BY <1>1 DEF Oldest
<1>5. /\ Waiting \in 0 .. Size
      /\ Waiting = IF head > tail THEN head - tail
                   ELSE IF head < tail THEN head + Size - tail ELSE Size
  BY <1>1, <1>4, PendingFacts
<1>6. /\ Waiting' \in 0 .. Size
      /\ Waiting' = IF head > Oldest' THEN head - Oldest'
                    ELSE IF head < Oldest' THEN head + Size - Oldest' ELSE 0
      /\ Pending' = Ring(buffer, Oldest', Waiting')
  BY <1>1, PendingFactsNext
<1> DEFINE n == Waiting
           n1 == Waiting'
           o1 == Oldest'
<1>7. Pending = Ring(buffer, tail, n)
  BY <1>4 DEF Pending
<1> HIDE DEF n, n1, o1
<1>8. n \in 1 .. Size /\ n1 = n - 1
  BY <1>1, <1>2, <1>3, <1>4, <1>5, <1>6 DEF n, n1, o1
<1>9. Pending' = Ring(buffer, NextSlot(tail), n - 1)
  BY <1>4, <1>6, <1>8 DEF n1
<1>10. Pending # << >> /\ Head(Pending) = buffer[tail] /\ Tail(Pending) = Pending'
  BY <1>1, <1>7, <1>8, <1>9, RingTail
<1>11. QED
  BY <1>1, <1>10, QueueSteps

(* Every step of the keyboard, of the interrupt handler and of the taking  *)
(* is a step of the queue, or changes nothing there.                       *)
LEMMA NextQueue == IInv /\ IInv' /\ [Next]_vars => [Abstract!Next]_(Abstract!vars)
<1> SUFFICES ASSUME IInv, IInv', [Next]_vars
             PROVE  [Abstract!Next]_(Abstract!vars)
  OBVIOUS
<1>1. /\ TypeOK /\ TypeOK' /\ Paired(wire)
      /\ head \in Slot /\ tail \in Slot /\ buffer \in [Slot -> Stored]
  BY DEF IInv, TypeOK
<1>2. ASSUME UNCHANGED <<buffer, head, tail, at>>
      PROVE  Pending' = Pending
  BY <1>2, PendingStays DEF Oldest, Waiting
<1>3. CASE UNCHANGED <<buffer, head, tail, at, scanCode, quiet>>
  BY <1>2, <1>3, QueueSteps
<1>4. CASE (\E c \in Code : PressKey(c) \/ ReleaseKey(c)) \/ UNCHANGED vars
  <2>1. UNCHANGED <<buffer, head, tail, at, scanCode, quiet>>
    BY <1>4 DEF PressKey, ReleaseKey, Sends, ringVars, vars
  <2>2. QED
    BY <1>3, <2>1
<1>5. CASE IgnoreEarly \/ Handshake \/ ReceiveF0 \/ SkipReleased
  <2>1. UNCHANGED <<buffer, head, tail, at, scanCode>> /\ quiet' = FALSE
    BY <1>5 DEF IgnoreEarly, Handshake, ReceiveF0, SkipReleased, Receives, ringVars
  <2>2. QED
    BY <1>2, <2>1, QueueSteps
<1>6. CASE StoreScancode
  BY <1>1, <1>6, StoreIsArriveOrOverflow
<1>7. CASE KeyAvailable
  <2>1. /\ at = "check" /\ at' = "load" /\ head # tail
        /\ UNCHANGED <<buffer, head, tail, scanCode, quiet>>
    BY <1>7 DEF KeyAvailable
  <2>2. Oldest' = Oldest
    BY <2>1 DEF Oldest
  <2>3. Waiting' = Waiting
    BY <2>1 DEF Waiting
  <2>4. QED
    BY <2>1, <2>2, <2>3, PendingStays, QueueSteps
<1>8. CASE LoadKey
  BY <1>1, <1>8, LoadIsTake
<1>9. CASE AdvanceTail
  <2>1. /\ at = "advance" /\ at' = "check" /\ tail' = NextSlot(tail)
        /\ UNCHANGED <<buffer, head, scanCode, quiet>>
    BY <1>9 DEF AdvanceTail
  <2>2. Oldest' = Oldest
    BY <2>1 DEF Oldest
  <2>3. Waiting' = Waiting
    BY <2>1 DEF Waiting
  <2>4. QED
    BY <2>1, <2>2, <2>3, PendingStays, QueueSteps
<1>10. CASE WarmReset
  <2>1. /\ at' = "check" /\ head' = 0 /\ tail' = 0 /\ quiet' = TRUE
        /\ UNCHANGED <<buffer, scanCode>>
    BY <1>10 DEF WarmReset
  <2>2. Oldest' = 0 /\ 0 \in Slot
    BY <2>1, Ps2Assumption DEF Oldest, Slot
  <2>3. Waiting' = 0 /\ Pending' = Ring(buffer, 0, 0)
    BY <1>1, <2>1, <2>2, PendingFactsNext
  <2>4. Pending' = << >>
    BY <1>1, <2>2, <2>3, RingEmpty
  <2>5. QED
    BY <2>1, <2>4, QueueSteps
<1>11. QED
  BY <1>4, <1>5, <1>6, <1>7, <1>8, <1>9, <1>10 DEF Next, IrqHandler

(* The empty buffer is the empty queue.                                    *)
LEMMA InitQueue == Init => Abstract!Init
<1> SUFFICES ASSUME Init PROVE Abstract!Init
  OBVIOUS
<1>1. /\ at = "check" /\ head = 0 /\ tail = 0 /\ quiet = TRUE /\ scanCode \in Stored
      /\ TypeOK
  BY InitInv DEF Init, IInv
<1>2. 0 \in Slot /\ Oldest = 0 /\ buffer \in [Slot -> Stored]
  BY <1>1, Ps2Assumption DEF Oldest, Slot, TypeOK
<1>3. Waiting = 0
  BY <1>1, <1>2, PendingFacts, Ps2Assumption
<1>4. Pending = << >>
  BY <1>2, <1>3, RingEmpty DEF Pending
<1>5. QED
  BY <1>1, <1>4 DEF Abstract!Init, Pending, Ring

(* Interrupts at any point of the taking, the overflow and the reset       *)
(* included, the buffer and its pointers are the queue of KeyQueue: every  *)
(* scan code once and in order, or all but the newest lost.                *)
THEOREM BufferIsAQueue == Spec => KeyQueueSpec
  BY InitQueue, NextQueue, Invariance, PTL DEF Spec, KeyQueueSpec, Abstract!Spec
=============================================================================
