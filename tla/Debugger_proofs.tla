--------------------------- MODULE Debugger_proofs ---------------------------
(***************************************************************************)
(* The invariants of the debugger, for every program it may run and every  *)
(* size of its tables.                                                     *)
(***************************************************************************)
EXTENDS Debugger, SequenceTheorems, TLAPS

-----------------------------------------------------------------------------
(* Sequences                                                               *)

(* The front and the last of a sequence that is not empty.                 *)
LEMMA FrontLast ==
  ASSUME NEW S, NEW s \in Seq(S), s # << >>
  PROVE  /\ Front(s) \in Seq(S) /\ Len(Front(s)) = Len(s) - 1
         /\ \A i \in 1 .. Len(s) - 1 : Front(s)[i] = s[i]
         /\ Last(s) \in S /\ Last(s) = s[Len(s)] /\ Len(s) \in Nat \ {0}
<1> DEFINE n == Len(s) - 1
<1>1. Len(s) \in Nat \ {0} /\ \A i \in 1 .. Len(s) : s[i] \in S
  BY EmptySeq, ElementOfSeq
<1>2. n \in Nat /\ \A i \in 1 .. n : s[i] \in S
  BY <1>1
<1>3. Front(s) = SubSeq(s, 1, n)
  BY DEF Front
<1> HIDE DEF n
<1>4. /\ Front(s) \in Seq(S) /\ Len(Front(s)) = IF 1 <= n THEN n - 1 + 1 ELSE 0
      /\ \A i \in 1 .. n - 1 + 1 : Front(s)[i] = s[1 + i - 1]
  BY <1>2, <1>3, SubSeqProperties
<1>5. Len(Front(s)) = n /\ \A i \in 1 .. n : Front(s)[i] = s[i]
  BY <1>2, <1>4
<1>6. QED
  BY <1>1, <1>4, <1>5 DEF n, Last

(* Taking the kth element out of a sequence moves those behind it.         *)
LEMMA RemoveAtElements ==
  ASSUME NEW S, NEW s \in Seq(S), NEW k \in 1 .. Len(s)
  PROVE  LET r == RemoveAt(s, k) IN
         /\ r \in Seq(S) /\ Len(r) = Len(s) - 1
         /\ \A i \in 1 .. Len(s) - 1 : r[i] = s[IF i < k THEN i ELSE i + 1]
<1> DEFINE a == SubSeq(s, 1, k - 1)
           b == SubSeq(s, k + 1, Len(s))
<1>1. Len(s) \in Nat /\ \A i \in 1 .. Len(s) : s[i] \in S
  BY LenProperties, ElementOfSeq
<1>2. a \in Seq(S) /\ Len(a) = k - 1 /\ \A i \in 1 .. k - 1 : a[i] = s[i]
  <2> DEFINE n == k - 1
  <2>1. n \in Int /\ 1 \in Int /\ \A i \in 1 .. n : s[i] \in S
    BY <1>1
  <2> HIDE DEF n
  <2>2. /\ SubSeq(s, 1, n) \in Seq(S)
        /\ Len(SubSeq(s, 1, n)) = IF 1 <= n THEN n - 1 + 1 ELSE 0
        /\ \A i \in 1 .. n - 1 + 1 : SubSeq(s, 1, n)[i] = s[1 + i - 1]
    BY <2>1, SubSeqProperties
  <2>3. QED
    BY <1>1, <2>2 DEF n
<1>3. /\ b \in Seq(S) /\ Len(b) = Len(s) - k
      /\ \A i \in 1 .. Len(s) - k : b[i] = s[k + i]
  <2> DEFINE m == k + 1
             n == Len(s)
  <2>1. m \in Int /\ n \in Int /\ \A i \in m .. n : s[i] \in S
    BY <1>1
  <2> HIDE DEF m, n
  <2>2. /\ SubSeq(s, m, n) \in Seq(S)
        /\ Len(SubSeq(s, m, n)) = IF m <= n THEN n - m + 1 ELSE 0
        /\ \A i \in 1 .. n - m + 1 : SubSeq(s, m, n)[i] = s[m + i - 1]
    BY <2>1, SubSeqProperties
  <2>3. QED
    BY <1>1, <2>2 DEF m, n
<1>4. RemoveAt(s, k) = a \o b
  BY DEF RemoveAt
<1> HIDE DEF a, b
<1>5. /\ a \o b \in Seq(S) /\ Len(a \o b) = Len(a) + Len(b)
      /\ \A i \in 1 .. Len(a) + Len(b) :
           (a \o b)[i] = IF i <= Len(a) THEN a[i] ELSE b[i - Len(a)]
  BY <1>2, <1>3, ConcatProperties
<1>6. ASSUME NEW i \in 1 .. Len(s) - 1
      PROVE  (a \o b)[i] = s[IF i < k THEN i ELSE i + 1]
  <2>1. CASE i < k
    BY <1>1, <1>2, <1>3, <1>5, <2>1
  <2>2. CASE ~(i < k)
    <3>1. i - Len(a) \in 1 .. Len(s) - k /\ k + (i - Len(a)) = i + 1
      BY <1>1, <1>2, <2>2
    <3>2. (a \o b)[i] = b[i - Len(a)]
      BY <1>1, <1>2, <1>3, <1>5, <2>2
    <3>3. QED
      BY <1>3, <2>2, <3>1, <3>2
  <2>3. QED
    BY <2>1, <2>2
<1>7. QED
  BY <1>1, <1>2, <1>3, <1>4, <1>5, <1>6

(* In a table without duplicates the first element that equals a is all    *)
(* there is of it.                                                         *)
LEMMA RemoveFirstOfInjective ==
  ASSUME NEW S, NEW s \in Seq(S), IsInjective(s), NEW k \in 1 .. Len(s)
  PROVE  RemoveFirst(s, s[k]) = RemoveAt(s, k)
<1> DEFINE I == {i \in 1 .. Len(s) : s[i] = s[k]}
<1>1. Len(s) \in Nat /\ DOMAIN s = 1 .. Len(s)
  BY LenProperties
<1>2. I = {k}
  BY <1>1 DEF IsInjective
<1>3. Min(I) = k
  BY <1>1, <1>2 DEF Min
<1>4. SelectInSeq(s, LAMBDA v : v = s[k]) = IF I # {} THEN Min(I) ELSE 0
  BY DEF SelectInSeq
<1>5. QED
  BY <1>2, <1>3, <1>4 DEF RemoveFirst

-----------------------------------------------------------------------------
(* Breakpoints                                                             *)

(* add_breakpoint keeps the table free of duplicates and within its size;  *)
(* when there is room it takes out an address that is in the table and     *)
(* puts in one that is not.                                                *)
LEMMA AddBreakpointTable ==
  ASSUME NEW S, NEW bps \in Seq(S), NEW a \in S,
         IsInjective(bps), Len(bps) <= MaxBreakpoints
  PROVE  LET new == AddBreakpoint(bps, a) IN
         /\ new \in Seq(S) /\ IsInjective(new) /\ Len(new) <= MaxBreakpoints
         /\ Len(bps) < MaxBreakpoints /\ a \notin ToSet(bps) =>
              ToSet(new) = ToSet(bps) \cup {a}
<1>1. /\ Len(bps) \in Nat /\ DOMAIN bps = 1 .. Len(bps) /\ MaxBreakpoints \in Nat
  BY LenProperties, DebuggerAssumption
<1>2. CASE Len(bps) >= MaxBreakpoints
  BY <1>1, <1>2 DEF AddBreakpoint
<1>3. CASE ~(Len(bps) >= MaxBreakpoints) /\ a \in ToSet(bps)
  <2>1. PICK k \in 1 .. Len(bps) : bps[k] = a
    BY <1>1, <1>3 DEF ToSet
  <2> DEFINE new == RemoveAt(bps, k)
  <2>2. AddBreakpoint(bps, a) = new
    BY <1>3, <2>1, RemoveFirstOfInjective DEF AddBreakpoint
  <2>3. /\ new \in Seq(S) /\ Len(new) = Len(bps) - 1
        /\ \A i \in 1 .. Len(bps) - 1 : new[i] = bps[IF i < k THEN i ELSE i + 1]
    BY RemoveAtElements
  <2>4. DOMAIN new = 1 .. Len(bps) - 1
    BY <2>3, LenProperties
  <2> HIDE DEF new
  <2>5. IsInjective(new)
    <3> SUFFICES ASSUME NEW i \in 1 .. Len(bps) - 1, NEW j \in 1 .. Len(bps) - 1,
                        new[i] = new[j]
                 PROVE  i = j
      BY <2>4 DEF IsInjective
    <3> DEFINE From(x) == IF x < k THEN x ELSE x + 1
    <3>1. From(i) \in DOMAIN bps /\ From(j) \in DOMAIN bps
      BY <1>1
    <3>2. bps[From(i)] = bps[From(j)]
      BY <2>3
    <3>3. From(i) = From(j)
      BY <3>1, <3>2 DEF IsInjective
    <3>4. QED
      BY <1>1, <3>3
  <2>6. QED
    BY <1>1, <1>3, <2>2, <2>3, <2>5
<1>4. CASE ~(Len(bps) >= MaxBreakpoints) /\ a \notin ToSet(bps)
  <2> DEFINE new == Append(bps, a)
  <2>1. AddBreakpoint(bps, a) = new
    BY <1>4 DEF AddBreakpoint
  <2>2. /\ new \in Seq(S) /\ Len(new) = Len(bps) + 1
        /\ \A i \in 1 .. Len(bps) : new[i] = bps[i]
        /\ new[Len(bps) + 1] = a
    BY AppendProperties
  <2>3. DOMAIN new = 1 .. Len(bps) + 1
    BY <2>2, LenProperties
  <2> HIDE DEF new
  <2>4. \A i \in 1 .. Len(bps) : bps[i] # a
    BY <1>1, <1>4 DEF ToSet
  <2>5. IsInjective(new)
    <3> SUFFICES ASSUME NEW i \in 1 .. Len(bps) + 1, NEW j \in 1 .. Len(bps) + 1,
                        new[i] = new[j]
                 PROVE  i = j
      BY <2>3 DEF IsInjective
    <3>1. /\ i \in 1 .. Len(bps) \/ i = Len(bps) + 1
          /\ j \in 1 .. Len(bps) \/ j = Len(bps) + 1
      BY <1>1
    <3>2. QED
      BY <1>1, <2>2, <2>4, <3>1 DEF IsInjective
  <2>6. ToSet(new) = ToSet(bps) \cup {a}
    BY <1>1, <2>2, <2>3 DEF ToSet
  <2>7. QED
    BY <1>1, <1>4, <2>1, <2>2, <2>5, <2>6
<1>5. QED
  BY <1>2, <1>3, <1>4

-----------------------------------------------------------------------------
(* The call stack                                                          *)

(* The calls cs names are open, in the order they were made.               *)
Embedded(cs, rs) ==
  \E open \in [DOMAIN cs -> DOMAIN rs] :
    /\ \A i, j \in DOMAIN cs : i < j => open[i] < open[j]
    /\ \A i \in DOMAIN cs : cs[i] + 1 = rs[open[i]]

(* A call that is recorded, and one that is dropped for want of room.      *)
LEMMA CallEmbedded ==
  ASSUME NEW S, NEW T, NEW cs \in Seq(S), NEW rs \in Seq(T), Embedded(cs, rs),
         NEW a \in S, a + 1 \in T
  PROVE  /\ Embedded(Append(cs, a), Append(rs, a + 1))
         /\ Embedded(cs, Append(rs, a + 1))
<1> DEFINE n == Len(cs)
           m == Len(rs)
           cs2 == Append(cs, a)
           rs2 == Append(rs, a + 1)
<1>1. PICK open \in [DOMAIN cs -> DOMAIN rs] :
        /\ \A i, j \in DOMAIN cs : i < j => open[i] < open[j]
        /\ \A i \in DOMAIN cs : cs[i] + 1 = rs[open[i]]
  BY DEF Embedded
<1>2. /\ n \in Nat /\ m \in Nat /\ DOMAIN cs = 1 .. n /\ DOMAIN rs = 1 .. m
  BY LenProperties
<1> HIDE DEF n, m
<1>3. /\ open \in [1 .. n -> 1 .. m]
      /\ \A i, j \in 1 .. n : i < j => open[i] < open[j]
      /\ \A i \in 1 .. n : cs[i] + 1 = rs[open[i]]
  BY <1>1, <1>2
<1>4. /\ DOMAIN cs2 = 1 .. n + 1 /\ cs2[n + 1] = a /\ \A i \in 1 .. n : cs2[i] = cs[i]
      /\ DOMAIN rs2 = 1 .. m + 1 /\ rs2[m + 1] = a + 1 /\ \A i \in 1 .. m : rs2[i] = rs[i]
  <2>1. /\ cs2 \in Seq(S) /\ Len(cs2) = n + 1
        /\ rs2 \in Seq(T) /\ Len(rs2) = m + 1
    BY AppendProperties DEF n, m
  <2>2. DOMAIN cs2 = 1 .. n + 1 /\ DOMAIN rs2 = 1 .. m + 1
    BY <2>1, LenProperties
  <2>3. QED
    BY <2>2, AppendProperties DEF n, m
<1> HIDE DEF cs2, rs2
<1>5. Embedded(cs, rs2)
  <2>1. open \in [DOMAIN cs -> DOMAIN rs2]
    BY <1>2, <1>4
  <2>2. \A i \in DOMAIN cs : cs[i] + 1 = rs2[open[i]]
    BY <1>1, <1>2, <1>4
  <2>3. QED
    BY <1>1, <2>1, <2>2 DEF Embedded
<1>6. Embedded(cs2, rs2)
  <2> DEFINE more == [i \in 1 .. n + 1 |-> IF i = n + 1 THEN m + 1 ELSE open[i]]
  <2>1. /\ more[n + 1] = m + 1
        /\ \A i \in 1 .. n : more[i] = open[i] /\ open[i] \in 1 .. m
    BY <1>2
  <2>2. more \in [DOMAIN cs2 -> DOMAIN rs2]
    BY <1>2, <1>4
  <2> HIDE DEF more
  <2>3. \A i, j \in DOMAIN cs2 : i < j => more[i] < more[j]
    <3> SUFFICES ASSUME NEW i \in 1 .. n + 1, NEW j \in 1 .. n + 1, i < j
                 PROVE  more[i] < more[j]
      BY <1>4
    <3>1. i \in 1 .. n /\ (j \in 1 .. n \/ j = n + 1)
      BY <1>2
    <3>2. CASE j \in 1 .. n
      BY <1>3, <2>1, <3>1, <3>2
    <3>3. CASE j = n + 1
      BY <1>2, <2>1, <3>1, <3>3
    <3>4. QED
      BY <3>1, <3>2, <3>3
  <2>4. \A i \in DOMAIN cs2 : cs2[i] + 1 = rs2[more[i]]
    <3> SUFFICES ASSUME NEW i \in 1 .. n + 1 PROVE cs2[i] + 1 = rs2[more[i]]
      BY <1>4
    <3>1. i \in 1 .. n \/ i = n + 1
      BY <1>2
    <3>2. QED
      BY <1>2, <1>4, <1>3, <2>1, <3>1
  <2>5. QED
    BY <2>2, <2>3, <2>4 DEF Embedded
<1>7. QED
  BY <1>5, <1>6 DEF cs2, rs2

(* A return takes the innermost call from both.                            *)
LEMMA ReturnEmbedded ==
  ASSUME NEW S, NEW T, NEW cs \in Seq(S), NEW rs \in Seq(T), Embedded(cs, rs),
         rs # << >>
  PROVE  /\ cs # << >> => Embedded(Front(cs), Front(rs))
         /\ Embedded(<< >>, Front(rs))
<1> DEFINE n == Len(cs)
           m == Len(rs)
<1>1. PICK open \in [DOMAIN cs -> DOMAIN rs] :
        /\ \A i, j \in DOMAIN cs : i < j => open[i] < open[j]
        /\ \A i \in DOMAIN cs : cs[i] + 1 = rs[open[i]]
  BY DEF Embedded
<1>2. /\ n \in Nat /\ m \in Nat \ {0} /\ DOMAIN cs = 1 .. n /\ DOMAIN rs = 1 .. m
  BY LenProperties, EmptySeq
<1>3. /\ open \in [1 .. n -> 1 .. m]
      /\ \A i, j \in 1 .. n : i < j => open[i] < open[j]
      /\ \A i \in 1 .. n : cs[i] + 1 = rs[open[i]]
  BY <1>1, <1>2
<1>4. DOMAIN Front(rs) = 1 .. m - 1 /\ \A i \in 1 .. m - 1 : Front(rs)[i] = rs[i]
  BY FrontLast, LenProperties
<1>5. ASSUME cs # << >> PROVE Embedded(Front(cs), Front(rs))
  <2> DEFINE less == [i \in 1 .. n - 1 |-> open[i]]
  <2>1. /\ DOMAIN Front(cs) = 1 .. n - 1 /\ n > 0
        /\ \A i \in 1 .. n - 1 : Front(cs)[i] = cs[i]
    BY <1>5, FrontLast, LenProperties
  <2> HIDE DEF n, m
  <2>2. \A i \in 1 .. n - 1 : open[i] \in 1 .. m - 1
    <3> SUFFICES ASSUME NEW i \in 1 .. n - 1 PROVE open[i] \in 1 .. m - 1
      OBVIOUS
    <3>1. i \in 1 .. n /\ n \in 1 .. n /\ i < n
      BY <1>2, <2>1
    <3>2. open[i] \in 1 .. m /\ open[n] \in 1 .. m /\ open[i] < open[n]
      BY <1>3, <3>1
    <3>3. QED
      BY <1>2, <3>2
  <2>3. less \in [DOMAIN Front(cs) -> DOMAIN Front(rs)]
    BY <1>4, <2>1, <2>2
  <2>4. \A i, j \in DOMAIN Front(cs) : i < j => less[i] < less[j]
    BY <1>2, <1>3, <2>1
  <2>5. \A i \in DOMAIN Front(cs) : Front(cs)[i] + 1 = Front(rs)[less[i]]
    BY <1>2, <1>4, <1>3, <2>1, <2>2
  <2> HIDE DEF less
  <2>6. QED
    BY <2>3, <2>4, <2>5 DEF Embedded
<1>6. Embedded(<< >>, Front(rs))
  <2>1. PICK e : e = << >>
    OBVIOUS
  <2>2. DOMAIN e = {}
    BY <2>1
  <2> DEFINE none == [i \in {} |-> i]
  <2>3. none \in [DOMAIN e -> DOMAIN Front(rs)]
    BY <2>2
  <2> HIDE DEF none
  <2>4. Embedded(e, Front(rs))
    BY <2>2, <2>3 DEF Embedded
  <2>5. QED
    BY <2>1, <2>4
<1>7. QED
  BY <1>5, <1>6

-----------------------------------------------------------------------------
(* The trace history                                                       *)

(* The history, the index into it and the mode fit together; what [ and ]  *)
(* count from is on the screen until the history has had to drop an entry. *)
(* Without a window the history is empty and the index is whatever it was, *)
(* so that the first [ or ] after that finds nothing to show.              *)
TracerOK(t) ==
  /\ t \in Tracer
  /\ Len(t.history) <= TraceCapacity
  /\ t.index >= NoIndex
  /\ ~t.allocated => t.history = << >>
  /\ t.allocated => /\ t.index \in NoIndex .. Len(t.history) - 1
                    /\ t.mode = 1 <=> t.index # NoIndex
                    /\ t.mode = 1 /\ ~t.shifted => t.history[t.index + 1] = t.shown

(* Opening and closing the window, and the end of scrolling.               *)
LEMMA TracerWindow ==
  ASSUME NEW t, TracerOK(t)
  PROVE  /\ TracerOK(InitTracerWindow(t))
         /\ TracerOK([InitTracerWindow(t) EXCEPT !.auto = TRUE])
         /\ TracerOK(CleanupTracer(t))
         /\ TracerOK(LeaveTrace(t))
         /\ \A b \in BOOLEAN : TracerOK([t EXCEPT !.active = b])
<1>1. << >> \in Seq(Addr) /\ Len(<< >>) = 0 /\ TraceCapacity \in Nat \ {0}
  BY DebuggerAssumption
<1>2. /\ t \in Tracer /\ NoIndex \in Int /\ Len(t.history) \in Nat /\ NoIndex = -1
      /\ Elsewhere \in Addr \cup {Elsewhere} /\ 0 \in 0 .. 1
  BY LenProperties DEF TracerOK, Tracer, NoIndex
<1> DEFINE u == InitTracerWindow(t)
           c == CleanupTracer(t)
           l == LeaveTrace(t)
<1>3. /\ u \in Tracer /\ u.history = << >> /\ u.index = NoIndex /\ u.mode = 0
      /\ u.allocated
  BY <1>1, <1>2 DEF InitTracerWindow, Tracer
<1>4. c \in Tracer /\ c.history = << >> /\ c.index = t.index /\ ~c.allocated
  BY <1>1, <1>2 DEF CleanupTracer, Tracer
<1>5. /\ l \in Tracer /\ l.history = t.history /\ l.index = NoIndex /\ l.mode = 0
      /\ l.allocated = t.allocated
  BY <1>1, <1>2 DEF LeaveTrace, Tracer
<1> HIDE DEF u, c, l
<1>6. TracerOK(u) /\ TracerOK(c) /\ TracerOK(l)
  BY <1>1, <1>2, <1>3, <1>4, <1>5 DEF TracerOK
<1>7. TracerOK([u EXCEPT !.auto = TRUE])
  BY <1>6 DEF TracerOK, Tracer
<1>8. \A b \in BOOLEAN : TracerOK([t EXCEPT !.active = b])
  BY DEF TracerOK, Tracer
<1>9. QED
  BY <1>6, <1>7, <1>8 DEF u, c, l

(* Showing an entry there is.                                              *)
LEMMA ShowEntryOK ==
  ASSUME NEW t, t \in Tracer, Len(t.history) <= TraceCapacity,
         t.mode = 1, t.allocated, NEW i \in 0 .. Len(t.history) - 1
  PROVE  TracerOK(ShowEntry(t, i))
<1> DEFINE u == ShowEntry(t, i)
<1>1. /\ Len(t.history) \in Nat /\ i + 1 \in 1 .. Len(t.history) /\ i \in Int /\ i # -1
      /\ t.history \in Seq(Addr)
  BY LenProperties DEF Tracer
<1>2. t.history[i + 1] \in Addr \cup {Elsewhere}
  BY <1>1, ElementOfSeq
<1>3. /\ u \in Tracer /\ u.index = i /\ u.shown = t.history[i + 1] /\ ~u.shifted
      /\ u.history = t.history /\ u.mode = t.mode /\ u.allocated = t.allocated
  BY <1>1, <1>2 DEF ShowEntry, Tracer
<1> HIDE DEF u
<1>4. TracerOK(u)
  BY <1>1, <1>3 DEF TracerOK, NoIndex
<1>5. QED
  BY <1>4 DEF u

(* [ and ]                                                                 *)
LEMMA TracerScroll ==
  ASSUME NEW t, TracerOK(t)
  PROVE  TracerOK(TraceScrollUp(t)) /\ TracerOK(TraceScrollDown(t))
<1>1. t \in Tracer /\ Len(t.history) \in Nat /\ t.index \in Int /\ NoIndex = -1
  BY LenProperties DEF TracerOK, Tracer, NoIndex
<1>2. t.history # << >> => Len(t.history) > 0 /\ t.allocated
  BY EmptySeq DEF TracerOK, Tracer
<1>3. TracerOK(TraceScrollUp(t))
  <2>1. CASE t.history = << >>
    BY <2>1 DEF TraceScrollUp
  <2>2. CASE t.history # << >>
    <3> DEFINE u == [t EXCEPT !.mode = 1]
               i == IF t.index = NoIndex THEN Len(t.history) - 1
                    ELSE IF t.index > 0 THEN t.index - 1 ELSE t.index
    <3>1. i \in 0 .. Len(t.history) - 1
      BY <1>1, <1>2, <2>2 DEF TracerOK
    <3>2. /\ u \in Tracer /\ u.mode = 1 /\ u.allocated /\ u.history = t.history
      BY <1>1, <1>2, <2>2 DEF Tracer
    <3>3. TraceScrollUp(t) = ShowEntry(u, i)
      BY <2>2 DEF TraceScrollUp
    <3> HIDE DEF u, i
    <3>4. QED
      BY <3>1, <3>2, <3>3, ShowEntryOK DEF TracerOK
  <2>3. QED
    BY <2>1, <2>2
<1>4. TracerOK(TraceScrollDown(t))
  <2>1. CASE ~(t.index # NoIndex /\ t.index < Len(t.history) - 1)
    BY <2>1, TracerWindow DEF TraceScrollDown
  <2>2. CASE t.index # NoIndex /\ t.index < Len(t.history) - 1
    <3>1. t.index + 1 \in 0 .. Len(t.history) - 1
      BY <1>1, <2>2 DEF TracerOK
    <3>2. t.allocated /\ t.mode = 1
      <4>1. t.history # << >>
        BY <1>1, <3>1
      <4>2. QED
        BY <1>2, <2>2, <4>1 DEF TracerOK
    <3>3. QED
      BY <1>1, <2>2, <3>1, <3>2, ShowEntryOK DEF TraceScrollDown, TracerOK
  <2>3. QED
    BY <2>1, <2>2
<1>5. QED
  BY <1>3, <1>4

(* A full history drops its oldest entry for the new one.                  *)
LEMMA AddTraceEntryOK ==
  ASSUME NEW t, TracerOK(t), NEW a \in Addr
  PROVE  TracerOK(AddTraceEntry(t, a))
<1>1. CASE ~t.allocated
  BY <1>1 DEF AddTraceEntry
<1>2. CASE t.allocated
  <2> DEFINE n == Len(t.history)
             full == n >= TraceCapacity
             kept == IF full THEN Tail(t.history) ELSE t.history
             h == Append(kept, a)
             moved == t.shifted \/ (t.mode = 1 /\ full)
             u == AddTraceEntry(t, a)
  <2>1. /\ t.history \in Seq(Addr) /\ n \in Nat /\ TraceCapacity \in Nat \ {0}
        /\ n <= TraceCapacity /\ t \in Tracer
    BY LenProperties, DebuggerAssumption DEF TracerOK, Tracer
  <2>2. kept \in Seq(Addr) /\ Len(kept) = IF full THEN n - 1 ELSE n
    <3>1. full => t.history # << >>
      BY <2>1
    <3>2. full => Tail(t.history) \in Seq(Addr) /\ Len(Tail(t.history)) = n - 1
      BY <2>1, <3>1, HeadTailProperties
    <3>3. QED
      BY <2>1, <3>2
  <2>3. ~full => kept = t.history
    OBVIOUS
  <2> HIDE DEF kept
  <2>4. /\ h \in Seq(Addr) /\ Len(h) = IF full THEN n ELSE n + 1
        /\ ~full => \A i \in 1 .. n : h[i] = t.history[i]
    <3>1. /\ h \in Seq(Addr) /\ Len(h) = Len(kept) + 1
          /\ \A i \in 1 .. Len(kept) : h[i] = kept[i]
      BY <2>2, AppendProperties
    <3>2. QED
      BY <2>1, <2>2, <2>3, <3>1
  <2>5. u = [t EXCEPT !.history = h, !.shifted = moved]
    BY <1>2 DEF AddTraceEntry, kept
  <2> HIDE DEF h, u
  <2>6. t.shifted \in BOOLEAN /\ moved \in BOOLEAN
    BY <2>1 DEF Tracer
  <2>7. /\ u \in Tracer /\ u.history = h /\ u.index = t.index /\ u.mode = t.mode
        /\ u.allocated = t.allocated /\ u.shown = t.shown
        /\ u.shifted = moved
    BY <2>1, <2>4, <2>5, <2>6 DEF Tracer
  <2>8. Len(u.history) <= TraceCapacity
    BY <2>1, <2>4, <2>7
  <2>9. u.index \in NoIndex .. Len(u.history) - 1
    BY <1>2, <2>1, <2>4, <2>7 DEF TracerOK, NoIndex, Tracer
  <2>10. ASSUME u.mode = 1, ~u.shifted
         PROVE  u.history[u.index + 1] = u.shown
    <3>1. ~full /\ ~t.shifted /\ t.mode = 1
      BY <2>7, <2>10
    <3>2. t.index + 1 \in 1 .. n
      BY <1>2, <2>1, <3>1 DEF TracerOK, NoIndex, Tracer
    <3>3. QED
      BY <1>2, <2>4, <2>7, <3>1, <3>2 DEF TracerOK
  <2>11. QED
    <3>1. u.index \in Int /\ u.index >= NoIndex /\ (t.mode = 1 <=> t.index # NoIndex)
      BY <1>2, <2>7 DEF TracerOK, Tracer
    <3>2. TracerOK(u)
      BY <1>2, <2>7, <2>8, <2>9, <2>10, <3>1 DEF TracerOK
    <3>3. QED
      BY <3>2 DEF u
<1>3. QED
  BY <1>1, <1>2 DEF TracerOK, Tracer

-----------------------------------------------------------------------------
(* The inductive invariant                                                 *)

(* The emulated machine and the shadow call stack.  That the two stacks    *)
(* agree entry by entry while no call was refused is more than the         *)
(* property asks for, and what makes it inductive.                         *)
MachineOK ==
  /\ pc \in Addr /\ returns \in Seq(Addr)
  /\ callStack \in Seq(Addr) /\ Len(callStack) <= MaxCallStack
  /\ refused \in BOOLEAN
  /\ Embedded(callStack, returns)
  /\ ~refused => /\ Len(callStack) = Len(returns)
                 /\ \A i \in 1 .. Len(callStack) : callStack[i] + 1 = returns[i]

(* The loop: past the top of a turn, a breakpoint at pc has been asked     *)
(* about, and what u promised to stop at is in the table.                  *)
LoopOK ==
  /\ loop \in {"top", "prompt", "events", "tracer", "ended"}
  /\ stepEnabled \in BOOLEAN /\ breakLoop \in BOOLEAN /\ asked \in BOOLEAN
  /\ breakpoints \in Seq(Addr \cup {Elsewhere})
  /\ Len(breakpoints) <= MaxBreakpoints /\ IsInjective(breakpoints)
  /\ queue \in Seq(Event) /\ sent \in 0 .. MaxEvents
  /\ awaited \subseteq Addr /\ awaited \subseteq ToSet(breakpoints)
  /\ loop \in {"events", "tracer"} /\ IsBreakpoint(pc) => asked

IInv == MachineOK /\ LoopOK /\ TracerOK(tracer)

(* After power on nothing has been called and one breakpoint may be set.   *)
LEMMA InitIInv == Init => IInv
<1> SUFFICES ASSUME Init PROVE IInv
  OBVIOUS
<1>1. MachineOK
  <2>1. DOMAIN << >> = {} /\ << >> \in Seq(Addr) /\ Len(<< >>) = 0
    OBVIOUS
  <2>2. callStack = << >> /\ returns = << >>
    BY DEF Init
  <2> DEFINE none == [i \in {} |-> i]
  <2>3. none \in [DOMAIN callStack -> DOMAIN returns] /\ DOMAIN callStack = {}
    BY <2>1, <2>2
  <2> HIDE DEF none
  <2>4. Embedded(callStack, returns)
    BY <2>3 DEF Embedded
  <2>5. Start \in Addr /\ 0 <= MaxCallStack
    BY DebuggerAssumption
  <2>6. /\ pc \in Addr /\ returns \in Seq(Addr) /\ callStack \in Seq(Addr)
        /\ Len(callStack) = 0 /\ Len(returns) = 0 /\ refused = FALSE
    BY <2>1, <2>2, <2>5 DEF Init
  <2>7. Len(callStack) <= MaxCallStack
    BY <2>5, <2>6
  <2>8. \A i \in 1 .. Len(callStack) : callStack[i] + 1 = returns[i]
    BY <2>6
  <2>9. refused \in BOOLEAN /\ Len(callStack) = Len(returns)
    BY <2>6
  <2>10. QED
    BY <2>4, <2>6, <2>7, <2>8, <2>9 DEF MachineOK
<1>2. LoopOK
  <2>1. PICK a \in BreakAddresses : breakpoints = <<a>>
    BY DEF Init
  <2>2. a \in Addr /\ <<a>> \in Seq(Addr \cup {Elsewhere}) /\ Len(<<a>>) = 1
    BY DebuggerAssumption
  <2>3. DOMAIN <<a>> = {1}
    OBVIOUS
  <2>4. IsInjective(breakpoints)
    BY <2>1, <2>3 DEF IsInjective
  <2>5. << >> \in Seq(Event) /\ 0 \in 0 .. MaxEvents /\ 1 <= MaxBreakpoints
    BY DebuggerAssumption
  <2>6. QED
    BY <2>1, <2>2, <2>4, <2>5 DEF Init, LoopOK
<1>3. TracerOK(tracer)
  <2>1. << >> \in Seq(Addr) /\ NoIndex \in Int /\ 0 \in 0 .. 1 /\ Len(<< >>) = 0
    BY DEF NoIndex
  <2>2. Elsewhere \in Addr \cup {Elsewhere} /\ TraceCapacity \in Nat
    BY DebuggerAssumption
  <2>3. tracer \in Tracer
    BY <2>1, <2>2 DEF Init, Tracer
  <2>4. /\ tracer.history = << >> /\ ~tracer.allocated /\ tracer.index = NoIndex
    BY DEF Init
  <2>5. QED
    BY <2>1, <2>2, <2>3, <2>4 DEF TracerOK
<1>4. QED
  BY <1>1, <1>2, <1>3 DEF IInv

-----------------------------------------------------------------------------
(* Every step preserves it                                                 *)

(* Only an instruction moves the machine.                                  *)
LEMMA MachineSteps ==
  [Next]_vars => ExecuteJsr \/ ExecuteRts \/ ExecuteOther \/ UNCHANGED machine
BY DEF Next, Loop, vars, machine, Top, Answer, CommandStep, CommandContinue, CommandUp,
       CommandBreakpoint, CommandTracer, CommandScroll, TakeEvent, EventsTaken,
       TracerTakesEvents, ExecuteMagic, End, SdlEvent

(* Where an instruction can take pc.                                       *)
LEMMA ProgramAddresses ==
  ASSUME NEW a \in Addr
  PROVE  Program[a].to \subseteq Addr /\ (Program[a].op = "JSR" => a + 1 \in Addr)
BY DebuggerAssumption

(* A call and a return change both stacks alike, as long as there is room. *)
LEMMA NextMachineOK == MachineOK /\ [Next]_vars => MachineOK'
<1> SUFFICES ASSUME MachineOK, [Next]_vars PROVE MachineOK'
  OBVIOUS
<1> DEFINE n == Len(callStack)
           m == Len(returns)
<1>1. /\ n \in Nat /\ m \in Nat /\ MaxCallStack \in Nat /\ n <= MaxCallStack
      /\ callStack \in Seq(Addr) /\ returns \in Seq(Addr) /\ pc \in Addr
      /\ Embedded(callStack, returns) /\ refused \in BOOLEAN
  BY LenProperties, DebuggerAssumption DEF MachineOK
<1>2. CASE ExecuteJsr
  <2>1. /\ pc' \in Addr /\ pc + 1 \in Addr
        /\ returns' = Append(returns, pc + 1)
        /\ callStack' = IF n >= MaxCallStack THEN callStack ELSE Append(callStack, pc)
        /\ refused' = (refused \/ n >= MaxCallStack)
    BY <1>1, <1>2, ProgramAddresses DEF ExecuteJsr, PushSubroutineCall
  <2>2. /\ returns' \in Seq(Addr) /\ Len(returns') = m + 1
        /\ \A i \in 1 .. m : returns'[i] = returns[i]
        /\ returns'[m + 1] = pc + 1
    BY <1>1, <2>1, AppendProperties
  <2>3. CASE n >= MaxCallStack
    <3>1. Embedded(callStack', returns')
      BY <1>1, <2>1, <2>3, CallEmbedded
    <3>2. QED
      BY <1>1, <2>1, <2>2, <2>3, <3>1 DEF MachineOK
  <2>4. CASE ~(n >= MaxCallStack)
    <3>1. Embedded(callStack', returns')
      BY <1>1, <2>1, <2>4, CallEmbedded
    <3>2. /\ callStack' \in Seq(Addr) /\ Len(callStack') = n + 1
          /\ \A i \in 1 .. n : callStack'[i] = callStack[i]
          /\ callStack'[n + 1] = pc
      BY <1>1, <2>1, <2>4, AppendProperties
    <3>3. ASSUME ~refused'
          PROVE  /\ Len(callStack') = Len(returns')
                 /\ \A i \in 1 .. Len(callStack') : callStack'[i] + 1 = returns'[i]
      <4>1. n = m /\ \A i \in 1 .. n : callStack[i] + 1 = returns[i]
        BY <1>1, <2>1, <3>3 DEF MachineOK
      <4>2. ASSUME NEW i \in 1 .. n + 1 PROVE callStack'[i] + 1 = returns'[i]
        <5>1. i \in 1 .. n \/ i = n + 1
          BY <1>1
        <5>2. QED
          BY <1>1, <2>2, <3>2, <4>1, <5>1
      <4>3. QED
        BY <2>2, <3>2, <4>1, <4>2
    <3>4. refused' \in BOOLEAN /\ Len(callStack') <= MaxCallStack
      BY <1>1, <2>1, <2>4, <3>2
    <3>5. QED
      BY <2>1, <2>2, <3>1, <3>2, <3>3, <3>4 DEF MachineOK
  <2>5. QED
    BY <2>3, <2>4
<1>3. CASE ExecuteRts
  <2>1. /\ returns # << >> /\ returns' = Front(returns) /\ pc' = Last(returns)
        /\ callStack' = IF callStack = << >> THEN << >> ELSE Front(callStack)
        /\ refused' = (refused /\ returns' # << >>)
    BY <1>3 DEF ExecuteRts, PopSubroutineCall
  <2>2. /\ returns' \in Seq(Addr) /\ Len(returns') = m - 1 /\ m > 0 /\ pc' \in Addr
        /\ \A i \in 1 .. m - 1 : returns'[i] = returns[i]
    BY <1>1, <2>1, FrontLast
  <2>3. Embedded(callStack', returns')
    BY <1>1, <2>1, ReturnEmbedded
  <2>4. /\ callStack' \in Seq(Addr) /\ Len(callStack') = IF n = 0 THEN 0 ELSE n - 1
        /\ \A i \in 1 .. n - 1 : callStack'[i] = callStack[i]
    <3>1. CASE callStack = << >>
      BY <1>1, <2>1, <3>1
    <3>2. CASE callStack # << >>
      BY <1>1, <2>1, <3>2, FrontLast
    <3>3. QED
      BY <3>1, <3>2
  <2>5. ASSUME ~refused'
        PROVE  /\ Len(callStack') = Len(returns')
               /\ \A i \in 1 .. Len(callStack') : callStack'[i] + 1 = returns'[i]
    <3>1. CASE ~refused
      <4>1. n = m /\ \A i \in 1 .. n : callStack[i] + 1 = returns[i]
        BY <1>1, <3>1 DEF MachineOK
      <4> HIDE DEF n, m
      <4>2. QED
        BY <1>1, <2>2, <2>4, <4>1
    <3>2. CASE returns' = << >>
      <4>1. Len(returns') = 0 /\ DOMAIN returns' = {}
        BY <3>2
      <4>2. DOMAIN callStack' = {}
        BY <2>3, <4>1 DEF Embedded
      <4>3. Len(callStack') = 0
        BY <2>4, <4>2, LenProperties
      <4>4. QED
        BY <4>1, <4>3
    <3>3. QED
      BY <1>1, <2>1, <2>5, <3>1, <3>2
  <2>6. refused' \in BOOLEAN /\ Len(callStack') <= MaxCallStack
    BY <1>1, <2>1, <2>4
  <2>7. QED
    BY <2>2, <2>3, <2>4, <2>5, <2>6 DEF MachineOK
<1>4. CASE ExecuteOther
  <2>1. pc' \in Addr /\ UNCHANGED <<callStack, returns, refused>>
    BY <1>1, <1>4, ProgramAddresses DEF ExecuteOther
  <2>2. QED
    BY <2>1 DEF MachineOK, Embedded
<1>5. CASE UNCHANGED machine
  BY <1>5 DEF machine, MachineOK, Embedded
<1>6. QED
  BY <1>2, <1>3, <1>4, <1>5, MachineSteps

(* The history follows the commands and the instructions.                  *)
LEMMA NextTracerOK == MachineOK /\ TracerOK(tracer) /\ [Next]_vars => TracerOK(tracer)'
<1> SUFFICES ASSUME MachineOK, TracerOK(tracer), [Next]_vars PROVE TracerOK(tracer)'
  OBVIOUS
<1>1. ASSUME TracerOK(tracer') PROVE TracerOK(tracer)'
  BY <1>1 DEF TracerOK
<1>2. CASE Top
  BY <1>1, <1>2, TracerWindow DEF Top
<1>3. CASE CommandStep
  BY <1>1, <1>3, TracerWindow DEF CommandStep
<1>4. CASE CommandTracer
  BY <1>1, <1>4, TracerWindow DEF CommandTracer
<1>5. CASE CommandScroll
  BY <1>1, <1>5, TracerScroll DEF CommandScroll
<1>6. CASE TracerTakesEvents
  <2>1. (~Contains(queue, "quit")) \in BOOLEAN
    BY DEF Contains
  <2>2. QED
    BY <1>1, <1>6, <2>1, TracerWindow DEF TracerTakesEvents
<1>7. CASE ExecuteJsr \/ ExecuteRts \/ ExecuteOther
  <2>1. pc' \in Addr
    BY NextMachineOK DEF MachineOK
  <2>2. tracer' = AddTraceEntry(tracer, pc') \/ tracer' = tracer
    BY <1>7 DEF ExecuteJsr, ExecuteRts, ExecuteOther, Executed
  <2>3. QED
    BY <1>1, <2>1, <2>2, AddTraceEntryOK
<1>8. CASE UNCHANGED tracer
  BY <1>1, <1>8
<1>9. QED
  BY <1>2, <1>3, <1>4, <1>5, <1>6, <1>7, <1>8
  DEF Next, Loop, vars, CommandContinue, CommandUp, CommandBreakpoint,
      TakeEvent, EventsTaken, ExecuteMagic, End, SdlEvent

(* What u reads is an address, and on a whole call stack the innermost     *)
(* return address.                                                         *)
LEMMA UpReturnsToCaller ==
  ASSUME MachineOK
  PROVE  /\ UpAddresses \subseteq Addr \cup {Elsewhere}
         /\ ~refused /\ returns # << >> => UpAddresses = {Last(returns)}
<1> DEFINE n == Len(callStack)
<1>1. /\ callStack \in Seq(Addr) /\ returns \in Seq(Addr) /\ Embedded(callStack, returns)
  BY DEF MachineOK
<1>2. CASE callStack = << >>
  <2>1. UpAddresses = StrayAddresses
    BY <1>2 DEF UpAddresses
  <2>2. refused \/ returns = << >>
    <3>1. Len(callStack) = 0
      BY <1>2
    <3>2. ~refused => Len(returns) = 0
      BY <3>1 DEF MachineOK
    <3>3. QED
      BY <1>1, <3>2, EmptySeq
  <2>3. QED
    BY <2>1, <2>2, DebuggerAssumption
<1>3. CASE callStack # << >>
  <2>1. /\ UpAddresses = {Last(callStack) + 1} /\ Last(callStack) = callStack[n]
        /\ n \in Nat \ {0} /\ DOMAIN callStack = 1 .. n
    BY <1>1, <1>3, FrontLast, LenProperties DEF UpAddresses
  <2>2. callStack[n] + 1 \in Addr
    <3>1. PICK open \in [DOMAIN callStack -> DOMAIN returns] :
            \A i \in DOMAIN callStack : callStack[i] + 1 = returns[open[i]]
      BY <1>1 DEF Embedded
    <3>2. open[n] \in 1 .. Len(returns) /\ callStack[n] + 1 = returns[open[n]]
      BY <1>1, <2>1, <3>1, LenProperties
    <3>3. QED
      BY <1>1, <3>2, ElementOfSeq
  <2>3. ASSUME ~refused, returns # << >> PROVE callStack[n] + 1 = Last(returns)
    BY <2>1, <2>3 DEF MachineOK, Last
  <2>4. QED
    BY <2>1, <2>2, <2>3
<1>4. QED
  BY <1>2, <1>3

(* The loop keeps its promises about breakpoints.                          *)
LEMMA NextLoopOK == MachineOK /\ LoopOK /\ [Next]_vars => LoopOK'
<1> SUFFICES ASSUME MachineOK, LoopOK, [Next]_vars PROVE LoopOK'
  OBVIOUS
<1>1. BreakAddresses \subseteq Addr /\ MaxEvents \in Nat
  BY DebuggerAssumption
<1>2. CASE Top
  BY <1>2 DEF Top, machine, LoopOK, IsBreakpoint
<1>3. CASE CommandStep \/ CommandContinue
  BY <1>3 DEF CommandStep, CommandContinue, Answer, machine, LoopOK
<1>4. CASE CommandUp
  <2>1. PICK a \in UpAddresses : breakpoints' = AddBreakpoint(breakpoints, a)
    BY <1>4 DEF CommandUp
  <2>2. /\ breakpoints' \in Seq(Addr \cup {Elsewhere}) /\ IsInjective(breakpoints')
        /\ Len(breakpoints') <= MaxBreakpoints
        /\ Len(breakpoints) < MaxBreakpoints /\ a \notin ToSet(breakpoints) =>
             ToSet(breakpoints') = ToSet(breakpoints) \cup {a}
    <3> DEFINE S == Addr \cup {Elsewhere}
    <3>1. /\ breakpoints \in Seq(S) /\ IsInjective(breakpoints)
          /\ Len(breakpoints) <= MaxBreakpoints
      BY DEF LoopOK
    <3>2. a \in S
      BY UpReturnsToCaller
    <3> HIDE DEF S
    <3>3. LET new == AddBreakpoint(breakpoints, a) IN
          /\ new \in Seq(S) /\ IsInjective(new) /\ Len(new) <= MaxBreakpoints
          /\ Len(breakpoints) < MaxBreakpoints /\ a \notin ToSet(breakpoints) =>
               ToSet(new) = ToSet(breakpoints) \cup {a}
      BY <3>1, <3>2, AddBreakpointTable
    <3>4. QED
      BY <2>1, <3>3 DEF S
  <2>3. awaited' \subseteq Addr /\ awaited' \subseteq ToSet(breakpoints')
    <3>1. CASE /\ returns # << >> /\ ~refused
               /\ Len(breakpoints) < MaxBreakpoints
               /\ ~IsBreakpoint(Last(returns))
      <4>1. awaited' = awaited \cup {Last(returns)}
        BY <1>4, <3>1 DEF CommandUp
      <4>2. a = Last(returns) /\ Last(returns) \in Addr
        BY <2>1, <3>1, UpReturnsToCaller, FrontLast DEF MachineOK
      <4>3. QED
        BY <2>2, <3>1, <4>1, <4>2 DEF LoopOK, IsBreakpoint
    <3>2. CASE ~(/\ returns # << >> /\ ~refused
                 /\ Len(breakpoints) < MaxBreakpoints
                 /\ ~IsBreakpoint(Last(returns)))
      <4>1. awaited' = awaited \ (ToSet(breakpoints) \ ToSet(breakpoints'))
        BY <1>4, <3>2 DEF CommandUp
      <4>2. QED
        BY <4>1 DEF LoopOK
    <3>3. QED
      BY <3>1, <3>2
  <2>4. QED
    BY <1>4, <2>2, <2>3 DEF CommandUp, Answer, LoopOK
<1>5. ASSUME NEW a \in BreakAddresses, CommandBreakpoint(a) PROVE LoopOK'
  <2>1. /\ breakpoints' \in Seq(Addr \cup {Elsewhere}) /\ IsInjective(breakpoints')
        /\ Len(breakpoints') <= MaxBreakpoints
    BY <1>1, <1>5, AddBreakpointTable DEF LoopOK, CommandBreakpoint
  <2>2. awaited' \subseteq Addr /\ awaited' \subseteq ToSet(breakpoints')
    BY <1>5 DEF CommandBreakpoint, LoopOK
  <2>3. QED
    BY <1>5, <2>1, <2>2 DEF CommandBreakpoint, Answer, LoopOK
<1>6. CASE CommandTracer \/ CommandScroll
  BY <1>6 DEF CommandTracer, CommandScroll, Answer, LoopOK
<1>7. CASE TakeEvent
  <2>1. queue' \in Seq(Event)
    BY <1>7, HeadTailProperties DEF TakeEvent, LoopOK
  <2>2. QED
    BY <1>7, <2>1 DEF TakeEvent, LoopOK, IsBreakpoint, machine
<1>8. CASE EventsTaken
  BY <1>8 DEF EventsTaken, LoopOK, IsBreakpoint, machine
<1>9. CASE TracerTakesEvents
  <2>1. << >> \in Seq(Event)
    OBVIOUS
  <2>2. QED
    BY <1>9, <2>1 DEF TracerTakesEvents, LoopOK, IsBreakpoint, machine
<1>10. CASE ExecuteJsr \/ ExecuteRts \/ ExecuteOther
  <2>1. Executed
    BY <1>10 DEF ExecuteJsr, ExecuteRts, ExecuteOther
  <2>2. QED
    BY <2>1 DEF Executed, LoopOK
<1>11. CASE ExecuteMagic \/ End
  BY <1>11 DEF ExecuteMagic, End, LoopOK
<1>12. ASSUME NEW e \in Event, SdlEvent(e) PROVE LoopOK'
  <2>1. queue' \in Seq(Event) /\ sent' \in 0 .. MaxEvents
    BY <1>1, <1>12, AppendProperties DEF SdlEvent, LoopOK
  <2>2. QED
    BY <1>12, <2>1 DEF SdlEvent, LoopOK, IsBreakpoint, machine
<1>13. CASE UNCHANGED vars
  BY <1>13 DEF vars, LoopOK, IsBreakpoint
<1>14. QED
  BY <1>2, <1>3, <1>4, <1>5, <1>6, <1>7, <1>8, <1>9, <1>10, <1>11, <1>12, <1>13
  DEF Next, Loop

(* The inductive invariant holds in every reachable state.                 *)
THEOREM Invariance == Spec => []IInv
<1>1. IInv /\ [Next]_vars => IInv'
  BY NextMachineOK, NextLoopOK, NextTracerOK DEF IInv
<1>2. QED
  BY <1>1, InitIInv, PTL DEF Spec

-----------------------------------------------------------------------------
(* The tables keep to their sizes and the index to the history.            *)
THEOREM TypeCorrect == Spec => []TypeOK
<1>1. IInv => TypeOK
  BY DEF IInv, MachineOK, LoopOK, TracerOK, TypeOK
<1>2. QED
  BY <1>1, Invariance, PTL

(* The shadow call stack names open calls only, and while none was         *)
(* refused all of them.                                                    *)
THEOREM CallStackCorrect == Spec => []CallStackNamesOpenCalls
<1>1. IInv => CallStackNamesOpenCalls
  BY DEF IInv, MachineOK, Embedded, CallStackNamesOpenCalls
<1>2. QED
  BY <1>1, Invariance, PTL

(* [ and ] count from the entry on the screen, until the history drops one.*)
THEOREM ScrollIndexCorrect == Spec => []ScrollsFromEntryShown
<1>1. IInv => ScrollsFromEntryShown
  <2> SUFFICES ASSUME IInv, tracer.mode = 1, tracer.allocated, ~tracer.shifted
               PROVE  /\ tracer.index < Len(tracer.history)
                      /\ tracer.history[tracer.index + 1] = tracer.shown
    BY DEF ScrollsFromEntryShown
  <2>1. Len(tracer.history) \in Nat /\ NoIndex = -1
    BY LenProperties DEF IInv, TracerOK, Tracer, NoIndex
  <2>2. QED
    BY <2>1 DEF IInv, TracerOK
<1>2. QED
  BY <1>1, Invariance, PTL

(* No instruction at a breakpoint is executed before the prompt was        *)
(* answered for it, and no address is in the table twice.                  *)
THEOREM BreakpointsStop == Spec => StopsAtBreakpoints
<1>1. IInv /\ [Next]_vars =>
        /\ loop = "tracer" /\ loop' # loop /\ IsBreakpoint(pc) => asked
        /\ IsInjective(breakpoints')
  BY NextLoopOK DEF IInv, LoopOK
<1>2. QED
  BY <1>1, Invariance, PTL DEF Spec, StopsAtBreakpoints

(* Control does not come back to a caller that u promised to stop in       *)
(* without stopping there.                                                 *)
THEOREM UpStops == Spec => UpStopsInCaller
<1>1. IInv /\ [Next]_vars =>
        (loop = "top" /\ pc \in awaited /\ loop' \notin {"top", "ended"} => loop' = "prompt")
  <2> SUFFICES ASSUME IInv, [Next]_vars, loop = "top", pc \in awaited,
                      loop' \notin {"top", "ended"}
               PROVE  loop' = "prompt"
    OBVIOUS
  <2>1. IsBreakpoint(pc)
    BY DEF IInv, LoopOK, IsBreakpoint
  <2>2. CASE Top
    BY <2>1, <2>2 DEF Top
  <2>3. CASE ~Top
    BY <2>3 DEF Next, Loop, vars, Answer, CommandStep, CommandContinue, CommandUp,
                CommandBreakpoint, CommandTracer, CommandScroll, TakeEvent, EventsTaken,
                TracerTakesEvents, ExecuteJsr, ExecuteRts, ExecuteOther, Executed,
                ExecuteMagic, End, SdlEvent
  <2>4. QED
    BY <2>2, <2>3
<1>2. QED
  BY <1>1, Invariance, PTL DEF Spec, UpStopsInCaller
=============================================================================
