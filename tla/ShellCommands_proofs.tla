------------------------- MODULE ShellCommands_proofs -------------------------
(***************************************************************************)
(* What the shell does with a command line, proved for every value of the  *)
(* constants, in three parts:                                              *)
(*                                                                         *)
(*  - the dispatch, for every command line.  The names of the commands are *)
(*    data of the program: what the proofs use of them is stated once, in  *)
(*    NameFacts and FirstCharacters;                                       *)
(*  - the word game, for every list of words and display;                  *)
(*  - the file utilities, for every image that holds the tree and every    *)
(*    path.                                                                *)
(*                                                                         *)
(* The three specifications are independent of each other: a theorem       *)
(* speaks of one of them, which its hypothesis names (DispatchSpec, Spec,  *)
(* FsSpec).  Folds, the first section, serves the last two: wg_print_string*)
(* prints the characters of a text one by one, a path is followed one      *)
(* component after the other.                                              *)
(***************************************************************************)
EXTENDS Dispatch, WordGame, RomFS, LcdTerminal_proofs, SequenceTheorems,
        NaturalsInduction, WellFoundedInduction, TLAPS

-----------------------------------------------------------------------------
(* Folds                                                                   *)

(* Induction over the numbers for which something holds.                   *)
LEMMA NatSetInduction ==
  ASSUME NEW S \in SUBSET Nat, 0 \in S, \A k \in S : k + 1 \in S
  PROVE  S = Nat
<1> DEFINE R == OpToRel(<, Nat)
           T == Nat \ S
<1>1. IsWellFoundedOn(R, Nat) /\ \A c \in Nat, d \in Nat : d < c => <<d, c>> \in R
  BY NatLessThanWellFounded DEF OpToRel
<1> HIDE DEF R
<1>2. CASE T # {}
  <2>1. PICK m \in T : \A d \in T : ~(<<d, m>> \in R)
    <3> HIDE DEF T
    <3>1. T \subseteq Nat
      BY DEF T
    <3>2. QED
      BY <1>1, <1>2, <3>1, WFMin
  <2>2. m \in Nat /\ m # 0
    OBVIOUS
  <2>3. m - 1 \in Nat /\ m - 1 < m /\ (m - 1) + 1 = m
    BY <2>2
  <2>4. m - 1 \notin T
    BY <1>1, <2>1, <2>2, <2>3, Zenon
  <2>5. m - 1 \in S
    BY <2>3, <2>4
  <2>6. QED
    BY <2>3, <2>5
<1>3. QED
  BY <1>2

(* The largest element of a set with an upper bound in it.                 *)
LEMMA MaxIs ==
  ASSUME NEW s \in SUBSET Nat, NEW m \in s, \A k \in s : k <= m
  PROVE  Max(s) = m
<1>1. \A k \in s : m >= k
  OBVIOUS
<1>2. Max(s) \in s /\ \A k \in s : Max(s) >= k
  BY <1>1 DEF Max
<1>3. Max(s) \in Nat /\ Max(s) >= m /\ m >= Max(s)
  BY <1>1, <1>2
<1>4. QED
  BY <1>3

(* The function inside a fold over a sequence of n elements exists: step   *)
(* is what the fold does with the element at a place.                      *)
FoldsUpTo(g, base, step, k) ==
  \A s \in SUBSET (1 .. k) :
    /\ s # {} => Max(s) \in s
    /\ g[s] = IF s = {} THEN base ELSE step[<<g[s \ {Max(s)}], Max(s)>>]

(* A fold over the first k elements gives one over the first k + 1: in a   *)
(* set the new element is the largest.                                     *)
LEMMA FoldExtends ==
  ASSUME NEW X, NEW n \in Nat, NEW base \in X, NEW step \in [X \X (1 .. n) -> X],
         NEW k \in Nat, k + 1 <= n,
         NEW f \in [SUBSET (1 .. k) -> X], FoldsUpTo(f, base, step, k)
  PROVE  \E g \in [SUBSET (1 .. k + 1) -> X] : FoldsUpTo(g, base, step, k + 1)
<1> DEFINE l == k + 1
           g == [s \in SUBSET (1 .. l) |->
                   IF l \in s THEN step[<<f[s \ {l}], l>>] ELSE f[s]]
<1>1. /\ l \in 1 .. n /\ l \in Nat /\ 1 .. l \subseteq Nat
      /\ \A i \in 1 .. l : i <= l /\ (i # l => i \in 1 .. k)
      /\ 1 .. k \subseteq 1 .. l /\ l \notin 1 .. k
  OBVIOUS
<1> HIDE DEF l
<1>2. ASSUME NEW s \in SUBSET (1 .. l), l \notin s
      PROVE  s \in SUBSET (1 .. k)
  BY <1>1, <1>2
<1>3. ASSUME NEW s \in SUBSET (1 .. l)
      PROVE  s \ {l} \in SUBSET (1 .. k) /\ s \ {l} \in SUBSET (1 .. l) /\ l \notin s \ {l}
  BY <1>1
<1>4. ASSUME NEW s \in SUBSET (1 .. l)
      PROVE  (IF l \in s THEN step[<<f[s \ {l}], l>>] ELSE f[s]) \in X
  <2>1. CASE l \in s
    <3>1. f[s \ {l}] \in X
      BY <1>3
    <3>2. <<f[s \ {l}], l>> \in X \X (1 .. n)
      BY <1>1, <3>1
    <3>3. QED
      BY <2>1, <3>2
  <2>2. CASE l \notin s
    BY <1>2, <2>2
  <2>3. QED
    BY <2>1, <2>2
<1>5. g \in [SUBSET (1 .. l) -> X]
  BY <1>4
<1>6. \A s \in SUBSET (1 .. l) :
        g[s] = IF l \in s THEN step[<<f[s \ {l}], l>>] ELSE f[s]
  OBVIOUS
<1> HIDE DEF g
<1>7. ASSUME NEW s \in SUBSET (1 .. l)
      PROVE  /\ s # {} => Max(s) \in s
             /\ g[s] = IF s = {} THEN base ELSE step[<<g[s \ {Max(s)}], Max(s)>>]
  <2>1. CASE l \in s
    <3>1. Max(s) = l
      <4>1. s \in SUBSET Nat /\ \A i \in s : i <= l
        BY <1>1
      <4>2. QED
        BY <2>1, <4>1, MaxIs
    <3>2. g[s \ {l}] = f[s \ {l}]
      BY <1>3, <1>6
    <3>3. QED
      BY <1>6, <2>1, <3>1, <3>2
  <2>2. CASE l \notin s
    <3>1. s \in SUBSET (1 .. k)
      BY <1>2, <2>2
    <3>2. l \notin s \ {Max(s)} /\ s \ {Max(s)} \in SUBSET (1 .. l)
      BY <2>2
    <3>3. g[s] = f[s] /\ g[s \ {Max(s)}] = f[s \ {Max(s)}]
      BY <1>6, <2>2, <3>2
    <3>4. /\ s # {} => Max(s) \in s
          /\ f[s] = IF s = {} THEN base ELSE step[<<f[s \ {Max(s)}], Max(s)>>]
      BY <3>1 DEF FoldsUpTo
    <3>5. QED
      BY <3>3, <3>4
  <2>3. QED
    BY <2>1, <2>2
<1>8. QED
  BY <1>5, <1>7 DEF FoldsUpTo, l

(* So there is one over all n.                                             *)
LEMMA FoldExists ==
  ASSUME NEW X, NEW n \in Nat, NEW base \in X, NEW step \in [X \X (1 .. n) -> X]
  PROVE  \E g \in [SUBSET (1 .. n) -> X] : FoldsUpTo(g, base, step, n)
<1> DEFINE S == {k \in Nat : k <= n =>
                   \E g \in [SUBSET (1 .. k) -> X] : FoldsUpTo(g, base, step, k)}
<1>1. 0 \in S
  <2> DEFINE g == [s \in SUBSET (1 .. 0) |-> base]
  <2>1. g \in [SUBSET (1 .. 0) -> X]
    OBVIOUS
  <2>2. \A s \in SUBSET (1 .. 0) : s = {}
    OBVIOUS
  <2>3. FoldsUpTo(g, base, step, 0)
    BY <2>2 DEF FoldsUpTo
  <2>4. QED
    BY <2>1, <2>3
<1>2. ASSUME NEW k \in S PROVE k + 1 \in S
  <2>1. k \in Nat /\ k + 1 \in Nat
    OBVIOUS
  <2>2. ASSUME k + 1 <= n
        PROVE  \E g \in [SUBSET (1 .. k + 1) -> X] : FoldsUpTo(g, base, step, k + 1)
    <3>1. k <= n
      BY <2>1, <2>2
    <3>2. PICK f \in [SUBSET (1 .. k) -> X] : FoldsUpTo(f, base, step, k)
      BY <3>1
    <3>3. QED
      BY <2>1, <2>2, <3>2, FoldExtends
  <2>3. QED
    BY <2>1, <2>2
<1>3. S \in SUBSET Nat
  OBVIOUS
<1>4. S = Nat
  <2> HIDE DEF S
  <2>1. QED
    BY <1>1, <1>2, <1>3, NatSetInduction
<1>5. n \in S
  BY <1>4, Zenon
<1>6. n <= n => \E g \in [SUBSET (1 .. n) -> X] : FoldsUpTo(g, base, step, n)
  BY <1>5, Zenon
<1> HIDE DEF S
<1>7. n <= n
  OBVIOUS
<1>8. QED
  BY <1>6, <1>7, Zenon

-----------------------------------------------------------------------------
(* Dispatch: the names                                                     *)

(* The characters the names are made of.                                   *)
NameChar == {"w", "o", "r", "d", "g", "a", "m", "e", "c", "p", "l", "s"}

(* wordgame_cmd, cd_cmd, pwd_cmd, ls_cmd: no name holds the byte that ends *)
(* it.                                                                     *)
LEMMA NameFacts ==
  /\ \A u \in Utility :
       /\ Name[u] \in Seq(NameChar) /\ Len(Name[u]) \in Nat \ {0, 1}
       /\ \A i \in 1 .. Len(Name[u]) : Name[u][i] # NUL
  /\ Len(Name["wordgame"]) = 8
  /\ \A u \in Utility \ {"wordgame"} : Len(Name[u]) \in {2, 3}
<1>1. /\ Name["wordgame"] = <<"w", "o", "r", "d", "g", "a", "m", "e">>
      /\ Name["cd"] = <<"c", "d">> /\ Name["pwd"] = <<"p", "w", "d">>
      /\ Name["ls"] = <<"l", "s">>
  BY DEF Name
<1>2. /\ Name["wordgame"] \in Seq(NameChar) /\ Len(Name["wordgame"]) = 8
      /\ \A i \in 1 .. 8 : Name["wordgame"][i] # NUL
  <2>1. Name["wordgame"] \in Seq(NameChar) /\ Len(Name["wordgame"]) = 8
    BY <1>1 DEF NameChar
  <2>2. ASSUME NEW i \in 1 .. 8 PROVE Name["wordgame"][i] # NUL
    <3>1. \/ i = 1 \/ i = 2 \/ i = 3 \/ i = 4 \/ i = 5 \/ i = 6 \/ i = 7 \/ i = 8
      OBVIOUS
    <3>2. QED
      BY <1>1, <3>1 DEF NUL
  <2>3. QED
    BY <2>1, <2>2
<1>3. /\ Name["cd"] \in Seq(NameChar) /\ Len(Name["cd"]) = 2
      /\ \A i \in 1 .. 2 : Name["cd"][i] # NUL
  BY <1>1 DEF NUL, NameChar
<1>4. /\ Name["pwd"] \in Seq(NameChar) /\ Len(Name["pwd"]) = 3
      /\ \A i \in 1 .. 3 : Name["pwd"][i] # NUL
  BY <1>1 DEF NUL, NameChar
<1>5. /\ Name["ls"] \in Seq(NameChar) /\ Len(Name["ls"]) = 2
      /\ \A i \in 1 .. 2 : Name["ls"][i] # NUL
  BY <1>1 DEF NUL, NameChar
<1>6. ASSUME NEW u \in Utility
      PROVE  /\ Name[u] \in Seq(NameChar) /\ Len(Name[u]) \in Nat \ {0, 1}
             /\ \A i \in 1 .. Len(Name[u]) : Name[u][i] # NUL
             /\ u # "wordgame" => Len(Name[u]) \in {2, 3}
  <2>1. CASE u = "wordgame"
    BY <1>2, <2>1
  <2>2. CASE u = "cd"
    BY <1>3, <2>2
  <2>3. CASE u = "pwd"
    BY <1>4, <2>3
  <2>4. CASE u = "ls"
    BY <1>5, <2>4
  <2>5. QED
    BY <2>1, <2>2, <2>3, <2>4 DEF Utility
<1>7. QED
  BY <1>2, <1>6

(* The first character tells the names apart.                              *)
LEMMA FirstCharacters ==
  /\ Name["wordgame"][1] = "w" /\ Name["cd"][1] = "c"
  /\ Name["pwd"][1] = "p" /\ Name["ls"][1] = "l"
BY DEF Name

(* Inside a name its bytes are its characters.                             *)
LEMMA NameByte ==
  ASSUME NEW u \in Utility, NEW j \in Nat, j < Len(Name[u])
  PROVE  ByteAt(Name[u], j) = Name[u][j + 1] /\ ByteAt(Name[u], j) # NUL
<1>1. j + 1 \in 1 .. Len(Name[u])
  BY NameFacts
<1>2. QED
  BY <1>1, NameFacts DEF ByteAt

(* A byte of the command line that is one of a name is a character of it.  *)
LEMMA CommandByte ==
  ASSUME NEW u \in Utility, NEW i \in Nat, NEW j \in Nat, j < Len(Name[u]),
         ByteAt(command, i) = ByteAt(Name[u], j)
  PROVE  i < Len(command) /\ command[i + 1] = Name[u][j + 1]
BY NameByte DEF ByteAt

(* One sequence begins with another when the elements agree.               *)
LEMMA PrefixIsPointwise ==
  ASSUME NEW S, NEW s \in Seq(S), NEW t \in Seq(S)
  PROVE  IsPrefix(s, t) <=> Len(s) <= Len(t) /\ \A i \in 1 .. Len(s) : s[i] = t[i]
<1>1. Len(s) \in Nat /\ Len(t) \in Nat
  OBVIOUS
<1> DEFINE n == Len(s)
           p == SubSeq(t, 1, n)
<1>2. SubSeq(s, 1, n) = s
  BY SubSeqFull
<1>3. ASSUME n <= Len(t)
      PROVE  p \in Seq(S) /\ Len(p) = n /\ \A i \in 1 .. n : p[i] = t[i]
  <2>1. \A i \in 1 .. n : t[i] \in S
    BY <1>1, <1>3
  <2>2. n \in Int /\ 1 \in Int
    BY <1>1
  <2> HIDE DEF n
  <2>3. /\ p \in Seq(S) /\ Len(p) = IF 1 <= n THEN n - 1 + 1 ELSE 0
        /\ \A i \in 1 .. n - 1 + 1 : p[i] = t[1 + i - 1]
    BY <2>1, <2>2, SubSeqProperties
  <2>4. n \in Nat
    BY <1>1 DEF n
  <2> HIDE DEF p
  <2>5. Len(p) = n
    BY <2>3, <2>4
  <2>6. ASSUME NEW i \in 1 .. n PROVE p[i] = t[i]
    <3>1. i \in 1 .. n - 1 + 1 /\ 1 + i - 1 = i
      BY <2>4
    <3>2. QED
      BY <2>3, <3>1
  <2>7. QED
    BY <2>3, <2>5, <2>6
<1> HIDE DEF p
<1>4. n <= Len(t) => (s = p <=> \A i \in 1 .. n : s[i] = t[i])
  <2> SUFFICES ASSUME n <= Len(t), \A i \in 1 .. n : s[i] = t[i]
               PROVE  s = p
    BY <1>3
  <2>1. p \in Seq(S) /\ Len(s) = Len(p) /\ \A i \in 1 .. Len(s) : s[i] = p[i]
    BY <1>3
  <2>2. QED
    BY <2>1, SeqEqual
<1>5. QED
  BY <1>2, <1>4 DEF IsPrefix, p

-----------------------------------------------------------------------------
(* The inductive invariant                                                 *)

(* The first n characters of the line are those of the name.               *)
Agree(u, n) == n <= Len(command) /\ \A i \in 1 .. n : Name[u][i] = command[i]

(* What is known of the line when the names before that of the label have  *)
(* been refused.                                                           *)
Refused(seen) ==
  \A u \in seen : ~IsPrefix(Name[u], command) /\ (u # "wordgame" => command[1] # Name[u][1])

(* The names compared before that of the label.                            *)
Before == [ wordgame |-> {}, cd |-> {"wordgame"}, pwd |-> {"wordgame", "cd"},
            ls |-> {"wordgame", "cd", "pwd"} ]

(* X and Y move together; check_wordgame has found all up to X to agree.   *)
CheckOK ==
  label[1] = "check" =>
    /\ x = y /\ Refused(Before[label[2]])
    /\ label[2] = "wordgame" => x < Len(Name["wordgame"]) /\ Agree("wordgame", x)

(* A match is one of the character at X, and for the other names at 0.     *)
MatchOK ==
  label[1] = "match" =>
    /\ x = y /\ Refused(Before[label[2]])
    /\ x < Len(Name[label[2]]) /\ Agree(label[2], x + 1)
    /\ label[2] # "wordgame" => x = 0

(* Of the commands wordgame alone is called.                               *)
EndOK ==
  /\ label[1] = "call" => label[2] = "wordgame" /\ IsPrefix(Name["wordgame"], command)
  /\ label = <<"unknown">> => Refused(Utility)
  /\ label = <<"returned">> => ~Spins(command)

(* The inductive invariant of the dispatch.                                *)
DispatchIInv == DispatchTypeOK /\ CheckOK /\ MatchOK /\ EndOK

(* A label is one of the three with a name, or one of the two without.     *)
LEMMA LabelFacts ==
  /\ \A k \in {"check", "match", "call"}, u \in Utility :
       <<k, u>> \in Labels /\ <<k, u>>[1] = k /\ <<k, u>>[2] = u
  /\ <<"unknown">> \in Labels /\ <<"unknown">>[1] = "unknown"
  /\ <<"returned">> \in Labels /\ <<"returned">>[1] = "returned"
  /\ <<"unknown">> # <<"returned">>
BY DEF Labels

(* The line is a sequence of characters, and not empty: it is compared     *)
(* with a name character by character.                                     *)
LEMMA CommandFacts ==
  ASSUME DispatchTypeOK
  PROVE  /\ Len(command) \in Nat \ {0}
         /\ \A u \in Utility :
              IsPrefix(Name[u], command) <=> Agree(u, Len(Name[u]))
<1> DEFINE S == ToSet(command)
           T == NameChar \cup S
<1>1. command \in Seq(S) /\ command # << >>
  BY DispatchAssumption DEF DispatchTypeOK
<1> HIDE DEF S
<1>2. Len(command) \in Nat \ {0} /\ command \in Seq(T)
  BY <1>1, EmptySeq
<1>3. ASSUME NEW u \in Utility
      PROVE  IsPrefix(Name[u], command) <=> Agree(u, Len(Name[u]))
  <2> DEFINE s == Name[u]
  <2>1. s \in Seq(T)
    BY NameFacts
  <2> HIDE DEF T, s
  <2>2. IsPrefix(s, command) <=>
          Len(s) <= Len(command) /\ \A i \in 1 .. Len(s) : s[i] = command[i]
    BY <1>2, <2>1, PrefixIsPointwise
  <2>3. QED
    BY <2>2 DEF Agree, s
<1>4. QED
  BY <1>2, <1>3

(* process_shell_cmd is entered at check_wordgame with both registers 0.   *)
LEMMA DispatchInitEstablishes == DispatchInit => DispatchIInv
<1> SUFFICES ASSUME DispatchInit PROVE DispatchIInv
  OBVIOUS
<1>1. "wordgame" \in Utility
  BY DEF Utility
<1>2. label = <<"check", "wordgame">> /\ label \in Labels /\ label[1] = "check"
      /\ label[2] = "wordgame" /\ x = 0 /\ y = 0
  BY <1>1, LabelFacts DEF DispatchInit
<1>3. DispatchTypeOK
  BY <1>2 DEF DispatchInit, DispatchTypeOK
<1>4. CheckOK
  <2>1. Agree("wordgame", 0) /\ 0 < Len(Name["wordgame"])
    BY <1>3, CommandFacts, NameFacts DEF Agree
  <2>2. Before["wordgame"] = {}
    BY DEF Before
  <2>3. Refused({})
    BY DEF Refused
  <2>4. QED
    BY <1>2, <2>1, <2>2, <2>3 DEF CheckOK
<1>5. MatchOK /\ EndOK
  BY <1>2, LabelFacts DEF MatchOK, EndOK
<1>6. QED
  BY <1>3, <1>4, <1>5 DEF DispatchIInv

-----------------------------------------------------------------------------
(* No step destroys the invariant                                          *)

(* check_wordgame: a character that differs refuses the name; the others   *)
(* up to it agreed.                                                        *)
LEMMA CheckWordgameKeeps ==
  ASSUME DispatchIInv, CheckWordgame
  PROVE  DispatchIInv'
<1> DEFINE n == Name["wordgame"]
<1>1. /\ label = <<"check", "wordgame">> /\ x' = x /\ y' = y /\ command' = command
      /\ label' = IF ByteAt(command, x) = ByteAt(n, y)
                    THEN <<"match", "wordgame">> ELSE <<"check", "cd">>
  BY DEF CheckWordgame, Compare, Otherwise
<1>2. "wordgame" \in Utility /\ "cd" \in Utility
  BY DEF Utility
<1>3. label[1] = "check" /\ label[2] = "wordgame"
  BY <1>1
<1>4. DispatchTypeOK /\ x = y /\ x < Len(n) /\ Agree("wordgame", x)
  BY <1>3 DEF DispatchIInv, CheckOK
<1>5. x \in Nat /\ Len(n) = 8 /\ Len(command) \in Nat \ {0}
  BY <1>4, CommandFacts, NameFacts DEF DispatchTypeOK
<1>6. DispatchTypeOK'
  BY <1>1, <1>2, <1>4, LabelFacts DEF DispatchTypeOK
<1>7. CASE ByteAt(command, x) = ByteAt(n, y)
  <2>1. x < Len(command) /\ command[x + 1] = n[x + 1]
    BY <1>2, <1>4, <1>5, <1>7, CommandByte
  <2>2. Agree("wordgame", x + 1)
    <3>1. x + 1 <= Len(command) /\ \A i \in 1 .. x + 1 : i \in 1 .. x \/ i = x + 1
      BY <1>5, <2>1
    <3>2. QED
      BY <1>4, <2>1, <3>1 DEF Agree
  <2>3. label' = <<"match", "wordgame">> /\ label'[1] = "match" /\ label'[2] = "wordgame"
    BY <1>1, <1>7
  <2>4. Refused(Before["wordgame"])
    BY <1>3 DEF DispatchIInv, CheckOK
  <2>5. MatchOK'
    <3>1. Refused(Before["wordgame"])'
      BY <1>1, <2>4 DEF Refused
    <3>2. /\ x' + 1 <= Len(command')
          /\ \A i \in 1 .. x' + 1 : n[i] = command'[i]
      BY <1>1, <2>2 DEF Agree
    <3>3. x' = y' /\ x' < Len(n)
      BY <1>1, <1>4
    <3>4. QED
      BY <2>3, <3>1, <3>2, <3>3 DEF MatchOK, Agree
  <2>6. CheckOK' /\ EndOK'
    BY <2>3 DEF CheckOK, EndOK
  <2>7. QED
    BY <1>6, <2>5, <2>6 DEF DispatchIInv
<1>8. CASE ByteAt(command, x) # ByteAt(n, y)
  <2>1. label' = <<"check", "cd">> /\ label'[1] = "check" /\ label'[2] = "cd"
    BY <1>1, <1>8
  <2>2. ~IsPrefix(n, command)
    <3> SUFFICES ASSUME Agree("wordgame", 8) PROVE FALSE
      BY <1>2, <1>4, <1>5, CommandFacts
    <3>1. x + 1 \in 1 .. 8 /\ x < Len(command)
      BY <1>4, <1>5 DEF Agree
    <3>2. n[x + 1] = command[x + 1]
      BY <3>1 DEF Agree
    <3>3. ByteAt(n, y) = n[x + 1] /\ ByteAt(command, x) = command[x + 1]
      BY <1>4, <3>1 DEF ByteAt
    <3>4. QED
      BY <1>8, <3>2, <3>3
  <2>3. Before["cd"] = {"wordgame"}
    BY DEF Before
  <2>4. Refused({"wordgame"})'
    BY <1>1, <2>2 DEF Refused
  <2>5. CheckOK'
    BY <1>1, <1>4, <2>1, <2>3, <2>4 DEF CheckOK
  <2>6. MatchOK' /\ EndOK'
    BY <2>1 DEF MatchOK, EndOK
  <2>7. QED
    BY <1>6, <2>5, <2>6 DEF DispatchIInv
<1>9. QED
  BY <1>7, <1>8

(* check_cd, check_pwd, check_ls: the first character decides, and when it *)
(* differs the next name is tried, or there is none.                       *)
LEMMA CheckUtilityKeeps ==
  ASSUME DispatchIInv, NEW u \in Utility \ {"wordgame"}, CheckUtility(u)
  PROVE  DispatchIInv'
<1>1. /\ label = <<"check", u>> /\ x' = 0 /\ y' = 0 /\ command' = command
      /\ label' = IF ByteAt(command, 0) = ByteAt(Name[u], 0)
                    THEN <<"match", u>> ELSE Otherwise[u]
  BY DEF CheckUtility, Compare
<1>2. label[1] = "check" /\ label[2] = u
  BY <1>1
<1>3. DispatchTypeOK /\ Refused(Before[u])
  BY <1>2 DEF DispatchIInv, CheckOK
<1>4. 0 < Len(Name[u]) /\ Len(command) \in Nat \ {0} /\ u \in Utility
  BY <1>3, CommandFacts, NameFacts
<1>5. CASE ByteAt(command, 0) = ByteAt(Name[u], 0)
  <2>1. Agree(u, 1)
    <3>1. 0 < Len(command) /\ command[0 + 1] = Name[u][0 + 1]
      BY <1>4, <1>5, CommandByte
    <3>2. QED
      BY <1>4, <3>1 DEF Agree
  <2>2. label' = <<"match", u>> /\ label'[1] = "match" /\ label'[2] = u
    BY <1>1, <1>5
  <2>3. DispatchTypeOK'
    BY <1>1, <1>3, <2>2, LabelFacts DEF DispatchTypeOK
  <2>4. MatchOK'
    <3>1. Agree(u, 1)' /\ Refused(Before[u])'
      BY <1>1, <1>3, <2>1 DEF Agree, Refused
    <3>2. x' + 1 = 1
      BY <1>1
    <3>3. QED
      BY <1>1, <1>4, <2>2, <3>1, <3>2 DEF MatchOK, Agree
  <2>5. CheckOK' /\ EndOK'
    BY <2>2 DEF CheckOK, EndOK
  <2>6. QED
    BY <2>3, <2>4, <2>5 DEF DispatchIInv
<1>6. CASE ByteAt(command, 0) # ByteAt(Name[u], 0)
  <2>1. command[1] # Name[u][1] /\ ~IsPrefix(Name[u], command)
    <3>1. command[1] # Name[u][1]
      BY <1>4, <1>6 DEF ByteAt
    <3>2. ~Agree(u, Len(Name[u]))
      <4>1. 1 \in 1 .. Len(Name[u])
        BY NameFacts
      <4>2. QED
        BY <3>1, <4>1 DEF Agree
    <3>3. QED
      BY <1>3, <1>4, <3>1, <3>2, CommandFacts
  <2>2. Refused(Before[u] \cup {u})'
    BY <1>1, <1>3, <2>1 DEF Refused
  <2>3. label' = Otherwise[u]
    BY <1>1, <1>6
  <2>4. CASE u \in {"cd", "pwd"}
    <3>1. PICK v \in {"pwd", "ls"} : label' = <<"check", v>> /\ Before[v] = Before[u] \cup {u}
      <4>1. CASE u = "cd"
        BY <2>3, <4>1 DEF Otherwise, Before
      <4>2. CASE u = "pwd"
        BY <2>3, <4>2 DEF Otherwise, Before
      <4>3. QED
        BY <2>4, <4>1, <4>2
    <3>2. label'[1] = "check" /\ label'[2] = v /\ v \in Utility /\ v # "wordgame"
      BY <3>1 DEF Utility
    <3>3. DispatchTypeOK'
      BY <1>1, <1>3, <3>1, <3>2, LabelFacts DEF DispatchTypeOK
    <3>4. CheckOK'
      BY <1>1, <2>2, <3>1, <3>2 DEF CheckOK
    <3>5. MatchOK' /\ EndOK'
      BY <3>1, <3>2 DEF MatchOK, EndOK
    <3>6. QED
      BY <3>3, <3>4, <3>5 DEF DispatchIInv
  <2>5. CASE u = "ls"
    <3>1. label' = <<"unknown">> /\ label'[1] = "unknown" /\ Before[u] \cup {u} = Utility
      BY <2>3, <2>5 DEF Otherwise, Before, Utility
    <3>2. DispatchTypeOK'
      BY <1>1, <1>3, <3>1, LabelFacts DEF DispatchTypeOK
    <3>3. EndOK'
      BY <2>2, <3>1, LabelFacts DEF EndOK
    <3>4. CheckOK' /\ MatchOK'
      BY <3>1 DEF CheckOK, MatchOK
    <3>5. QED
      BY <3>2, <3>3, <3>4 DEF DispatchIInv
  <2>6. QED
    BY <2>4, <2>5 DEF Utility
<1>7. QED
  BY <1>5, <1>6

(* wordgame_match_check: past the last character of the name all of it has *)
(* agreed.  The other names have a second character to go on with.         *)
LEMMA MatchKeeps ==
  ASSUME DispatchIInv, NEW u \in Utility, Match(u)
  PROVE  DispatchIInv'
<1>1. /\ label = <<"match", u>> /\ x' = x + 1 /\ y' = y + 1 /\ command' = command
      /\ label' = IF ByteAt(Name[u], y + 1) = NUL THEN <<"call", u>> ELSE <<"check", u>>
  BY DEF Match
<1>2. label[1] = "match" /\ label[2] = u
  BY <1>1
<1>3. /\ DispatchTypeOK /\ x = y /\ Refused(Before[u]) /\ x < Len(Name[u])
      /\ Agree(u, x + 1) /\ (u # "wordgame" => x = 0)
  BY <1>2 DEF DispatchIInv, MatchOK
<1>4. /\ x \in Nat /\ Len(Name[u]) \in Nat \ {0, 1} /\ (u = "wordgame" => Len(Name[u]) = 8)
      /\ x + 1 \in Nat
  BY <1>3, NameFacts DEF DispatchTypeOK
<1>5. label' \in Labels
  BY <1>1, LabelFacts
<1>6. DispatchTypeOK'
  BY <1>1, <1>3, <1>4, <1>5 DEF DispatchTypeOK
<1>7. CASE x + 1 < Len(Name[u])
  <2>1. ByteAt(Name[u], x + 1) # NUL
    BY <1>4, <1>7, NameByte
  <2>2. label' = <<"check", u>> /\ label'[1] = "check" /\ label'[2] = u
    BY <1>1, <1>3, <2>1
  <2>3. CheckOK'
    <3>1. Refused(Before[u])' /\ x' = y' /\ x' < Len(Name[u])
      BY <1>1, <1>3, <1>7 DEF Refused
    <3>2. x' <= Len(command') /\ \A i \in 1 .. x' : Name[u][i] = command'[i]
      BY <1>1, <1>3 DEF Agree
    <3>3. QED
      BY <2>2, <3>1, <3>2 DEF CheckOK, Agree
  <2>4. MatchOK' /\ EndOK'
    BY <2>2 DEF MatchOK, EndOK
  <2>5. QED
    BY <1>6, <2>3, <2>4 DEF DispatchIInv
<1>8. CASE ~(x + 1 < Len(Name[u]))
  <2>1. u = "wordgame"
    <3> DEFINE n == Len(Name[u])
    <3>1. n \in Nat \ {0, 1} /\ ~(x + 1 < n)
      BY <1>4, <1>8
    <3> HIDE DEF n
    <3>2. x # 0
      BY <3>1
    <3>3. QED
      BY <1>3, <3>2
  <2>2. x + 1 = Len(Name[u])
    BY <1>3, <1>4, <1>8
  <2>3. IsPrefix(Name["wordgame"], command)
    BY <1>3, <2>1, <2>2, CommandFacts
  <2>4. ByteAt(Name[u], y + 1) = NUL
    BY <1>3, <1>8 DEF ByteAt
  <2>5. label' = <<"call", u>> /\ label'[1] = "call" /\ label'[2] = "wordgame"
    BY <1>1, <2>1, <2>4
  <2>6. EndOK'
    BY <1>1, <2>3, <2>5 DEF EndOK
  <2>7. CheckOK' /\ MatchOK'
    BY <2>5 DEF CheckOK, MatchOK
  <2>8. QED
    BY <1>6, <2>6, <2>7 DEF DispatchIInv
<1>9. QED
  BY <1>7, <1>8

(* print_unknown and start_wordgame return, from lines that begin with     *)
(* none of the three letters.                                              *)
LEMMA ReturnKeeps ==
  ASSUME DispatchIInv, Return
  PROVE  DispatchIInv'
<1>1. /\ label = <<"unknown">> \/ label[1] = "call"
      /\ label' = <<"returned">> /\ x' = x /\ y' = y /\ command' = command
  BY DEF Return
<1>2. ~Spins(command)
  <2>1. CASE label = <<"unknown">>
    <3>1. Refused(Utility)
      BY <2>1 DEF DispatchIInv, EndOK
    <3>2. command[1] # "c" /\ command[1] # "p" /\ command[1] # "l"
      BY <3>1, FirstCharacters DEF Refused, Utility
    <3>3. QED
      BY <3>2 DEF Spins
  <2>2. CASE label[1] = "call"
    <3>1. IsPrefix(Name["wordgame"], command) /\ DispatchTypeOK /\ "wordgame" \in Utility
      BY <2>2 DEF DispatchIInv, EndOK, Utility
    <3>2. Agree("wordgame", 8)
      BY <3>1, CommandFacts, NameFacts
    <3>3. command[1] = "w"
      <4>1. 1 \in 1 .. 8
        OBVIOUS
      <4>2. QED
        BY <3>2, <4>1, FirstCharacters DEF Agree
    <3>4. QED
      BY <3>3 DEF Spins
  <2>3. QED
    BY <1>1, <2>1, <2>2
<1>3. label'[1] = "returned" /\ label' # <<"unknown">>
  BY <1>1, LabelFacts
<1>4. DispatchTypeOK'
  BY <1>1, LabelFacts DEF DispatchIInv, DispatchTypeOK
<1>5. CheckOK' /\ MatchOK' /\ EndOK'
  BY <1>1, <1>2, <1>3 DEF CheckOK, MatchOK, EndOK
<1>6. QED
  BY <1>4, <1>5 DEF DispatchIInv

(* The registers and the label stay consistent with what has been compared.*)
THEOREM DispatchInvariance == DispatchSpec => []DispatchIInv
<1>1. DispatchIInv /\ [DispatchNext]_dispatchVars => DispatchIInv'
  <2> SUFFICES ASSUME DispatchIInv, [DispatchNext]_dispatchVars PROVE DispatchIInv'
    OBVIOUS
  <2>1. CASE DispatchNext
    BY <2>1, CheckWordgameKeeps, CheckUtilityKeeps, MatchKeeps,
       ReturnKeeps DEF DispatchNext
  <2>2. CASE UNCHANGED dispatchVars
    BY <2>2 DEF DispatchIInv, DispatchTypeOK, CheckOK, MatchOK, EndOK, Refused, Agree, dispatchVars
  <2>3. QED
    BY <2>1, <2>2
<1>2. QED
  BY <1>1, DispatchInitEstablishes, PTL DEF DispatchSpec

-----------------------------------------------------------------------------
(* What the invariant says of the properties                               *)

(* process_shell_cmd branches to labels it has.                            *)
THEOREM DispatchTypeCorrect == DispatchSpec => []DispatchTypeOK
<1>1. DispatchIInv => DispatchTypeOK
  BY DEF DispatchIInv
<1>2. QED
  BY <1>1, DispatchInvariance, PTL

(* The match loops: neither register is ever beyond the NUL of its string  *)
(* when a match is found, so nothing that is left in CMD_BUFFER counts.    *)
THEOREM TerminatorStops == DispatchSpec => []StopsAtTerminator
<1>1. DispatchIInv => StopsAtTerminator
  <2> SUFFICES ASSUME DispatchIInv, label[1] = "match"
               PROVE  x < Len(command) /\ y < Len(Name[label[2]])
    BY DEF StopsAtTerminator
  <2>1. x = y /\ x < Len(Name[label[2]]) /\ x + 1 <= Len(command) /\ DispatchTypeOK
    BY DEF DispatchIInv, MatchOK, Agree
  <2>2. x \in Nat /\ Len(command) \in Nat
    BY <2>1, CommandFacts DEF DispatchTypeOK
  <2>3. QED
    BY <2>1, <2>2
<1>2. QED
  BY <1>1, DispatchInvariance, PTL

(* process_shell_cmd: what runs was typed in full, what is unknown begins  *)
(* with no name.                                                           *)
THEOREM WhatWasTypedRuns == DispatchSpec => []CallNeedsWholeName
<1>1. DispatchIInv => CallNeedsWholeName
  BY DEF DispatchIInv, EndOK, CallNeedsWholeName, Refused
<1>2. QED
  BY <1>1, DispatchInvariance, PTL

(* check_cd, check_pwd and check_ls: from a line that begins with one of   *)
(* their letters there is no way out.                                      *)
THEOREM NoReturnFromSpin == DispatchSpec => []SpinningNeverReturns
<1>1. DispatchIInv => SpinningNeverReturns
  BY DEF DispatchIInv, EndOK, SpinningNeverReturns
<1>2. QED
  BY <1>1, DispatchInvariance, PTL

(* How many passages from label to label a line that does not spin is from *)
(* its end, at most.                                                       *)
PassagesLeft ==
  CASE label[1] = "check" ->
         IF label[2] = "wordgame" THEN 2 * (Len(Name["wordgame"]) - x) + 5
         ELSE [cd |-> 4, pwd |-> 3, ls |-> 2][label[2]]
    [] label[1] = "match" -> 2 * (Len(Name["wordgame"]) - x) + 4
    [] label[1] \in {"call", "unknown"} -> 1
    [] OTHER -> 0

(* Of a line that does not spin wordgame alone can match.                  *)
LEMMA OnlyWordgameMatches ==
  ASSUME DispatchIInv, label[1] = "match", ~Spins(command), label[2] \in Utility
  PROVE  label[2] = "wordgame"
<1>1. Agree(label[2], x + 1) /\ (label[2] # "wordgame" => x = 0)
  BY DEF DispatchIInv, MatchOK
<1>2. CASE label[2] # "wordgame"
  <2>1. 1 \in 1 .. x + 1
    BY <1>1, <1>2
  <2>2. Name[label[2]][1] = command[1]
    BY <1>1, <2>1 DEF Agree
  <2>3. QED
    BY <1>2, <2>2, FirstCharacters DEF Spins, Utility
<1>3. QED
  BY <1>2

(* process_shell_cmd: every passage of a line that does not spin brings it *)
(* nearer to its end.  With this ReturnsUnlessSpins asks no more of the    *)
(* processor than that it goes on.                                         *)
THEOREM PassagesRunOut ==
  DispatchSpec =>
    [][~Spins(command) =>
         PassagesLeft \in Nat /\ PassagesLeft' \in Nat /\ PassagesLeft' < PassagesLeft
      ]_dispatchVars
<1> DEFINE Nearer == /\ PassagesLeft \in Nat /\ PassagesLeft' \in Nat
                     /\ PassagesLeft' < PassagesLeft
<1>1. DispatchIInv /\ [DispatchNext]_dispatchVars
        => [~Spins(command) => Nearer]_dispatchVars
  <2> SUFFICES ASSUME DispatchIInv, DispatchNext, ~Spins(command) PROVE Nearer
    OBVIOUS
  <2> DEFINE n == Len(Name["wordgame"])
  <2>1. n = 8 /\ x \in Nat
    BY NameFacts DEF DispatchIInv, DispatchTypeOK
  <2> HIDE DEF n
  <2>2. CASE CheckWordgame
    <3>1. /\ label = <<"check", "wordgame">> /\ x' = x
          /\ label' \in {<<"match", "wordgame">>, <<"check", "cd">>}
      BY <2>2 DEF CheckWordgame, Compare, Otherwise
    <3>2. label[1] = "check" /\ label[2] = "wordgame"
      BY <3>1
    <3>3. x < n
      BY <3>2 DEF DispatchIInv, CheckOK, n
    <3>4. PassagesLeft = 2 * (n - x) + 5
      BY <3>2 DEF PassagesLeft, n
    <3>5. PassagesLeft' \in {2 * (n - x) + 4, 4}
      BY <3>1 DEF PassagesLeft, n
    <3>6. QED
      BY <2>1, <3>3, <3>4, <3>5
  <2>3. ASSUME NEW u \in Utility \ {"wordgame"}, CheckUtility(u)
        PROVE  Nearer
    <3>1. /\ label = <<"check", u>> /\ command' = command
          /\ label' = IF ByteAt(command, 0) = ByteAt(Name[u], 0)
                        THEN <<"match", u>> ELSE Otherwise[u]
      BY <2>3 DEF CheckUtility, Compare
    <3>2. label'[1] # "match"
      <4> SUFFICES ASSUME label'[1] = "match" PROVE FALSE
        OBVIOUS
      <4>1. DispatchIInv' /\ ~Spins(command')
        BY <2>3, <3>1, CheckUtilityKeeps
      <4>2. label' = <<"match", u>>
        BY <3>1 DEF Otherwise, Utility
      <4>3. u = "cd" \/ u = "pwd" \/ u = "ls"
        BY DEF Utility
      <4>4. ByteAt(command, 0) = ByteAt(Name[u], 0)
        BY <3>1, <4>2, <4>3 DEF Otherwise
      <4>5. 0 < Len(Name[u]) /\ u \in Utility
        BY NameFacts
      <4>6. command[0 + 1] = Name[u][0 + 1]
        BY <4>4, <4>5, CommandByte
      <4>7. QED
        BY <4>3, <4>6, FirstCharacters DEF Spins
    <3>3. \/ u = "cd" /\ label' = <<"check", "pwd">>
          \/ u = "pwd" /\ label' = <<"check", "ls">>
          \/ u = "ls" /\ label' = <<"unknown">>
      BY <3>1, <3>2 DEF Otherwise, Utility
    <3>4. QED
      BY <3>1, <3>3 DEF PassagesLeft
  <2>4. ASSUME NEW u \in Utility, Match(u)
        PROVE  Nearer
    <3>1. /\ label = <<"match", u>> /\ x' = x + 1
          /\ label' \in {<<"call", u>>, <<"check", u>>}
      BY <2>4 DEF Match
    <3>2. u = "wordgame"
      BY <3>1, OnlyWordgameMatches
    <3>3. x < n
      BY <3>1, <3>2 DEF DispatchIInv, MatchOK, n
    <3>4. PassagesLeft = 2 * (n - x) + 4
      BY <3>1 DEF PassagesLeft, n
    <3>5. PassagesLeft' \in {1, 2 * (n - (x + 1)) + 5}
      BY <3>1, <3>2 DEF PassagesLeft, n
    <3>6. QED
      BY <2>1, <3>3, <3>4, <3>5
  <2>5. CASE Return
    <3>1. label[1] \in {"call", "unknown"} /\ label'[1] = "returned"
      BY <2>5, LabelFacts DEF Return
    <3>2. QED
      BY <3>1 DEF PassagesLeft
  <2>6. QED
    BY <2>2, <2>3, <2>4, <2>5 DEF DispatchNext
<1>2. QED
  BY <1>1, DispatchInvariance, PTL DEF DispatchSpec

-----------------------------------------------------------------------------
(* The word game: texts                                                    *)

(* wg_print_string prints the characters one by one.                       *)
LEMMA PrintTextSteps ==
  ASSUME NEW X, NEW t \in X, NEW s \in Seq(Char),
         \A u \in X, c \in Char : PrintChar(u, c) \in X
  PROVE  \E h \in [0 .. Len(s) -> X] :
           /\ h[0] = t /\ h[Len(s)] = PrintText(t, s)
           /\ \A i \in 1 .. Len(s) : h[i] = PrintChar(h[i - 1], s[i])
<1> DEFINE n == Len(s)
           step == [p \in X \X (1 .. n) |-> PrintChar(p[1], s[p[2]])]
           Folds(g) == g = [e \in SUBSET (1 .. n) |->
                              IF e = {} THEN t
                              ELSE PrintChar(g[e \ {Max(e)}], s[Max(e)])]
           iter == CHOOSE g : Folds(g)
           h == [i \in 0 .. n |-> iter[1 .. i]]
<1>1. n \in Nat /\ DOMAIN s = 1 .. n /\ \A i \in 1 .. n : s[i] \in Char
  BY LenProperties
<1>2. PrintText(t, s) = iter[1 .. n]
  BY <1>1 DEF PrintText, FoldLeft, MapThenFoldSet
<1> HIDE DEF n
<1>3. step \in [X \X (1 .. n) -> X]
  BY <1>1
<1>4. PICK g \in [SUBSET (1 .. n) -> X] : FoldsUpTo(g, t, step, n)
  <2> HIDE DEF step
  <2>1. QED
    BY <1>1, <1>3, FoldExists
<1>5. Folds(g)
  <2> DEFINE next(e) == IF e = {} THEN t ELSE PrintChar(g[e \ {Max(e)}], s[Max(e)])
  <2>1. ASSUME NEW e \in SUBSET (1 .. n)
        PROVE  g[e] = next(e)
    <3>1. /\ e # {} => Max(e) \in e
          /\ g[e] = IF e = {} THEN t ELSE step[<<g[e \ {Max(e)}], Max(e)>>]
      BY <1>4 DEF FoldsUpTo
    <3>2. CASE e # {}
      <4>1. <<g[e \ {Max(e)}], Max(e)>> \in X \X (1 .. n)
        BY <1>4, <3>1, <3>2
      <4>2. QED
        BY <3>1, <3>2, <4>1
    <3>3. QED
      BY <3>1, <3>2
  <2> HIDE DEF next, step
  <2>2. g = [e \in SUBSET (1 .. n) |-> next(e)]
    BY <2>1
  <2>3. QED
    BY <2>2 DEF next
<1>6. Folds(iter)
  <2> HIDE DEF Folds
  <2>1. QED
    BY <1>5
<1>7. \A e \in SUBSET (1 .. n) :
        iter[e] = IF e = {} THEN t ELSE PrintChar(iter[e \ {Max(e)}], s[Max(e)])
  BY <1>6
<1> HIDE DEF iter
<1>8. h[0] = t /\ h[n] = iter[1 .. n]
  <2>1. 1 .. 0 = {} /\ 0 \in 0 .. n /\ n \in 0 .. n
    BY <1>1
  <2>2. QED
    BY <1>7, <2>1
<1>9. ASSUME NEW i \in 1 .. n
      PROVE  h[i] = PrintChar(h[i - 1], s[i])
  <2>1. /\ 1 .. i \in SUBSET (1 .. n) /\ 1 .. i # {} /\ i \in 0 .. n /\ i - 1 \in 0 .. n
        /\ (1 .. i) \ {i} = 1 .. i - 1
    <3>1. i \in Nat /\ i >= 1 /\ i <= n
      BY <1>1
    <3>2. \A k \in 1 .. i : k \in 1 .. n
      BY <1>1, <3>1
    <3>3. (1 .. i) \ {i} = 1 .. i - 1
      BY <3>1
    <3>4. i \in 1 .. i /\ i \in 0 .. n /\ i - 1 \in 0 .. n
      BY <1>1, <3>1
    <3>5. QED
      BY <3>2, <3>3, <3>4
  <2>2. Max(1 .. i) = i
    <3>1. 1 .. i \in SUBSET Nat /\ i \in 1 .. i /\ \A k \in 1 .. i : k <= i
      BY <1>1
    <3>2. QED
      BY <3>1, MaxIs
  <2>3. QED
    BY <1>7, <2>1, <2>2
<1> HIDE DEF h
<1>10. h \in [0 .. n -> X]
  <2> DEFINE S == {k \in Nat : k <= n => h[k] \in X}
  <2>1. 0 \in S
    BY <1>8
  <2>2. ASSUME NEW k \in S PROVE k + 1 \in S
    <3>1. CASE k + 1 <= n
      <4>1. k + 1 \in 1 .. n /\ (k + 1) - 1 = k /\ k <= n
        BY <1>1, <3>1
      <4>2. h[k] \in X /\ h[k + 1] = PrintChar(h[k], s[k + 1]) /\ s[k + 1] \in Char
        BY <1>1, <1>9, <4>1
      <4>3. QED
        BY <4>2
    <3>2. QED
      BY <3>1
  <2>3. S = Nat
    <3>1. S \in SUBSET Nat
      OBVIOUS
    <3> HIDE DEF S
    <3>2. QED
      BY <2>1, <2>2, <3>1, NatSetInduction
  <2>4. \A k \in 0 .. n : k \in Nat /\ k <= n
    BY <1>1
  <2>5. \A k \in 0 .. n : h[k] \in X
    BY <2>3, <2>4
  <2>6. h = [k \in 0 .. n |-> h[k]]
    BY DEF h
  <2>7. QED
    BY <2>5, <2>6
<1>11. QED
  BY <1>2, <1>8, <1>9, <1>10 DEF n

-----------------------------------------------------------------------------
(* The terminal of the game                                                *)

(* What the game keeps of a terminal: the display need not show a view     *)
(* that new lines have overtaken, but in normal mode everything agrees.    *)
Kept(t) == t \in Terminal /\ (t.scrollMode = 0 => Sound(t))

(* The terminals that printing on t can lead to.                           *)
Still(t) ==
  {u \in Terminal : /\ Kept(u)
                    /\ u.scrollMode = t.scrollMode
                    /\ t.scrollMode = 1 => u.lcd = t.lcd}

(* The routines the game prints with stay there.                           *)
LEMMA KeptIsStill == ASSUME NEW t, Kept(t) PROVE t \in Still(t)
BY DEF Kept, Still

(* Each routine the game prints with leads to one of them.                 *)
LEMMA RoutinesStill ==
  ASSUME NEW t, NEW u \in Still(t)
  PROVE  /\ \A c \in Char : PrintChar(u, c) \in Still(t)
         /\ LcdNewLine(u) \in Still(t)
         /\ LcdBackspace(u) \in Still(t)
         /\ PrintPrompt(u) \in Still(t)
<1>1. /\ u \in Terminal /\ Kept(u) /\ u.scrollMode = t.scrollMode
      /\ t.scrollMode = 1 => u.lcd = t.lcd
      /\ u.scrollMode = 0 \/ u.scrollMode = 1
  BY DEF Still, Terminal
<1>2. ASSUME NEW v, v \in Terminal, v.scrollMode = u.scrollMode,
             u.scrollMode = 0 => Sound(v), u.scrollMode = 1 => v.lcd = u.lcd
      PROVE  v \in Still(t)
  BY <1>1, <1>2 DEF Still, Kept
<1>3. CASE u.scrollMode = 0
  <2>1. Sound(u)
    BY <1>1, <1>3 DEF Kept
  <2>2. ASSUME NEW v, Sound(v), v.scrollMode = 0
        PROVE  v \in Still(t)
    BY <1>2, <1>3, <2>2 DEF Sound
  <2>3. Sound(LcdNewLine(u)) /\ LcdNewLine(u).scrollMode = 0
    BY <1>1, <1>3, LcdNewLineSound
  <2>4. ASSUME NEW c \in Char PROVE PrintChar(u, c) \in Still(t)
    BY <1>3, <2>1, <2>2, PrintCharSound
  <2>5. LcdBackspace(u) \in Still(t) /\ PrintPrompt(u) \in Still(t)
    BY <1>3, <2>1, <2>2, LcdBackspaceSound, PrintPromptSound
  <2>6. QED
    BY <2>2, <2>3, <2>4, <2>5
<1>4. CASE u.scrollMode = 1
  <2>1. ASSUME NEW v, v \in Terminal, v.scrollMode = 1, v.lcd = u.lcd
        PROVE  v \in Still(t)
    BY <1>2, <1>4, <2>1
  <2>2. ASSUME NEW c \in Char PROVE PrintChar(u, c) \in Still(t)
    BY <1>1, <1>4, <2>1, PrintCharScrolled
  <2>3. LcdNewLine(u) \in Still(t)
    BY <1>1, <1>4, <2>1, LcdNewLineScrolled
  <2>4. LcdBackspace(u) \in Still(t)
    BY <1>1, <1>4, <2>1, LcdBackspaceScrolled
  <2>5. PrintPrompt(u) \in Still(t)
    BY <1>1, <1>4, <2>1, PrintPromptScrolled
  <2>6. QED
    BY <2>2, <2>3, <2>4, <2>5
<1>5. QED
  BY <1>1, <1>3, <1>4

(* So does a text.                                                         *)
LEMMA PrintTextStill ==
  ASSUME NEW t, NEW u \in Still(t), NEW s \in Seq(Char)
  PROVE  PrintText(u, s) \in Still(t)
<1> DEFINE X == Still(t)
<1>1. Len(s) \in 0 .. Len(s)
  BY LenProperties
<1>2. u \in X /\ \A v \in X, c \in Char : PrintChar(v, c) \in X
  BY RoutinesStill
<1> HIDE DEF X
<1>3. \E h \in [0 .. Len(s) -> X] :
        /\ h[0] = u /\ h[Len(s)] = PrintText(u, s)
        /\ \A i \in 1 .. Len(s) : h[i] = PrintChar(h[i - 1], s[i])
  BY <1>2, PrintTextSteps
<1>4. PrintText(u, s) \in X
  BY <1>1, <1>3
<1>5. QED
  BY <1>4 DEF X

(* Leaving scroll mode, and the scroll keys.                               *)
LEMMA LeaveScrollModeKept ==
  ASSUME NEW t, Kept(t)
  PROVE  Kept(LeaveScrollMode(t)) /\ LeaveScrollMode(t).scrollMode = 0
<1>1. t \in Terminal
  BY DEF Kept
<1>2. CASE t.scrollMode = 0
  BY <1>2 DEF LeaveScrollMode
<1>3. CASE t.scrollMode # 0
  <2>1. LeaveScrollMode(t) = ExitScrollMode(t)
    BY <1>3 DEF LeaveScrollMode
  <2>2. QED
    BY <1>1, <2>1, ExitScrollModeSound DEF Kept, Sound
<1>4. QED
  BY <1>2, <1>3

(* The scroll keys keep what the game keeps; a key that leaves the         *)
(* terminal in normal mode has done nothing.                               *)
LEMMA ScrollKept ==
  ASSUME NEW t, Kept(t), NEW u, u = ScrollUp(t) \/ u = ScrollDown(t)
  PROVE  /\ Kept(u)
         /\ u.scrollMode = 0 => u = t
<1>1. t \in Terminal
  BY DEF Kept
<1>2. CASE u = ScrollUp(t)
  BY <1>1, <1>2, ScrollUpType DEF Kept
<1>3. CASE u = ScrollDown(t)
  BY <1>1, <1>3, ScrollDownType DEF Kept
<1>4. QED
  BY <1>2, <1>3

-----------------------------------------------------------------------------
(* The words and the messages                                              *)

(* What the game prints is text.                                           *)
LEMMA TextTypes ==
  /\ CommandText \o IntroMsg \in Seq(Char)
  /\ \A m \in {PromptMsg, WinMsg, WrongMsg, NextMsg, CompleteMsg} : m \in Seq(Char)
  /\ \A i \in Nat :
       /\ Place(i) \in 0 .. Slots - 1
       /\ WordList[Place(i)] \in Seq(Letter)
       /\ Len(WordList[Place(i)]) \in 1 .. MaxGuess
       /\ PuzzleMsg \o Puzzle(WordList[Place(i)]) \in Seq(Char)
<1>1. CommandText \o IntroMsg \in Seq(Char)
  BY WordGameAssumption, ConcatProperties
<1>2. ASSUME NEW i \in Nat
      PROVE  /\ Place(i) \in 0 .. Slots - 1
             /\ WordList[Place(i)] \in Seq(Letter)
             /\ Len(WordList[Place(i)]) \in 1 .. MaxGuess
             /\ PuzzleMsg \o Puzzle(WordList[Place(i)]) \in Seq(Char)
  <2>1. Place(i) \in 0 .. Slots - 1
    BY WordGameAssumption DEF Place
  <2>2. WordList[Place(i)] \in Seq(Letter) /\ Len(WordList[Place(i)]) \in 1 .. MaxGuess
    BY <2>1, WordGameAssumption
  <2> DEFINE word == WordList[Place(i)]
  <2>3. Puzzle(word) \in Seq(Char)
    <3>1. word \in Seq(Letter)
      BY <2>2
    <3> HIDE DEF word
    <3>2. DOMAIN word = 1 .. Len(word) /\ Len(word) \in Nat
          /\ \A j \in 1 .. Len(word) : word[j] \in Char
      BY <3>1, LenProperties, WordGameAssumption
    <3>3. Puzzle(word) \in [1 .. Len(word) -> Char]
      BY <3>2, WordGameAssumption DEF Puzzle
    <3>4. QED
      BY <3>2, <3>3
  <2>4. PuzzleMsg \in Seq(Char)
    BY WordGameAssumption
  <2> HIDE DEF word
  <2>5. PuzzleMsg \o Puzzle(word) \in Seq(Char)
    BY <2>3, <2>4, ConcatProperties
  <2>6. QED
    BY <2>1, <2>2, <2>5 DEF word
<1>3. QED
  BY <1>1, <1>2, WordGameAssumption

(* A new puzzle and the prompt behind it.                                  *)
LEMMA ShowPuzzleStill ==
  ASSUME NEW t, NEW u \in Still(t), NEW i \in Nat
  PROVE  ShowPuzzle(u, WordList[Place(i)]) \in Still(t)
<1> DEFINE word == WordList[Place(i)]
           p == PrintText(u, PuzzleMsg \o Puzzle(word))
<1>1. PuzzleMsg \o Puzzle(word) \in Seq(Char) /\ PromptMsg \in Seq(Char)
  BY TextTypes
<1>2. p \in Still(t)
  BY <1>1, PrintTextStill
<1>3. ShowPuzzle(u, word) = PrintText(LcdNewLine(p), PromptMsg)
  BY DEF ShowPuzzle
<1> HIDE DEF p
<1>4. LcdNewLine(p) \in Still(t)
  BY <1>2, RoutinesStill
<1>5. QED
  BY <1>1, <1>3, <1>4, PrintTextStill

-----------------------------------------------------------------------------
(* The inductive invariant                                                 *)

(* How far the game is: the history agrees with WG_WORD_INDEX and with the *)
(* loop that polls.                                                        *)
Progress ==
  /\ at = "shell" => wordIndex \in {0, NumWords} /\ solved = wordIndex
  /\ at = "guess" => wordIndex > 0 /\ solved = wordIndex - 1
  /\ at = "continue" => wordIndex > 0 /\ wordIndex < NumWords /\ solved = wordIndex
  /\ asked = {Place(i) : i \in 0 .. wordIndex - 1}

(* What is in front of WG_INPUT_INDEX was typed.                           *)
Typed == \A i \in 0 .. MaxGuess : i < inputIndex => inputBuffer[i] \in Letter

(* The inductive invariant of the game.                                    *)
IInv == TypeOK /\ Kept(tty) /\ Progress /\ Typed

(* The driver is initialised and prints the prompt.                        *)
LEMMA InitEstablishes == Init => IInv
<1> SUFFICES ASSUME Init PROVE IInv
  OBVIOUS
<1>1. Sound(tty) /\ tty.scrollMode = 0
  BY PoweredOnSound, PrintPromptSound DEF Init
<1>2. Kept(tty) /\ tty \in Terminal
  BY <1>1 DEF Kept, Sound
<1>3. /\ at = "shell" /\ wordIndex = 0 /\ solved = 0 /\ asked = {} /\ inputIndex = 0
      /\ inputBuffer = [i \in 0 .. MaxGuess |-> Nul]
  BY DEF Init
<1>4. NumWords \in Nat \ {0} /\ MaxGuess \in Nat \ {0}
  BY WordGameAssumption
<1>5. TypeOK
  BY <1>2, <1>3, <1>4 DEF TypeOK
<1>6. Progress /\ Typed
  BY <1>3, <1>4 DEF Progress, Typed
<1>7. QED
  BY <1>2, <1>5, <1>6 DEF IInv

(* The places of one word more.                                            *)
LEMMA OneMorePlace ==
  ASSUME NEW n \in Nat
  PROVE  /\ {Place(i) : i \in 0 .. n} = {Place(i) : i \in 0 .. n - 1} \cup {Place(n)}
         /\ {Place(i) : i \in 0 .. n} \subseteq 0 .. Slots - 1
<1>1. 0 .. n = (0 .. n - 1) \cup {n} /\ 0 .. n \subseteq Nat
  OBVIOUS
<1>2. {Place(i) : i \in 0 .. n} = {Place(i) : i \in 0 .. n - 1} \cup {Place(n)}
  BY <1>1, Zenon
<1>3. \A i \in 0 .. n : Place(i) \in 0 .. Slots - 1
  BY <1>1, TextTypes
<1>4. QED
  BY <1>2, <1>3, Zenon

(* wg_next_word, on any terminal the game is in.                           *)
LEMMA NextWordKeeps ==
  ASSUME IInv, NEW t, Kept(t), NEW n \in 0 .. NumWords - 1, NextWord(t, n),
         n = wordIndex \/ n = 0,
         solved' = n, UNCHANGED inputBuffer
  PROVE  IInv' /\ tty' \in Still(t)
<1>1. tty' \in Still(t)
  BY KeptIsStill, ShowPuzzleStill DEF NextWord
<1>2. tty' \in Terminal /\ Kept(tty')
  BY <1>1 DEF Still
<1>3. /\ n \in Nat /\ wordIndex' = n + 1 /\ n + 1 \in 0 .. NumWords
      /\ inputIndex' = 0 /\ at' = "guess" /\ inputBuffer' = inputBuffer
      /\ solved' = n
  BY WordGameAssumption DEF NextWord
<1>4. asked' = {Place(i) : i \in 0 .. n} /\ asked' \subseteq 0 .. Slots - 1
  <2>1. (IF n = 0 THEN {} ELSE asked) = {Place(i) : i \in 0 .. n - 1}
    <3>1. CASE n = 0
      BY <3>1
    <3>2. CASE n # 0
      BY <3>2 DEF IInv, Progress
    <3>3. QED
      BY <3>1, <3>2
  <2>2. QED
    BY <1>3, <2>1, OneMorePlace DEF NextWord
<1>5. TypeOK'
  BY <1>2, <1>3, <1>4, WordGameAssumption DEF TypeOK, IInv
<1>6. Progress' /\ Typed'
  <2>1. (n + 1) - 1 = n /\ n + 1 > 0
    BY <1>3
  <2>2. asked' = {Place(i) : i \in 0 .. wordIndex' - 1}
    BY <1>3, <1>4, <2>1
  <2>3. Progress'
    BY <1>3, <2>1, <2>2 DEF Progress, Place
  <2>4. Typed'
    BY <1>3 DEF Typed
  <2>5. QED
    BY <2>3, <2>4
<1>7. QED
  BY <1>1, <1>2, <1>5, <1>6 DEF IInv

(* What holds where a guess is taken, and of the guess terminated.         *)
LEMMA GuessFacts ==
  ASSUME IInv, at = "guess"
  PROVE  /\ wordIndex \in 1 .. NumWords /\ solved = wordIndex - 1
         /\ wordIndex - 1 \in Nat /\ NumWords \in Nat \ {0} /\ MaxGuess \in Nat \ {0}
         /\ inputIndex \in 0 .. MaxGuess
         /\ inputBuffer \in [0 .. MaxGuess -> Letter \cup {Nul}]
         /\ Terminated \in [0 .. MaxGuess -> Letter \cup {Nul}]
         /\ Terminated[inputIndex] = Nul
         /\ \A i \in 0 .. MaxGuess : i # inputIndex => Terminated[i] = inputBuffer[i]
<1>1. /\ wordIndex \in 0 .. NumWords /\ wordIndex > 0 /\ solved = wordIndex - 1
      /\ inputIndex \in 0 .. MaxGuess
      /\ inputBuffer \in [0 .. MaxGuess -> Letter \cup {Nul}]
  BY DEF IInv, TypeOK, Progress
<1>2. NumWords \in Nat \ {0} /\ MaxGuess \in Nat \ {0}
  BY WordGameAssumption
<1>3. /\ Terminated \in [0 .. MaxGuess -> Letter \cup {Nul}]
      /\ Terminated[inputIndex] = Nul
      /\ \A i \in 0 .. MaxGuess : i # inputIndex => Terminated[i] = inputBuffer[i]
  BY <1>1 DEF Terminated
<1>4. QED
  BY <1>1, <1>2, <1>3

(* A right answer, but for what it prints and where the game goes on.      *)
LEMMA AnswerKeeps ==
  ASSUME IInv, Answer, NEW t, Kept(t), tty' = t,
         at' \in {"shell", "continue"},
         at' = "shell" => wordIndex >= NumWords,
         at' = "continue" => wordIndex < NumWords,
         solved' = solved + 1, UNCHANGED <<wordIndex, inputIndex, asked>>
  PROVE  IInv'
<1>1. at = "guess" /\ inputBuffer' = Terminated
  BY DEF Answer
<1>2. solved' = wordIndex /\ wordIndex \in 1 .. NumWords /\ wordIndex' = wordIndex
  BY <1>1, GuessFacts
<1>3. tty' \in Terminal /\ Kept(tty')
  BY DEF Kept
<1>4. /\ inputBuffer' \in [0 .. MaxGuess -> Letter \cup {Nul}]
      /\ inputIndex' \in 0 .. MaxGuess /\ asked' \subseteq 0 .. Slots - 1
  BY <1>1, GuessFacts DEF IInv, TypeOK
<1>5. TypeOK'
  BY <1>2, <1>3, <1>4 DEF TypeOK
<1>6. asked' = {Place(i) : i \in 0 .. wordIndex' - 1}
  BY DEF IInv, Progress
<1>7. Progress'
  <2>1. at' = "shell" => wordIndex' = NumWords
    BY <1>2, GuessFacts, <1>1
  <2>2. QED
    BY <1>2, <1>6, <2>1 DEF Progress, Place
<1>8. Typed'
  <2>1. ASSUME NEW i \in 0 .. MaxGuess, i < inputIndex'
        PROVE  inputBuffer'[i] \in Letter
    <3>1. i < inputIndex /\ i # inputIndex
      BY <2>1, <1>1, GuessFacts
    <3>2. QED
      BY <1>1, <3>1, GuessFacts DEF IInv, Typed
  <2>2. QED
    BY <2>1 DEF Typed
<1>9. QED
  BY <1>3, <1>5, <1>7, <1>8 DEF IInv

(* An action that leaves the game where it is: it changes the terminal,    *)
(* and the guess in a way that keeps it typed.                             *)
LEMMA GuessingKeeps ==
  ASSUME IInv, Kept(tty'), UNCHANGED <<at, wordIndex, solved, asked>>,
         inputBuffer' \in [0 .. MaxGuess -> Letter \cup {Nul}],
         inputIndex' \in 0 .. MaxGuess, Typed'
  PROVE  IInv'
<1>1. TypeOK'
  BY DEF IInv, TypeOK, Kept
<1>2. Progress'
  BY DEF IInv, Progress, Place
<1>3. QED
  BY <1>1, <1>2 DEF IInv

(* A scroll key moves the view.                                            *)
Scrolls == tty' = ScrollUp(tty) \/ tty' = ScrollDown(tty)

(* No step destroys the invariant, and a step prints, scrolls or starts    *)
(* the game.                                                               *)
LEMMA StepKeeps ==
  ASSUME IInv, Next
  PROVE  /\ IInv'
         /\ tty' \in Still(tty) \/ Scrolls \/ (StartGame /\ tty'.scrollMode = 0)
<1>1. /\ Kept(tty) /\ tty \in Still(tty) /\ tty.scrollMode \in 0 .. 1
      /\ inputBuffer \in [0 .. MaxGuess -> Letter \cup {Nul}]
      /\ inputIndex \in 0 .. MaxGuess /\ wordIndex \in 0 .. NumWords
      /\ solved \in 0 .. wordIndex
      /\ NumWords \in Nat \ {0} /\ MaxGuess \in Nat \ {0}
  BY KeptIsStill, WordGameAssumption DEF IInv, Kept, TypeOK, Terminal
<1>2. ASSUME NEW t \in Still(tty) PROVE Kept(t)
  BY DEF Still
<1>3. CASE StartGame
  <2> DEFINE normal == LeaveScrollMode(tty)
             t == LcdNewLine(PrintText(normal, CommandText \o IntroMsg))
  <2>1. Kept(normal) /\ normal.scrollMode = 0
    BY <1>1, LeaveScrollModeKept
  <2> HIDE DEF normal
  <2>2. normal \in Still(normal)
    BY <2>1, KeptIsStill
  <2>3. t \in Still(normal)
    BY <2>2, TextTypes, PrintTextStill, RoutinesStill
  <2>4. NextWord(t, 0)
    BY <1>3 DEF StartGame, normal
  <2> HIDE DEF t
  <2>5. Kept(t) /\ t.scrollMode = 0
    BY <2>1, <2>3 DEF Still
  <2>6. 0 \in 0 .. NumWords - 1 /\ solved' = 0 /\ UNCHANGED inputBuffer
    BY <1>1, <1>3 DEF StartGame
  <2>7. IInv' /\ tty' \in Still(t)
    BY <2>4, <2>5, <2>6, NextWordKeeps
  <2>8. QED
    BY <1>3, <2>5, <2>7 DEF Still
<1>4. CASE Scroll
  <2>1. Kept(tty') /\ Scrolls
    BY <1>1, <1>4, ScrollKept DEF Scroll, Scrolls
  <2>2. /\ UNCHANGED <<at, wordIndex, solved, asked>>
        /\ inputBuffer' = inputBuffer /\ inputIndex' = inputIndex
    BY <1>4 DEF Scroll
  <2>3. Typed'
    BY <2>2 DEF IInv, Typed
  <2>4. QED
    BY <1>1, <2>1, <2>2, <2>3, GuessingKeeps
<1>5. ASSUME NEW c \in Letter, TypeLetter(c)
      PROVE  IInv' /\ tty' \in Still(tty)
  <2>1. /\ UNCHANGED <<at, wordIndex, solved, asked>>
        /\ inputBuffer' = [inputBuffer EXCEPT ![inputIndex] = c]
        /\ inputIndex' = inputIndex + 1 /\ inputIndex < MaxGuess
        /\ tty' = PrintChar(tty, c)
    BY <1>5 DEF TypeLetter
  <2>2. tty' \in Still(tty)
    BY <1>1, <2>1, RoutinesStill, WordGameAssumption
  <2>3. /\ inputIndex' \in 0 .. MaxGuess
        /\ inputBuffer' \in [0 .. MaxGuess -> Letter \cup {Nul}]
    BY <1>1, <2>1
  <2>4. ASSUME NEW i \in 0 .. MaxGuess, i < inputIndex'
        PROVE  inputBuffer'[i] \in Letter
    <3>1. CASE i = inputIndex
      BY <1>1, <2>1, <3>1
    <3>2. CASE i # inputIndex
      <4>1. i < inputIndex /\ inputBuffer'[i] = inputBuffer[i]
        BY <1>1, <2>1, <2>4, <3>2
      <4>2. QED
        BY <4>1 DEF IInv, Typed
    <3>3. QED
      BY <3>1, <3>2
  <2>5. Typed'
    BY <2>4 DEF Typed
  <2>6. QED
    BY <1>2, <2>1, <2>2, <2>3, <2>5, GuessingKeeps
<1>6. CASE Backspace
  <2>1. /\ UNCHANGED <<at, wordIndex, solved, asked>>
        /\ inputBuffer' = inputBuffer
        /\ inputIndex' = inputIndex - 1 /\ inputIndex > 0
        /\ tty' = LcdBackspace(tty)
    BY <1>6 DEF Backspace
  <2>2. tty' \in Still(tty)
    BY <1>1, <2>1, RoutinesStill
  <2>3. inputIndex' \in 0 .. MaxGuess /\ \A i \in 0 .. MaxGuess : i < inputIndex' => i < inputIndex
    BY <1>1, <2>1
  <2>4. Typed'
    BY <2>1, <2>3 DEF IInv, Typed
  <2>5. QED
    BY <1>1, <1>2, <2>1, <2>2, <2>3, <2>4, GuessingKeeps
<1>7. CASE WrongAnswer
  <2>1. /\ at = "guess" /\ UNCHANGED <<at, wordIndex, solved, asked>>
        /\ inputBuffer' = Terminated /\ inputIndex' = 0
        /\ tty' = ShowPuzzle(LcdNewLine(PrintText(LcdNewLine(tty), WrongMsg)), Secret)
    BY <1>7 DEF WrongAnswer, Answer
  <2>2. LcdNewLine(PrintText(LcdNewLine(tty), WrongMsg)) \in Still(tty)
    BY <1>1, TextTypes, PrintTextStill, RoutinesStill
  <2>3. tty' \in Still(tty)
    BY <2>1, <2>2, GuessFacts, ShowPuzzleStill DEF Secret
  <2>4. Typed'
    BY <1>1, <2>1 DEF Typed
  <2>5. QED
    BY <1>1, <1>2, <2>1, <2>3, <2>4, GuessFacts, GuessingKeeps
<1>8. Won \in Still(tty)
  BY <1>1, TextTypes, PrintTextStill, RoutinesStill DEF Won
<1>9. CASE RightAnswer
  <2>1. tty' \in Still(tty)
    BY <1>8, <1>9, TextTypes, PrintTextStill, RoutinesStill DEF RightAnswer
  <2>2. /\ Answer /\ wordIndex < NumWords /\ at' = "continue"
        /\ solved' = solved + 1 /\ UNCHANGED <<wordIndex, inputIndex, asked>>
    BY <1>9 DEF RightAnswer
  <2>3. QED
    BY <1>2, <2>1, <2>2, AnswerKeeps
<1>10. CASE LastAnswer
  <2>1. tty' \in Still(tty)
    BY <1>8, <1>10, TextTypes, PrintTextStill, RoutinesStill DEF LastAnswer, ResetShell
  <2>2. /\ Answer /\ wordIndex >= NumWords /\ at' = "shell"
        /\ solved' = solved + 1 /\ UNCHANGED <<wordIndex, inputIndex, asked>>
    BY <1>10 DEF LastAnswer
  <2>3. QED
    BY <1>2, <2>1, <2>2, AnswerKeeps
<1>11. CASE Continue
  <2>1. /\ NextWord(LcdNewLine(tty), wordIndex) /\ at = "continue"
        /\ UNCHANGED <<inputBuffer, solved>>
    BY <1>11 DEF Continue
  <2>2. LcdNewLine(tty) \in Still(tty)
    BY <1>1, RoutinesStill
  <2>3. wordIndex \in 0 .. NumWords - 1 /\ solved' = wordIndex
    BY <1>1, <2>1 DEF IInv, Progress
  <2>4. IInv'
    BY <1>2, <2>1, <2>2, <2>3, NextWordKeeps
  <2>5. tty' \in Still(tty)
    BY <1>1, <2>1, <2>2, ShowPuzzleStill DEF NextWord
  <2>6. QED
    BY <2>4, <2>5
<1>12. QED
  BY <1>3, <1>4, <1>5, <1>6, <1>7, <1>9, <1>10, <1>11 DEF Next

(* start_wordgame, wg_update, its branches and the scroll keys, in every   *)
(* order: what the game keeps of the terminal, how far it has come and     *)
(* what has been typed stay as IInv says.                                  *)
THEOREM Invariance == Spec => []IInv
<1>1. IInv /\ [Next]_vars => IInv'
  <2>1. CASE Next
    BY <2>1, StepKeeps
  <2>2. CASE UNCHANGED vars
    BY <2>2 DEF vars, IInv, TypeOK, Kept, Progress, Typed, Place
  <2>3. QED
    BY <2>1, <2>2
<1>2. QED
  BY <1>1, InitEstablishes, PTL DEF Spec

(* TypeOK of WordGame.                                                     *)
THEOREM TypeCorrect == Spec => []TypeOK
<1>1. IInv => TypeOK
  BY DEF IInv
<1>2. QED
  BY <1>1, Invariance, PTL

(* However long the list: the game ends with the answer to its last        *)
(* question, and every word that eight bits of index * 16 reach was asked. *)
THEOREM FinishedGameCorrect == Spec => []FinishedGameAskedReachableWords
<1>1. NumWords \in Nat \ {0} /\ Slots \in Nat \ {0}
  BY WordGameAssumption
<1>2. ASSUME NEW i \in 0 .. NumWords - 1, i < Slots
      PROVE  Place(i) = i
  <2>1. i \in Nat
    BY <1>1
  <2>2. i % Slots = i
    BY <1>1, <1>2, <2>1
  <2>3. QED
    BY <2>2 DEF Place
<1>3. IInv => FinishedGameAskedReachableWords
  <2> SUFFICES ASSUME IInv, at = "shell", wordIndex > 0
               PROVE  /\ solved = NumWords
                      /\ \A i \in 0 .. NumWords - 1 : i < Slots => i \in asked
    BY DEF FinishedGameAskedReachableWords
  <2>1. /\ wordIndex = NumWords /\ solved = NumWords
        /\ asked = {Place(i) : i \in 0 .. NumWords - 1}
    BY <1>1 DEF IInv, Progress
  <2>2. QED
    BY <1>2, <2>1
<1>4. QED
  BY <1>3, Invariance, PTL

(* Whatever is printed while the player reads earlier lines, the display   *)
(* stays as it is.                                                         *)
THEOREM DisplayStill == Spec => StillWhileScrolled
<1>1. IInv /\ [Next]_vars =>
        (tty.scrollMode = 1 /\ tty'.scrollMode = 1 /\ tty'.lcd # tty.lcd =>
           tty' \in {ScrollUp(tty), ScrollDown(tty)})
  <2> SUFFICES ASSUME IInv, Next, tty.scrollMode = 1, tty'.scrollMode = 1,
                      tty'.lcd # tty.lcd
               PROVE  tty' \in {ScrollUp(tty), ScrollDown(tty)}
    BY DEF vars
  <2>1. tty' \notin Still(tty)
    BY DEF Still
  <2>2. QED
    BY <2>1, StepKeeps DEF Scrolls
<1>2. QED
  BY <1>1, Invariance, PTL DEF Spec, StillWhileScrolled

(* The guess, terminated, compares equal with a word if and only if it is  *)
(* that word: earlier, longer guesses behind it are not seen.              *)
LEMMA MatchIsEquality ==
  ASSUME IInv, at = "guess", inputIndex > 0
  PROVE  Matches(Terminated, Secret) <=> Guess = Secret
<1> DEFINE word == Secret
<1>1. word \in Seq(Letter) /\ Len(word) \in 1 .. MaxGuess
  BY GuessFacts, TextTypes DEF Secret
<1> HIDE DEF word
<1> DEFINE n == Len(word)
<1>2. /\ DOMAIN word = 1 .. n /\ n \in Nat /\ n <= MaxGuess
      /\ \A i \in 1 .. n : word[i] \in Letter /\ word[i] # Nul
  BY <1>1, GuessFacts, LenProperties, WordGameAssumption
<1>3. /\ inputIndex \in Nat /\ inputIndex <= MaxGuess /\ MaxGuess \in Nat
      /\ Terminated[inputIndex] = Nul
      /\ \A i \in 0 .. MaxGuess : i # inputIndex => Terminated[i] = inputBuffer[i]
      /\ \A i \in 0 .. MaxGuess : i < inputIndex => Terminated[i] # Nul
  <2>1. ASSUME NEW i \in 0 .. MaxGuess, i < inputIndex
        PROVE  inputBuffer[i] # Nul
    BY <2>1, WordGameAssumption DEF IInv, Typed
  <2>2. ASSUME NEW i \in 0 .. MaxGuess, i < inputIndex
        PROVE  i # inputIndex
    BY <2>2, GuessFacts
  <2>3. QED
    BY <2>1, <2>2, GuessFacts
<1>4. Guess \in Seq(Letter) /\ Len(Guess) = inputIndex
      /\ \A i \in 1 .. inputIndex : Guess[i] = inputBuffer[i - 1]
  <2>1. ASSUME NEW i \in 1 .. inputIndex
        PROVE  inputBuffer[i - 1] \in Letter
    <3>1. i - 1 \in 0 .. MaxGuess /\ i - 1 < inputIndex
      BY <1>3
    <3>2. QED
      BY <3>1 DEF IInv, Typed
  <2>2. Guess \in [1 .. inputIndex -> Letter]
    BY <2>1 DEF Guess
  <2>3. QED
    BY <1>3, <2>2 DEF Guess
<1> HIDE DEF n
<1>5. n \in Nat /\ n <= MaxGuess /\ MaxGuess \in Nat /\ inputIndex \in Nat
  BY <1>2, <1>3
<1>6. ASSUME Matches(Terminated, word)
      PROVE  Guess = word
  <2>1. /\ \A i \in 1 .. n : Terminated[i - 1] = word[i]
        /\ Terminated[n] = Nul
    BY <1>2, <1>6 DEF Matches, n
  <2>2. ~(inputIndex < n)
    <3> SUFFICES ASSUME inputIndex < n PROVE FALSE
      OBVIOUS
    <3>1. inputIndex + 1 \in 1 .. n /\ (inputIndex + 1) - 1 = inputIndex
      BY <1>5
    <3>2. Terminated[inputIndex] = word[inputIndex + 1]
      BY <2>1, <3>1
    <3>3. QED
      BY <1>2, <1>3, <3>1, <3>2
  <2>3. ~(n < inputIndex)
    <3>1. n \in 0 .. MaxGuess
      BY <1>5
    <3>2. QED
      BY <1>3, <2>1, <3>1
  <2>4. inputIndex = n
    BY <1>5, <2>2, <2>3
  <2>5. ASSUME NEW i \in 1 .. n
        PROVE  Guess[i] = word[i]
    <3>1. i - 1 \in 0 .. MaxGuess /\ i - 1 # inputIndex /\ i \in 1 .. inputIndex
      BY <1>5, <2>4
    <3>2. QED
      BY <1>3, <1>4, <2>1, <3>1
  <2>6. QED
    BY <1>1, <1>4, <2>4, <2>5, SeqEqual DEF n
<1>7. ASSUME Guess = word
      PROVE  Matches(Terminated, word)
  <2>1. inputIndex = n
    BY <1>4, <1>7 DEF n
  <2>2. ASSUME NEW i \in 1 .. n
        PROVE  Terminated[i - 1] = word[i]
    <3>1. i - 1 \in 0 .. MaxGuess /\ i - 1 # inputIndex /\ i \in 1 .. inputIndex
      BY <1>5, <2>1
    <3>2. QED
      BY <1>3, <1>4, <1>7, <3>1
  <2>3. QED
    BY <1>2, <1>3, <2>1, <2>2 DEF Matches, n
<1>8. QED
  BY <1>6, <1>7 DEF word

(* Right answers, and only those, are taken as right.                      *)
THEOREM AnswersJudged == Spec => JudgedByTheGuess
<1>1. IInv /\ [Next]_vars =>
        /\ solved' = solved + 1 => Guess = Secret
        /\ TakenAsWrong => Guess # Secret
  <2> SUFFICES ASSUME IInv, [Next]_vars
               PROVE  /\ solved' = solved + 1 => Guess = Secret
                      /\ TakenAsWrong => Guess # Secret
    OBVIOUS
  <2>1. /\ solved \in Nat /\ solved # solved + 1 /\ 0 # solved + 1
        /\ inputIndex \in Nat /\ (inputIndex > 1 => inputIndex - 1 # 0)
    <3>1. wordIndex \in Nat /\ solved \in 0 .. wordIndex /\ inputIndex \in 0 .. MaxGuess
          /\ MaxGuess \in Nat
      BY WordGameAssumption DEF IInv, TypeOK
    <3>2. QED
      BY <3>1
  <2>2. CASE StartGame
    BY <2>1, <2>2 DEF StartGame, TakenAsWrong
  <2>3. CASE Scroll
    BY <2>1, <2>3 DEF Scroll, TakenAsWrong
  <2>4. ASSUME NEW c \in Letter, TypeLetter(c)
        PROVE  solved' # solved + 1 /\ ~TakenAsWrong
    BY <2>1, <2>4 DEF TypeLetter, TakenAsWrong
  <2>5. CASE Backspace
    BY <2>1, <2>5 DEF Backspace, TakenAsWrong
  <2>6. CASE WrongAnswer
    <3>1. Guess # Secret
      BY <2>6, MatchIsEquality DEF WrongAnswer, Answer
    <3>2. solved' # solved + 1
      BY <2>1, <2>6 DEF WrongAnswer
    <3>3. QED
      BY <3>1, <3>2
  <2>7. CASE RightAnswer
    <3>1. Guess = Secret
      BY <2>7, MatchIsEquality DEF RightAnswer, Answer
    <3>2. ~TakenAsWrong
      BY <2>7 DEF RightAnswer, TakenAsWrong
    <3>3. QED
      BY <3>1, <3>2
  <2>8. CASE LastAnswer
    <3>1. Guess = Secret
      BY <2>8, MatchIsEquality DEF LastAnswer, Answer
    <3>2. ~TakenAsWrong
      BY <2>8 DEF LastAnswer, TakenAsWrong
    <3>3. QED
      BY <3>1, <3>2
  <2>9. CASE Continue
    BY <2>1, <2>9 DEF Continue, TakenAsWrong
  <2>10. CASE UNCHANGED vars
    BY <2>1, <2>10 DEF vars, TakenAsWrong
  <2>11. QED
    BY <2>2, <2>3, <2>4, <2>5, <2>6, <2>7, <2>8, <2>9, <2>10 DEF Next
<1>2. QED
  BY <1>1, Invariance, PTL DEF Spec, JudgedByTheGuess

-----------------------------------------------------------------------------
(* The echo of the guess                                                   *)

(* A text printed at the start of a line is what is left of the cursor.    *)
LEMMA PrintTextEchoes ==
  ASSUME NEW t, Sound(t), t.scrollMode = 0, t.currentCol = 0, NEW s \in Seq(Char)
  PROVE  EchoOf(PrintText(t, s), s)
<1> DEFINE X == {u \in Terminal : Sound(u) /\ u.scrollMode = 0}
           n == Len(s)
<1>1. t \in X /\ \A u \in X, c \in Char : PrintChar(u, c) \in X
  <2>1. t \in X
    BY DEF Sound
  <2>2. ASSUME NEW u \in X, NEW c \in Char PROVE PrintChar(u, c) \in X
    <3>1. Sound(PrintChar(u, c)) /\ PrintChar(u, c).scrollMode = 0
      BY PrintCharSound
    <3>2. QED
      BY <3>1 DEF Sound
  <2>3. QED
    BY <2>1, <2>2
<1> HIDE DEF X
<1>2. PICK h \in [0 .. Len(s) -> X] :
        /\ h[0] = t /\ h[Len(s)] = PrintText(t, s)
        /\ \A i \in 1 .. Len(s) : h[i] = PrintChar(h[i - 1], s[i])
  BY <1>1, PrintTextSteps
<1>3. n \in Nat /\ \A i \in 1 .. n : s[i] \in Char
  BY LenProperties
<1>4. ASSUME NEW k \in 0 .. n PROVE SubSeq(s, 1, k) \in Seq(Char)
  <2>1. 1 \in Int /\ k \in Int /\ \A i \in 1 .. k : s[i] \in Char
    BY <1>3
  <2>2. QED
    BY <2>1, SubSeqProperties
<1> DEFINE S == {k \in Nat : k <= n => EchoOf(h[k], SubSeq(s, 1, k))}
<1>5. 0 \in S
  <2>1. SubSeq(s, 1, 0) = << >>
    BY SubSeqEmpty
  <2>2. Len(<< >>) = 0 /\ h[0] = t
    BY <1>2
  <2>3. EchoOf(t, << >>)
    BY <2>2 DEF EchoOf
  <2>4. QED
    BY <2>1, <2>2, <2>3
<1>6. ASSUME NEW k \in S PROVE k + 1 \in S
  <2>1. CASE k + 1 <= n
    <3>1. /\ k \in Nat /\ k \in 0 .. n /\ k + 1 \in 1 .. n /\ (k + 1) - 1 = k
          /\ EchoOf(h[k], SubSeq(s, 1, k))
      BY <1>3, <2>1
    <3> DEFINE u == h[k]
               c == s[k + 1]
    <3>2. Sound(u) /\ u.scrollMode = 0 /\ c \in Char /\ h[k + 1] = PrintChar(u, c)
      <4>1. u \in X
        BY <1>2, <3>1
      <4>2. h[k + 1] = PrintChar(u, c) /\ c \in Char
        BY <1>2, <1>3, <3>1
      <4>3. QED
        BY <4>1, <4>2 DEF X
    <3>3. SubSeq(s, 1, k) \in Seq(Char)
      BY <1>4, <3>1
    <3> HIDE DEF u, c
    <3>4. EchoOf(PrintChar(u, c), Append(SubSeq(s, 1, k), c))
      BY <3>1, <3>2, <3>3, PrintCharEchoes DEF u
    <3>5. Append(SubSeq(s, 1, k), c) = SubSeq(s, 1, k + 1)
      <4>1. 1 \in 1 .. Len(s) /\ k + 1 \in 1 .. Len(s)
        BY <3>1
      <4>2. SubSeq(s, 1, k + 1) = SubSeq(s, 1, (k + 1) - 1) \o <<s[k + 1]>>
        BY <4>1, SubSeqRecursiveSecond
      <4>3. QED
        BY <3>1, <3>2, <3>3, <4>2, AppendIsConcat DEF c
    <3>6. EchoOf(h[k + 1], SubSeq(s, 1, k + 1))
      BY <3>2, <3>4, <3>5
    <3>7. QED
      BY <3>1, <3>6
  <2>2. CASE ~(k + 1 <= n)
    BY <2>2
  <2>3. QED
    BY <2>1, <2>2
<1>7. n \in S
  <2>1. S \in SUBSET Nat
    OBVIOUS
  <2> HIDE DEF S
  <2>2. S = Nat
    BY <1>5, <1>6, <2>1, NatSetInduction
  <2>3. QED
    BY <1>3, <2>2, Zenon
<1>8. n <= n
  BY <1>3
<1>9. EchoOf(h[n], SubSeq(s, 1, n))
  BY <1>7, <1>8
<1>10. SubSeq(s, 1, n) = s
  BY SubSeqFull
<1>11. QED
  BY <1>2, <1>9, <1>10

(* wg_show_puzzle ends with the prompt on a line of its own.               *)
LEMMA ShowPuzzleEchoes ==
  ASSUME NEW t, NEW u \in Still(t), t.scrollMode = 0, NEW i \in Nat
  PROVE  EchoOf(ShowPuzzle(u, WordList[Place(i)]), PromptMsg)
<1> DEFINE p == PrintText(u, PuzzleMsg \o Puzzle(WordList[Place(i)]))
<1>1. PuzzleMsg \o Puzzle(WordList[Place(i)]) \in Seq(Char) /\ PromptMsg \in Seq(Char)
  BY TextTypes
<1>2. p \in Still(t)
  BY <1>1, PrintTextStill
<1>3. ShowPuzzle(u, WordList[Place(i)]) = PrintText(LcdNewLine(p), PromptMsg)
  BY DEF ShowPuzzle
<1> HIDE DEF p
<1>4. p \in Terminal /\ p.scrollMode = 0
  BY <1>2 DEF Still
<1>5. /\ Sound(LcdNewLine(p)) /\ LcdNewLine(p).scrollMode = 0
      /\ LcdNewLine(p).currentCol = 0
  BY <1>4, LcdNewLineSound
<1>6. QED
  BY <1>1, <1>3, <1>5, PrintTextEchoes

(* The guess as a text.                                                    *)
LEMMA GuessType ==
  ASSUME IInv
  PROVE  /\ Guess \in Seq(Char) /\ Len(Guess) = inputIndex /\ inputIndex \in 0 .. MaxGuess
         /\ \A i \in 1 .. inputIndex : Guess[i] = inputBuffer[i - 1]
         /\ PromptMsg \o Guess \in Seq(Char)
<1>1. inputIndex \in 0 .. MaxGuess /\ MaxGuess \in Nat /\ inputIndex \in Nat
  BY WordGameAssumption DEF IInv, TypeOK
<1>2. ASSUME NEW i \in 1 .. inputIndex
      PROVE  inputBuffer[i - 1] \in Char
  <2>1. i - 1 \in 0 .. MaxGuess /\ i - 1 < inputIndex
    BY <1>1
  <2>2. inputBuffer[i - 1] \in Letter
    BY <2>1 DEF IInv, Typed
  <2>3. QED
    BY <2>2, WordGameAssumption
<1>3. Guess \in [1 .. inputIndex -> Char]
  BY <1>2 DEF Guess
<1>4. Guess \in Seq(Char) /\ Len(Guess) = inputIndex
  BY <1>1, <1>3
<1>5. PromptMsg \o Guess \in Seq(Char)
  BY <1>4, TextTypes, ConcatProperties
<1>6. QED
  BY <1>1, <1>4, <1>5 DEF Guess

(* A letter more, and one less, behind the prompt.                         *)
LEMMA PromptAndLetter ==
  ASSUME NEW p \in Seq(Char), NEW g \in Seq(Char), NEW c \in Char
  PROVE  p \o Append(g, c) = Append(p \o g, c)
<1>1. p \o g \in Seq(Char) /\ <<c>> \in Seq(Char)
  BY ConcatProperties
<1>2. Append(g, c) = g \o <<c>> /\ Append(p \o g, c) = (p \o g) \o <<c>>
  BY <1>1, AppendIsConcat
<1>3. QED
  BY <1>1, <1>2, ConcatAssociative

(* Without its last letter a guess still begins like the one it was.       *)
LEMMA PromptAndRest ==
  ASSUME NEW p \in Seq(Char), NEW g \in Seq(Char), NEW r \in Seq(Char),
         Len(r) = Len(g) - 1, \A i \in 1 .. Len(r) : r[i] = g[i]
  PROVE  /\ p \o g \in Seq(Char) /\ p \o r \in Seq(Char)
         /\ Len(p \o r) = Len(p \o g) - 1
         /\ \A i \in 1 .. Len(p \o r) : (p \o r)[i] = (p \o g)[i]
<1> DEFINE m == Len(p)
           n == Len(r)
<1>1. m \in Nat /\ n \in Nat /\ Len(g) = n + 1
  BY LenProperties
<1>2. /\ p \o g \in Seq(Char) /\ Len(p \o g) = m + Len(g)
      /\ \A i \in 1 .. m + Len(g) : (p \o g)[i] = IF i <= m THEN p[i] ELSE g[i - m]
  BY ConcatProperties
<1>3. /\ p \o r \in Seq(Char) /\ Len(p \o r) = m + n
      /\ \A i \in 1 .. m + n : (p \o r)[i] = IF i <= m THEN p[i] ELSE r[i - m]
  BY ConcatProperties
<1>4. \A i \in 1 .. n : r[i] = g[i]
  OBVIOUS
<1> HIDE DEF m, n
<1>5. ASSUME NEW i \in 1 .. m + n
      PROVE  (p \o r)[i] = (p \o g)[i]
  <2>1. i \in 1 .. m + (n + 1) /\ (i <= m \/ i - m \in 1 .. n)
    BY <1>1
  <2>2. QED
    BY <1>1, <1>2, <1>3, <1>4, <2>1
<1>6. Len(p \o r) = Len(p \o g) - 1
  BY <1>1, <1>2, <1>3
<1>7. QED
  BY <1>2, <1>3, <1>5, <1>6

(* In normal mode the display shows the prompt and the guess.              *)
Echo == at = "guess" /\ tty.scrollMode = 0 => EchoOf(tty, PromptMsg \o Guess)

(* With no letter typed it is the prompt.                                  *)
LEMMA FreshGuess ==
  ASSUME inputIndex' = 0, EchoOf(tty', PromptMsg)
  PROVE  EchoOf(tty', PromptMsg \o Guess')
<1>1. Guess' = << >>
  BY DEF Guess
<1>2. PromptMsg \o << >> = PromptMsg
  BY TextTypes, ConcatEmptySeq
<1>3. QED
  BY <1>1, <1>2

(* Typing, backspace and the prompts keep the echo.                        *)
LEMMA EchoKept == IInv /\ IInv' /\ Echo /\ [Next]_vars => Echo'
<1> SUFFICES ASSUME IInv, IInv', Echo, [Next]_vars, at' = "guess", tty'.scrollMode = 0
             PROVE  EchoOf(tty', PromptMsg \o Guess')
  BY DEF Echo
<1>1. Kept(tty) /\ tty \in Still(tty) /\ PromptMsg \in Seq(Char)
  BY KeptIsStill, TextTypes DEF IInv
<1>2. CASE StartGame
  <2> DEFINE shell == LeaveScrollMode(tty)
             t == LcdNewLine(PrintText(shell, CommandText \o IntroMsg))
  <2>1. Kept(shell) /\ shell.scrollMode = 0
    BY <1>1, LeaveScrollModeKept
  <2>2. NextWord(t, 0)
    BY <1>2 DEF StartGame
  <2> HIDE DEF shell
  <2>3. shell \in Still(shell)
    BY <2>1, KeptIsStill
  <2>4. t \in Still(shell)
    BY <2>3, TextTypes, PrintTextStill, RoutinesStill
  <2> HIDE DEF t
  <2>5. inputIndex' = 0 /\ tty' = ShowPuzzle(t, WordList[Place(0)])
    BY <2>2 DEF NextWord
  <2>6. EchoOf(tty', PromptMsg)
    BY <2>1, <2>4, <2>5, ShowPuzzleEchoes
  <2>7. QED
    BY <2>5, <2>6, FreshGuess
<1>3. CASE Scroll
  <2>1. tty' = tty /\ Guess' = Guess /\ at = "guess"
    BY <1>1, <1>3, ScrollKept DEF Scroll, Guess
  <2>2. QED
    BY <2>1 DEF Echo
<1>4. ASSUME NEW t \in Still(tty), tty' = t
      PROVE  tty.scrollMode = 0 /\ Sound(tty)
  BY <1>1, <1>4 DEF Still, Kept
<1>5. ASSUME NEW c \in Letter, TypeLetter(c)
      PROVE  EchoOf(tty', PromptMsg \o Guess')
  <2>1. /\ at = "guess" /\ tty' = PrintChar(tty, c) /\ c \in Char
        /\ inputBuffer' = [inputBuffer EXCEPT ![inputIndex] = c]
        /\ inputIndex' = inputIndex + 1
    BY <1>5, WordGameAssumption DEF TypeLetter
  <2>2. tty.scrollMode = 0 /\ Sound(tty)
    BY <1>1, <1>4, <2>1, RoutinesStill
  <2>3. EchoOf(tty', Append(PromptMsg \o Guess, c))
    BY <2>1, <2>2, GuessType, PrintCharEchoes DEF Echo
  <2>4. Guess' = Append(Guess, c)
    <3> DEFINE n == inputIndex
               g == Guess
               e == Guess'
    <3>1. /\ g \in Seq(Char) /\ Len(g) = n /\ n \in Nat /\ n \in 0 .. MaxGuess
          /\ \A i \in 1 .. n : g[i] = inputBuffer[i - 1]
      BY GuessType, WordGameAssumption
    <3>2. /\ e \in Seq(Char) /\ Len(e) = n + 1
          /\ \A i \in 1 .. n + 1 : e[i] = inputBuffer'[i - 1]
      <4>1. /\ Guess \in Seq(Char) /\ Len(Guess) = inputIndex
            /\ \A i \in 1 .. inputIndex : Guess[i] = inputBuffer[i - 1]
        BY GuessType
      <4>2. /\ Guess' \in Seq(Char) /\ Len(Guess') = inputIndex'
            /\ \A i \in 1 .. inputIndex' : Guess'[i] = inputBuffer'[i - 1]
        <5>1. /\ inputIndex' \in Nat /\ inputIndex' \in 0 .. MaxGuess
              /\ \A i \in 0 .. MaxGuess : i < inputIndex' => inputBuffer'[i] \in Letter
          BY WordGameAssumption DEF IInv, TypeOK, Typed
        <5>2. ASSUME NEW i \in 1 .. inputIndex'
              PROVE  inputBuffer'[i - 1] \in Char
          <6>1. i - 1 \in 0 .. MaxGuess /\ i - 1 < inputIndex'
            BY <5>1, WordGameAssumption
          <6>2. QED
            BY <5>1, <6>1, WordGameAssumption
        <5>3. Guess' \in [1 .. inputIndex' -> Char]
          BY <5>2 DEF Guess
        <5>4. QED
          BY <5>1, <5>3 DEF Guess
      <4>3. QED
        BY <2>1, <4>2
    <3>3. /\ Append(g, c) \in Seq(Char) /\ Len(Append(g, c)) = n + 1
          /\ \A i \in 1 .. n : Append(g, c)[i] = g[i]
          /\ Append(g, c)[n + 1] = c
      <4> HIDE DEF g
      <4>1. QED
        BY <2>1, <3>1, AppendProperties
    <3>4. inputBuffer \in [0 .. MaxGuess -> Letter \cup {Nul}]
      BY DEF IInv, TypeOK
    <3> HIDE DEF g, e, n
    <3>5. ASSUME NEW i \in 1 .. n + 1
          PROVE  e[i] = Append(g, c)[i]
      <4>1. CASE i = n + 1
        <5>1. i - 1 = n
          BY <3>1, <4>1
        <5>2. QED
          BY <2>1, <3>1, <3>2, <3>3, <3>4, <4>1, <5>1 DEF n
      <4>2. CASE i # n + 1
        <5>1. i \in 1 .. n /\ i - 1 # n /\ i - 1 \in 0 .. MaxGuess
          <6>1. n \in Nat /\ n <= MaxGuess /\ MaxGuess \in Nat
            BY <3>1, WordGameAssumption
          <6>2. QED
            BY <4>2, <6>1
        <5>2. inputBuffer'[i - 1] = inputBuffer[i - 1]
          BY <2>1, <3>4, <5>1 DEF n
        <5>3. QED
          BY <3>1, <3>2, <3>3, <5>1, <5>2
      <4>3. QED
        BY <4>1, <4>2
    <3>6. e = Append(g, c)
      BY <3>2, <3>3, <3>5, SeqEqual
    <3>7. QED
      BY <3>6 DEF e, g
  <2>5. PromptMsg \o Append(Guess, c) = Append(PromptMsg \o Guess, c)
    BY <1>1, <2>1, GuessType, PromptAndLetter
  <2>6. QED
    BY <2>3, <2>4, <2>5
<1>6. CASE Backspace
  <2>1. /\ at = "guess" /\ tty' = LcdBackspace(tty)
        /\ inputBuffer' = inputBuffer
        /\ inputIndex' = inputIndex - 1 /\ inputIndex > 0
    BY <1>6 DEF Backspace
  <2>2. tty.scrollMode = 0 /\ Sound(tty)
    BY <1>1, <1>4, <2>1, RoutinesStill
  <2> DEFINE n == inputIndex
             g == Guess
             e == Guess'
  <2>3. /\ g \in Seq(Char) /\ Len(g) = n /\ n \in Nat /\ n \in 0 .. MaxGuess /\ n > 0
        /\ \A i \in 1 .. n : g[i] = inputBuffer[i - 1]
    BY <2>1, GuessType, WordGameAssumption
  <2>4. e = [i \in 1 .. n - 1 |-> inputBuffer[i - 1]]
    BY <2>1 DEF Guess
  <2> HIDE DEF g, e, n
  <2>5. e \in Seq(Char) /\ Len(e) = n - 1 /\ \A i \in 1 .. n - 1 : e[i] = g[i]
    <3>1. n - 1 \in Nat /\ \A i \in 1 .. n - 1 : i \in 1 .. n
      BY <2>3
    <3>2. \A i \in 1 .. n : g[i] \in Char
      BY <2>3
    <3>3. \A i \in 1 .. n - 1 : inputBuffer[i - 1] \in Char
      BY <2>3, <3>1, <3>2
    <3>4. e \in [1 .. n - 1 -> Char]
      BY <2>4, <3>3
    <3>5. e \in Seq(Char) /\ Len(e) = n - 1
      BY <3>1, <3>4
    <3>6. QED
      BY <2>3, <2>4, <3>1, <3>5
  <2>6. /\ PromptMsg \o g \in Seq(Char) /\ PromptMsg \o e \in Seq(Char)
        /\ Len(PromptMsg \o e) = Len(PromptMsg \o g) - 1
        /\ \A i \in 1 .. Len(PromptMsg \o e) : (PromptMsg \o e)[i] = (PromptMsg \o g)[i]
    <3>1. Len(e) = Len(g) - 1 /\ \A i \in 1 .. Len(e) : e[i] = g[i]
      BY <2>3, <2>5
    <3>2. PromptMsg \in Seq(Char) /\ g \in Seq(Char) /\ e \in Seq(Char)
      BY <1>1, <2>3, <2>5
    <3>3. QED
      BY <3>1, <3>2, PromptAndRest
  <2>7. EchoOf(tty, PromptMsg \o g)
    BY <2>1, <2>2 DEF Echo, g
  <2>8. EchoOf(tty', PromptMsg \o e)
    BY <2>1, <2>2, <2>6, <2>7, BackspaceEchoes
  <2>9. QED
    BY <2>8 DEF e
<1>7. CASE WrongAnswer
  <2>1. /\ at = "guess" /\ inputIndex' = 0
        /\ tty' = ShowPuzzle(LcdNewLine(PrintText(LcdNewLine(tty), WrongMsg)), Secret)
    BY <1>7 DEF WrongAnswer, Answer
  <2> DEFINE t == LcdNewLine(PrintText(LcdNewLine(tty), WrongMsg))
  <2>2. t \in Still(tty)
    BY <1>1, TextTypes, PrintTextStill, RoutinesStill
  <2> HIDE DEF t
  <2>3. tty' = ShowPuzzle(t, WordList[Place(wordIndex - 1)]) /\ wordIndex - 1 \in Nat
    BY <2>1, GuessFacts DEF t, Secret
  <2>4. tty.scrollMode = 0
    BY <1>4, <2>2, <2>3, ShowPuzzleStill
  <2>5. EchoOf(tty', PromptMsg)
    BY <2>2, <2>3, <2>4, ShowPuzzleEchoes
  <2>6. QED
    BY <2>1, <2>5, FreshGuess
<1>8. CASE RightAnswer \/ LastAnswer
  BY <1>8 DEF RightAnswer, LastAnswer
<1>9. CASE Continue
  <2>1. NextWord(LcdNewLine(tty), wordIndex) /\ wordIndex \in Nat
    BY <1>9, WordGameAssumption DEF Continue, IInv, TypeOK
  <2>2. LcdNewLine(tty) \in Still(tty)
    BY <1>1, RoutinesStill
  <2>3. inputIndex' = 0 /\ tty' = ShowPuzzle(LcdNewLine(tty), WordList[Place(wordIndex)])
    BY <2>1 DEF NextWord
  <2>4. tty.scrollMode = 0
    BY <1>4, <2>1, <2>2, <2>3, ShowPuzzleStill
  <2>5. EchoOf(tty', PromptMsg)
    BY <2>1, <2>2, <2>3, <2>4, ShowPuzzleEchoes
  <2>6. QED
    BY <2>3, <2>5, FreshGuess
<1>10. CASE UNCHANGED vars
  BY <1>10 DEF vars, Echo, Guess
<1>11. QED
  BY <1>2, <1>3, <1>5, <1>6, <1>7, <1>8, <1>9, <1>10 DEF Next

(* Until the player scrolls, the display and the end of the guess on it    *)
(* are right.                                                              *)
THEOREM GuessShown == Spec => []GuessIsShown
<1>1. Init => Echo
  BY DEF Init, Echo
<1>2. IInv /\ Echo => GuessIsShown
  <2> SUFFICES ASSUME IInv, Echo, tty.scrollMode = 0
               PROVE  /\ ShowsBuffer(tty) /\ CursorInPlace(tty)
                      /\ at = "guess" => EchoOf(tty, PromptMsg \o Guess)
    BY DEF GuessIsShown, EchoOf
  <2>1. Sound(tty)
    BY DEF IInv, Kept
  <2>2. QED
    BY <2>1 DEF Sound, Echo
<1>3. QED
  BY <1>1, <1>2, EchoKept, Invariance, PTL DEF Spec

-----------------------------------------------------------------------------
(* The file utilities: walks                                               *)

(* Components lead from place to place.                                   *)
LEMMA LeadsOnSteps ==
  ASSUME NEW X, NEW t \in X, NEW s \in Seq(Component),
         \A u \in X, c \in Component : Onward(u, c) \in X
  PROVE  \E h \in [0 .. Len(s) -> X] :
           /\ h[0] = t /\ h[Len(s)] = LeadsOn(t, s)
           /\ \A i \in 1 .. Len(s) : h[i] = Onward(h[i - 1], s[i])
<1> DEFINE n == Len(s)
           step == [p \in X \X (1 .. n) |-> Onward(p[1], s[p[2]])]
           Folds(g) == g = [e \in SUBSET (1 .. n) |->
                              IF e = {} THEN t
                              ELSE Onward(g[e \ {Max(e)}], s[Max(e)])]
           iter == CHOOSE g : Folds(g)
           h == [i \in 0 .. n |-> iter[1 .. i]]
<1>1. n \in Nat /\ DOMAIN s = 1 .. n /\ \A i \in 1 .. n : s[i] \in Component
  BY LenProperties
<1>2. LeadsOn(t, s) = iter[1 .. n]
  BY <1>1 DEF LeadsOn, FoldLeft, MapThenFoldSet
<1> HIDE DEF n
<1>3. step \in [X \X (1 .. n) -> X]
  BY <1>1
<1>4. PICK g \in [SUBSET (1 .. n) -> X] : FoldsUpTo(g, t, step, n)
  <2> HIDE DEF step
  <2>1. QED
    BY <1>1, <1>3, FoldExists
<1>5. Folds(g)
  <2> DEFINE next(e) == IF e = {} THEN t ELSE Onward(g[e \ {Max(e)}], s[Max(e)])
  <2>1. ASSUME NEW e \in SUBSET (1 .. n)
        PROVE  g[e] = next(e)
    <3>1. /\ e # {} => Max(e) \in e
          /\ g[e] = IF e = {} THEN t ELSE step[<<g[e \ {Max(e)}], Max(e)>>]
      BY <1>4 DEF FoldsUpTo
    <3>2. CASE e # {}
      <4>1. <<g[e \ {Max(e)}], Max(e)>> \in X \X (1 .. n)
        BY <1>4, <3>1, <3>2
      <4>2. QED
        BY <3>1, <3>2, <4>1
    <3>3. QED
      BY <3>1, <3>2
  <2> HIDE DEF next, step
  <2>2. g = [e \in SUBSET (1 .. n) |-> next(e)]
    BY <2>1
  <2>3. QED
    BY <2>2 DEF next
<1>6. Folds(iter)
  <2> HIDE DEF Folds
  <2>1. QED
    BY <1>5
<1>7. \A e \in SUBSET (1 .. n) :
        iter[e] = IF e = {} THEN t ELSE Onward(iter[e \ {Max(e)}], s[Max(e)])
  BY <1>6
<1> HIDE DEF iter
<1>8. h[0] = t /\ h[n] = iter[1 .. n]
  <2>1. 1 .. 0 = {} /\ 0 \in 0 .. n /\ n \in 0 .. n
    BY <1>1
  <2>2. QED
    BY <1>7, <2>1
<1>9. ASSUME NEW i \in 1 .. n
      PROVE  h[i] = Onward(h[i - 1], s[i])
  <2>1. /\ 1 .. i \in SUBSET (1 .. n) /\ 1 .. i # {} /\ i \in 0 .. n /\ i - 1 \in 0 .. n
        /\ (1 .. i) \ {i} = 1 .. i - 1
    <3>1. i \in Nat /\ i >= 1 /\ i <= n
      BY <1>1
    <3>2. \A k \in 1 .. i : k \in 1 .. n
      BY <1>1, <3>1
    <3>3. (1 .. i) \ {i} = 1 .. i - 1
      BY <3>1
    <3>4. i \in 1 .. i /\ i \in 0 .. n /\ i - 1 \in 0 .. n
      BY <1>1, <3>1
    <3>5. QED
      BY <3>2, <3>3, <3>4
  <2>2. Max(1 .. i) = i
    <3>1. 1 .. i \in SUBSET Nat /\ i \in 1 .. i /\ \A k \in 1 .. i : k <= i
      BY <1>1
    <3>2. QED
      BY <3>1, MaxIs
  <2>3. QED
    BY <1>7, <2>1, <2>2
<1> HIDE DEF h
<1>10. h \in [0 .. n -> X]
  <2> DEFINE S == {k \in Nat : k <= n => h[k] \in X}
  <2>1. 0 \in S
    BY <1>8
  <2>2. ASSUME NEW k \in S PROVE k + 1 \in S
    <3>1. CASE k + 1 <= n
      <4>1. k + 1 \in 1 .. n /\ (k + 1) - 1 = k /\ k <= n
        BY <1>1, <3>1
      <4>2. h[k] \in X /\ h[k + 1] = Onward(h[k], s[k + 1]) /\ s[k + 1] \in Component
        BY <1>1, <1>9, <4>1
      <4>3. QED
        BY <4>2
    <3>2. QED
      BY <3>1
  <2>3. S = Nat
    <3>1. S \in SUBSET Nat
      OBVIOUS
    <3> HIDE DEF S
    <3>2. QED
      BY <2>1, <2>2, <3>1, NatSetInduction
  <2>4. \A k \in 0 .. n : k \in Nat /\ k <= n
    BY <1>1
  <2>5. \A k \in 0 .. n : h[k] \in X
    BY <2>3, <2>4
  <2>6. h = [k \in 0 .. n |-> h[k]]
    BY DEF h
  <2>7. QED
    BY <2>5, <2>6
<1>11. QED
  BY <1>2, <1>8, <1>9, <1>10 DEF n

(* Two walks of the same steps from one place come to the same places.     *)
Alike(g, h, n) ==
  g[0] = h[0] /\ \A i \in 1 .. n : g[i - 1] = h[i - 1] => g[i] = h[i]

(* By induction on the number of steps.                                    *)
LEMMA TrailsAgree ==
  ASSUME NEW n \in Nat, NEW g, NEW h, Alike(g, h, n)
  PROVE  \A i \in 0 .. n : g[i] = h[i]
<1> DEFINE S == {i \in Nat : i <= n => g[i] = h[i]}
<1>1. 0 \in S
  BY DEF Alike
<1>2. ASSUME NEW i \in S PROVE i + 1 \in S
  <2>1. CASE i + 1 <= n
    <3>1. i + 1 \in 1 .. n /\ (i + 1) - 1 = i /\ i <= n
      BY <2>1
    <3>2. g[i] = h[i]
      BY <3>1
    <3>3. g[i + 1] = h[i + 1]
      BY <3>1, <3>2 DEF Alike
    <3>4. QED
      BY <3>3
  <2>2. QED
    BY <2>1
<1>3. S = Nat
  <2>1. S \in SUBSET Nat
    OBVIOUS
  <2> HIDE DEF S
  <2>2. QED
    BY <1>1, <1>2, <2>1, NatSetInduction
<1>4. QED
  BY <1>3

-----------------------------------------------------------------------------
(* The image                                                               *)

(* What a component leads to.                                              *)
Places == DOMAIN Inodes \cup {Nowhere}

(* The number of an inode is in one byte, and is not the one that stands   *)
(* for nowhere.                                                            *)
LEMMA InodeFacts ==
  /\ \A n \in DOMAIN Inodes : n \in 1 .. 31 /\ n \in 0 .. 255 /\ n # Nowhere
  /\ \A n \in DOMAIN Inodes : InodePtr(n) = n
  /\ \A n \in Nat : workPtr \in 0 .. 31 => InodePtr(n) \in 0 .. 31
  /\ Root \in DOMAIN Tree /\ DOMAIN Tree \subseteq DOMAIN Inodes
<1>1. \A n \in DOMAIN Inodes : n \in 1 .. 31 /\ n \in 0 .. 255 /\ n # Nowhere
  BY RomFSAssumption DEF Nowhere
<1>2. \A n \in 1 .. 31 : n < 64 /\ n % 32 = n
  OBVIOUS
<1>3. \A n \in Nat : n % 32 \in 0 .. 31
  OBVIOUS
<1>4. 1 \in DOMAIN Tree
  BY DEF Tree
<1>5. QED
  BY <1>1, <1>2, <1>3, <1>4, ImageAssumption DEF InodePtr, MaxInodes, Root

(* The directories are the places of the tree.                             *)
LEMMA DirectoriesAreOfTheTree ==
  ASSUME NEW n
  PROVE  IsDir(n) <=> n \in DOMAIN Tree
BY ImageAssumption DEF IsDir

(* scan_block on the block of a directory, and find_in_dir_block: a name   *)
(* that leads on is found, and nothing else.                               *)
LEMMA FindsWhatLeadsOn ==
  ASSUME NEW n \in DOMAIN Tree, NEW c
  PROVE  FindInDirBlock(n, c.name) =
           IF c.name \in DOMAIN Tree[n] THEN {Onward(n, c)} ELSE {}
<1> DEFINE own == Inodes[n].block
           entries == Blocks[own]
           scanned == ScanBlock(own, c.name)
<1>1. /\ own \in DOMAIN Blocks
      /\ DOMAIN Tree[n] = {entries[i].name : i \in DOMAIN entries}
      /\ \A i \in DOMAIN entries : Tree[n][entries[i].name] = entries[i].inode
      /\ Inodes[n].uid \in DOMAIN Blocks => Inodes[n].uid = own
  BY ImageAssumption
<1>2. scanned = {entries[i].inode : i \in {j \in DOMAIN entries : entries[j].name = c.name}}
  BY <1>1 DEF ScanBlock
<1>3. Inodes[n].uid \notin DOMAIN Blocks => ScanBlock(Inodes[n].uid, c.name) = {}
  BY DEF ScanBlock
<1> HIDE DEF own, entries, scanned
<1>4. CASE c.name \in DOMAIN Tree[n]
  <2>1. PICK i \in DOMAIN entries : entries[i].name = c.name
    BY <1>1, <1>4
  <2>2. \A j \in DOMAIN entries :
          entries[j].name = c.name => entries[j].inode = Tree[n][c.name]
    BY <1>1
  <2>3. scanned = {Tree[n][c.name]}
    BY <1>2, <2>1, <2>2
  <2>4. FindInDirBlock(n, c.name) = scanned
    BY <2>3 DEF FindInDirBlock, scanned, own
  <2>5. QED
    BY <1>4, <2>3, <2>4 DEF Onward
<1>5. CASE c.name \notin DOMAIN Tree[n]
  <2>1. scanned = {}
    BY <1>1, <1>2, <1>5
  <2>2. ScanBlock(Inodes[n].uid, c.name) = {}
    BY <1>1, <1>3, <2>1 DEF scanned
  <2>3. QED
    BY <1>5, <2>2, <2>1 DEF FindInDirBlock, scanned, own
<1>6. QED
  BY <1>4, <1>5

(* What is found is an inode, of a block that any directory has.           *)
LEMMA FoundIsInode ==
  ASSUME NEW n, NEW name
  PROVE  FindInDirBlock(n, name) \subseteq DOMAIN Inodes
<1>1. \A b : ScanBlock(b, name) \subseteq DOMAIN Inodes
  BY ImageAssumption DEF ScanBlock
<1>2. QED
  BY <1>1 DEF FindInDirBlock

-----------------------------------------------------------------------------
(* Where paths lead                                                        *)

(* A component leads to an inode or nowhere, and from nowhere not on.      *)
LEMMA OnwardFacts ==
  ASSUME NEW n, NEW c
  PROVE  /\ Onward(n, c) \in Places
         /\ Onward(Nowhere, c) = Nowhere
<1>1. ASSUME n \in DOMAIN Tree, c.name \in DOMAIN Tree[n]
      PROVE  Onward(n, c) \in DOMAIN Inodes
  <2> DEFINE m == Onward(n, c)
  <2>1. FindInDirBlock(n, c.name) = {m}
    BY <1>1, FindsWhatLeadsOn
  <2>2. {m} \subseteq DOMAIN Inodes
    BY <2>1, FoundIsInode
  <2> HIDE DEF m
  <2>3. m \in DOMAIN Inodes
    BY <2>2
  <2>4. QED
    BY <2>3 DEF m
<1>2. ~(n \in DOMAIN Tree /\ c.name \in DOMAIN Tree[n]) => Onward(n, c) = Nowhere
  BY DEF Onward
<1>3. Onward(n, c) \in Places
  BY <1>1, <1>2 DEF Places
<1>4. Nowhere \notin DOMAIN Tree
  BY InodeFacts
<1>5. QED
  BY <1>3, <1>4 DEF Onward

(* The places on the way.                                                  *)
LEMMA Trail ==
  ASSUME NEW n \in Places, NEW s \in Seq(Component)
  PROVE  \E h \in [0 .. Len(s) -> Places] :
           /\ h[0] = n /\ h[Len(s)] = LeadsOn(n, s)
           /\ \A i \in 1 .. Len(s) : h[i] = Onward(h[i - 1], s[i])
<1>1. \A u \in Places, c \in Component : Onward(u, c) \in Places
  BY OnwardFacts
<1>2. QED
  BY <1>1, LeadsOnSteps

(* No component leads nowhere else.                                        *)
LEMMA LeadsOnEmpty ==
  ASSUME NEW n \in Places
  PROVE  LeadsOn(n, << >>) = n
<1>1. << >> \in Seq(Component) /\ Len(<< >>) = 0
  OBVIOUS
<1>2. PICK h \in [0 .. Len(<< >>) -> Places] :
        h[0] = n /\ h[Len(<< >>)] = LeadsOn(n, << >>)
  BY <1>1, Trail
<1>3. QED
  BY <1>1, <1>2

(* From nowhere all components lead nowhere.                               *)
LEMMA LeadsOnNowhere ==
  ASSUME NEW s \in Seq(Component)
  PROVE  LeadsOn(Nowhere, s) = Nowhere
<1> DEFINE n == Len(s)
<1>1. n \in Nat
  OBVIOUS
<1>2. Nowhere \in Places
  BY DEF Places
<1>3. PICK h \in [0 .. n -> Places] :
        /\ h[0] = Nowhere /\ h[n] = LeadsOn(Nowhere, s)
        /\ \A i \in 1 .. n : h[i] = Onward(h[i - 1], s[i])
  BY <1>2, Trail
<1> HIDE DEF n
<1> DEFINE g == [i \in 0 .. n |-> Nowhere]
<1>5. /\ g[0] = Nowhere /\ g[n] = Nowhere
      /\ \A i \in 1 .. n : g[i - 1] = Nowhere /\ g[i] = Nowhere
  BY <1>1
<1> HIDE DEF g
<1>6. Alike(g, h, n)
  BY <1>3, <1>5, OnwardFacts DEF Alike
<1>7. \A i \in 0 .. n : g[i] = h[i]
  BY <1>1, <1>6, TrailsAgree
<1>8. QED
  BY <1>1, <1>3, <1>5, <1>7

(* The first component, then the others.                                   *)
LEMMA LeadsOnHead ==
  ASSUME NEW n \in Places, NEW s \in Seq(Component), s # << >>
  PROVE  LeadsOn(n, s) = LeadsOn(Onward(n, Head(s)), Tail(s))
<1> DEFINE l == Len(s)
           r == Tail(s)
           m == Onward(n, Head(s))
<1>1. l \in Nat \ {0} /\ Head(s) = s[1]
  BY EmptySeq
<1>2. r \in Seq(Component) /\ Len(r) = l - 1 /\ \A i \in 1 .. l - 1 : r[i] = s[i + 1]
  BY HeadTailProperties
<1>3. m \in Places
  BY OnwardFacts
<1>4. PICK h \in [0 .. l -> Places] :
        /\ h[0] = n /\ h[l] = LeadsOn(n, s)
        /\ \A i \in 1 .. l : h[i] = Onward(h[i - 1], s[i])
  BY Trail
<1> HIDE DEF l, r, m
<1>5. PICK g \in [0 .. Len(r) -> Places] :
        /\ g[0] = m /\ g[Len(r)] = LeadsOn(m, r)
        /\ \A i \in 1 .. Len(r) : g[i] = Onward(g[i - 1], r[i])
  BY <1>2, <1>3, Trail
<1>6. l - 1 \in Nat
  BY <1>1
<1> DEFINE e == [i \in 0 .. l - 1 |-> h[i + 1]]
<1>7. /\ e[0] = h[1] /\ e[l - 1] = h[l]
      /\ \A i \in 1 .. l - 1 : e[i - 1] = h[i] /\ e[i] = h[i + 1]
  <2>1. 0 \in 0 .. l - 1 /\ l - 1 \in 0 .. l - 1 /\ (l - 1) + 1 = l /\ 0 + 1 = 1
    BY <1>1
  <2>2. \A i \in 1 .. l - 1 : i \in 0 .. l - 1 /\ i - 1 \in 0 .. l - 1 /\ (i - 1) + 1 = i
    BY <1>1
  <2>3. QED
    BY <2>1, <2>2
<1> HIDE DEF e
<1>8. h[1] = m
  <2>1. 1 \in 1 .. l /\ 1 - 1 = 0
    BY <1>1
  <2>2. QED
    BY <1>1, <1>4, <2>1 DEF m
<1>9. \A i \in 1 .. l - 1 : e[i - 1] = g[i - 1] => e[i] = g[i]
  <2> SUFFICES ASSUME NEW i \in 1 .. l - 1, e[i - 1] = g[i - 1]
               PROVE  e[i] = g[i]
    OBVIOUS
  <2>1. i + 1 \in 1 .. l /\ (i + 1) - 1 = i
    BY <1>1
  <2>2. h[i + 1] = Onward(h[i], s[i + 1])
    BY <1>4, <2>1
  <2>3. g[i] = Onward(g[i - 1], r[i]) /\ r[i] = s[i + 1]
    BY <1>2, <1>5
  <2>4. QED
    BY <1>7, <2>2, <2>3
<1>10. \A i \in 0 .. l - 1 : e[i] = g[i]
  <2> DEFINE k == l - 1
  <2>1. e[0] = g[0]
    BY <1>5, <1>7, <1>8
  <2>2. k \in Nat /\ Alike(e, g, k)
    BY <1>6, <1>9, <2>1 DEF Alike
  <2> HIDE DEF k
  <2>3. \A i \in 0 .. k : e[i] = g[i]
    BY <2>2, TrailsAgree
  <2>4. QED
    BY <2>3 DEF k
<1>11. l - 1 \in 0 .. l - 1
  BY <1>1
<1>12. QED
  BY <1>2, <1>4, <1>5, <1>7, <1>10, <1>11 DEF m, r

-----------------------------------------------------------------------------
(* The inductive invariant of the file system                              *)

(* What a component too long for TOKEN_BUFFER stores as working directory. *)
Stray(n) == \E c \in Component : "workingDir" \in DOMAIN c.over /\ n = c.over["workingDir"]

(* What WORKING_DIR_INODE holds.                                           *)
Home(n) == n \in DOMAIN Tree \/ Stray(n)

(* A walk is at an inode, or has not left a working directory that is none.*)
Placed == util # "shell" => currentInode \in DOMAIN Inodes \/ Stray(currentInode)

(* On a sound path the components not yet walked lead from the inode of    *)
(* the walk where the whole path leads, and the working directory is still *)
(* the one the command found.                                              *)
Walked ==
  util # "shell" /\ SoundPath =>
    /\ workingDir = from /\ currentInode \in DOMAIN Inodes
    /\ \A i \in 1 .. Len(left) : Fits(left[i])
    /\ LeadsOn(currentInode, left) = Leads(from, path)

(* The inductive invariant of the file system.                             *)
FsIInv == FsTypeOK /\ Placed /\ Walked

(* next_path_token: what a component stores behind TOKEN_BUFFER.           *)
LEMMA OverwrittenFacts ==
  ASSUME NEW c \in Component
  PROVE  /\ \A v, n : Fits(c) => Overwritten(c, v, n) = n
         /\ \A v, n : n \in 0 .. 255 => Overwritten(c, v, n) \in 0 .. 255
         /\ \A n : Home(n) => Home(Overwritten(c, "workingDir", n))
<1>1. Fits(c) => DOMAIN c.over = {}
  BY DEF Fits
<1>2. ~Fits(c) => \A v \in DOMAIN c.over : c.over[v] \in 0 .. 255
  <2> SUFFICES ASSUME ~Fits(c), NEW v \in DOMAIN c.over PROVE c.over[v] \in 0 .. 255
    OBVIOUS
  <2>1. c.over \in Overrun
    BY RomFSAssumption
  <2>2. PICK V \in SUBSET {"currentInode", "workingDir"} : c.over \in [V -> 0 .. 255]
    BY <2>1 DEF Overrun
  <2>3. QED
    BY <2>2
<1>3. QED
  BY <1>1, <1>2 DEF Overwritten, Home, Stray

(* A working directory is one byte.                                        *)
LEMMA HomeIsByte ==
  ASSUME NEW n, Home(n)
  PROVE  n \in 0 .. 255
<1>1. CASE n \in DOMAIN Tree
  BY <1>1, InodeFacts
<1>2. CASE Stray(n)
  <2>1. PICK c \in Component : "workingDir" \in DOMAIN c.over /\ n = c.over["workingDir"]
    BY <1>2 DEF Stray
  <2>2. c.over # << >>
    BY <2>1
  <2>3. c.over \in Overrun
    BY <2>2, RomFSAssumption DEF Fits
  <2>4. QED
    BY <2>1, <2>3 DEF Overrun
<1>3. QED
  BY <1>1, <1>2 DEF Home

(* The first conjunct of FsTypeOK in these words.                          *)
LEMMA WorkingDirIsHome ==
  Home(workingDir) <=>
    \/ workingDir \in DOMAIN Inodes /\ Inodes[workingDir].dir
    \/ \E c \in Component :
         "workingDir" \in DOMAIN c.over /\ workingDir = c.over["workingDir"]
BY ImageAssumption DEF Home, Stray

(* The same of the next state.                                             *)
LEMMA NextWorkingDirIsHome ==
  Home(workingDir') <=>
    \/ workingDir' \in DOMAIN Inodes /\ Inodes[workingDir'].dir
    \/ \E c \in Component :
         "workingDir" \in DOMAIN c.over /\ workingDir' = c.over["workingDir"]
BY ImageAssumption DEF Home, Stray

(* At the prompt of a shell just reset no command has run.                 *)
LEMMA FsInitEstablishes == FsInit => FsIInv
<1> SUFFICES ASSUME FsInit PROVE FsIInv
  OBVIOUS
<1>1. Home(workingDir) /\ Root \in 0 .. 255
  BY InodeFacts DEF FsInit, Home
<1>2. Empty \in Path
  <2>1. 0 \in 0 .. MaxPath /\ << >> \in [1 .. 0 -> Component]
    BY RomFSAssumption
  <2>2. << >> \in UNION {[1 .. n -> Component] : n \in 0 .. MaxPath}
    BY <2>1
  <2>3. QED
    BY <2>2 DEF Empty, Path
<1>3. << >> \in Seq(Component) /\ Len(<< >>) <= MaxPath
  BY RomFSAssumption
<1>4. FsTypeOK
  BY <1>1, <1>2, <1>3, WorkingDirIsHome DEF FsInit, FsTypeOK
<1>5. Placed /\ Walked
  BY DEF FsInit, Placed, Walked
<1>6. QED
  BY <1>4, <1>5 DEF FsIInv

(* start_cd, start_ls: the walk begins at the root or at the working       *)
(* directory, with all of the path before it.                              *)
LEMMA StartKeeps ==
  ASSUME FsIInv, NEW u \in {"cd", "ls"}, Start(u)
  PROVE  FsIInv'
<1>1. PICK p \in Path :
        /\ path' = p /\ left' = p.components
        /\ currentInode' = IF p.absolute THEN Root ELSE workingDir
  BY DEF Start
<1>2. /\ util' = u /\ from' = workingDir
      /\ workingDir' = workingDir /\ workPtr' = workPtr
  BY DEF Start
<1>3. p.components \in Seq(Component) /\ Len(p.components) <= MaxPath
  <2> DEFINE s == p.components
  <2>1. s \in UNION {[1 .. n -> Component] : n \in 0 .. MaxPath}
    BY DEF Path
  <2> HIDE DEF s
  <2>2. PICK n \in 0 .. MaxPath : s \in [1 .. n -> Component]
    BY <2>1
  <2>3. n \in Nat /\ n <= MaxPath
    BY RomFSAssumption
  <2>4. s \in Seq(Component) /\ Len(s) = n
    BY <2>2, <2>3
  <2>5. QED
    BY <2>3, <2>4 DEF s
<1>4. FsTypeOK /\ Home(workingDir) /\ Home(Root)
  BY WorkingDirIsHome, InodeFacts DEF FsIInv, FsTypeOK, Home
<1>5. Home(currentInode')
  BY <1>1, <1>4
<1>6. FsTypeOK'
  <2>1. workingDir \in 0 .. 255 /\ currentInode' \in 0 .. 255
    BY <1>4, <1>5, HomeIsByte
  <2>2. Home(workingDir')
    BY <1>2, <1>4
  <2>3. QED
    BY <1>1, <1>2, <1>3, <1>4, <2>1, <2>2, NextWorkingDirIsHome DEF FsTypeOK
<1>7. Placed'
  BY <1>5, InodeFacts DEF Placed, Home
<1>8. Walked'
  <2> SUFFICES ASSUME SoundPath'
               PROVE  /\ workingDir' = from' /\ currentInode' \in DOMAIN Inodes
                      /\ \A i \in 1 .. Len(left') : Fits(left'[i])
                      /\ LeadsOn(currentInode', left') = Leads(from', path')
    BY DEF Walked
  <2>1. /\ \A i \in DOMAIN p.components : Fits(p.components[i])
        /\ p.absolute \/ workingDir \in DOMAIN Tree
    BY <1>1, <1>2 DEF SoundPath
  <2>2. DOMAIN p.components = 1 .. Len(p.components)
    BY <1>3, LenProperties
  <2>3. currentInode' \in DOMAIN Inodes
    BY <1>1, <2>1, InodeFacts
  <2>4. LeadsOn(currentInode', left') = Leads(from', path')
    BY <1>1, <1>2 DEF Leads
  <2>5. QED
    BY <1>1, <1>2, <2>1, <2>2, <2>3, <2>4
<1>9. QED
  BY <1>6, <1>7, <1>8 DEF FsIInv

(* next_path_token and the lookup: on a sound path the component is found  *)
(* when it leads on, and what is left leads on from there.                 *)
LEMMA TokenFacts ==
  ASSUME FsIInv, NEW c \in Component, Token(c)
  PROVE  /\ Home(workingDir') /\ workPtr' \in 0 .. 31
         /\ left # << >> /\ Tail(left) \in Seq(Component) /\ Len(Tail(left)) <= MaxPath
         /\ Found(c) \subseteq DOMAIN Inodes
         /\ SoundPath =>
              /\ workingDir' = from
              /\ Found(c) = IF Onward(currentInode, c) = Nowhere
                              THEN {} ELSE {Onward(currentInode, c)}
              /\ \A i \in 1 .. Len(Tail(left)) : Fits(Tail(left)[i])
              /\ Leads(from, path) = LeadsOn(Onward(currentInode, c), Tail(left))
<1>1. /\ FsTypeOK /\ Home(workingDir) /\ util # "shell"
      /\ left \in Seq(Component) /\ left # << >> /\ c = Head(left)
      /\ workingDir' = Overwritten(c, "workingDir", workingDir)
      /\ workPtr' = InodePtr(Overwritten(c, "currentInode", currentInode))
  BY WorkingDirIsHome DEF FsIInv, FsTypeOK, Token
<1>2. Home(workingDir')
  BY <1>1, OverwrittenFacts
<1>3. workPtr' \in 0 .. 31
  <2> DEFINE n == Overwritten(c, "currentInode", currentInode)
  <2>1. n \in 0 .. 255
    BY <1>1, OverwrittenFacts DEF FsTypeOK
  <2> HIDE DEF n
  <2>2. n \in Nat
    BY <2>1
  <2>3. InodePtr(n) \in 0 .. 31
    BY <1>1, <2>2, InodeFacts DEF FsTypeOK
  <2>4. QED
    BY <1>1, <2>3 DEF n
<1> DEFINE l == Len(left)
           r == Tail(left)
<1>4. /\ l \in Nat \ {0} /\ c = left[1] /\ r \in Seq(Component) /\ Len(r) = l - 1
      /\ \A i \in 1 .. l - 1 : r[i] = left[i + 1]
  BY <1>1, EmptySeq, HeadTailProperties
<1>5. l <= MaxPath /\ MaxPath \in Nat
  BY <1>1, RomFSAssumption DEF FsTypeOK
<1>6. Found(c) \subseteq DOMAIN Inodes
  BY FoundIsInode DEF Found
<1> HIDE DEF l, r
<1>7. ASSUME SoundPath
      PROVE  /\ workingDir' = from
             /\ Found(c) = IF Onward(currentInode, c) = Nowhere
                             THEN {} ELSE {Onward(currentInode, c)}
             /\ \A i \in 1 .. Len(r) : Fits(r[i])
             /\ Leads(from, path) = LeadsOn(Onward(currentInode, c), r)
  <2>1. /\ workingDir = from /\ currentInode \in DOMAIN Inodes
        /\ \A i \in 1 .. l : Fits(left[i])
        /\ LeadsOn(currentInode, left) = Leads(from, path)
    BY <1>1, <1>7 DEF FsIInv, Walked, l
  <2>2. 1 \in 1 .. l
    BY <1>4
  <2>3. Fits(c)
    BY <1>4, <2>1, <2>2
  <2>4. workingDir' = from /\ workPtr' = currentInode
    BY <1>1, <2>1, <2>3, OverwrittenFacts, InodeFacts
  <2>5. Found(c) = IF Onward(currentInode, c) = Nowhere
                    THEN {} ELSE {Onward(currentInode, c)}
    <3>1. CASE currentInode \in DOMAIN Tree
      <4> DEFINE n == currentInode
      <4>1. Found(c) = FindInDirBlock(n, c.name)
        BY <2>4, <3>1, DirectoriesAreOfTheTree DEF Found
      <4>2. FindInDirBlock(n, c.name) =
              IF c.name \in DOMAIN Tree[n] THEN {Onward(n, c)} ELSE {}
        BY <3>1, FindsWhatLeadsOn
      <4>3. c.name \notin DOMAIN Tree[n] => Onward(n, c) = Nowhere
        BY DEF Onward
      <4>4. c.name \in DOMAIN Tree[n] => Onward(n, c) # Nowhere
        <5> SUFFICES ASSUME c.name \in DOMAIN Tree[n]
                     PROVE  Onward(n, c) # Nowhere
          OBVIOUS
        <5>1. {Onward(n, c)} \subseteq DOMAIN Inodes
          BY <4>2, FoundIsInode
        <5>2. QED
          BY <5>1, InodeFacts
      <4>5. QED
        BY <4>1, <4>2, <4>3, <4>4
    <3>2. CASE currentInode \notin DOMAIN Tree
      <4>1. Onward(currentInode, c) = Nowhere
        BY <3>2 DEF Onward
      <4>2. Found(c) = {}
        BY <2>4, <3>2, DirectoriesAreOfTheTree DEF Found
      <4>3. QED
        BY <4>1, <4>2
    <3>3. QED
      BY <3>1, <3>2
  <2>6. \A i \in 1 .. Len(r) : Fits(r[i])
    <3>1. \A i \in 1 .. l - 1 : i + 1 \in 1 .. l
      BY <1>4
    <3>2. QED
      BY <1>4, <2>1, <3>1
  <2>7. LeadsOn(currentInode, left) = LeadsOn(Onward(currentInode, c), r)
    <3>1. currentInode \in Places
      BY <2>1 DEF Places
    <3>2. QED
      BY <1>1, <3>1, LeadsOnHead DEF r
  <2>8. QED
    BY <2>1, <2>4, <2>5, <2>6, <2>7
<1>8. Len(r) <= MaxPath
  BY <1>4, <1>5
<1>9. QED
  BY <1>1, <1>2, <1>3, <1>4, <1>6, <1>7, <1>8 DEF r

(* cd and ls: the component is found and the walk goes on from it.         *)
LEMMA WalkOnKeeps ==
  ASSUME FsIInv, WalkOn
  PROVE  FsIInv'
<1>1. PICK c \in Component :
        /\ Token(c) /\ currentInode' \in Found(c) /\ left' = Tail(left)
        /\ util' = util /\ shown' = shown
  BY DEF WalkOn
<1>2. /\ Home(workingDir') /\ workPtr' \in 0 .. 31
      /\ Tail(left) \in Seq(Component) /\ Len(Tail(left)) <= MaxPath
      /\ Found(c) \subseteq DOMAIN Inodes
  BY <1>1, TokenFacts
<1>3. from' = from /\ path' = path
  BY <1>1 DEF Token
<1>4. currentInode' \in DOMAIN Inodes
  BY <1>1, <1>2
<1>5. FsTypeOK'
  <2>1. currentInode' \in 0 .. 255
    BY <1>4, InodeFacts
  <2>2. QED
    BY <1>1, <1>2, <1>3, <2>1, NextWorkingDirIsHome DEF FsIInv, FsTypeOK
<1>6. Placed'
  BY <1>4 DEF Placed
<1>7. Walked'
  <2> SUFFICES ASSUME SoundPath'
               PROVE  /\ workingDir' = from' /\ currentInode' \in DOMAIN Inodes
                      /\ \A i \in 1 .. Len(left') : Fits(left'[i])
                      /\ LeadsOn(currentInode', left') = Leads(from', path')
    BY DEF Walked
  <2>1. SoundPath
    BY <1>3 DEF SoundPath
  <2>2. /\ workingDir' = from
        /\ Found(c) = IF Onward(currentInode, c) = Nowhere
                        THEN {} ELSE {Onward(currentInode, c)}
        /\ \A i \in 1 .. Len(Tail(left)) : Fits(Tail(left)[i])
        /\ Leads(from, path) = LeadsOn(Onward(currentInode, c), Tail(left))
    BY <1>1, <2>1, TokenFacts
  <2>3. currentInode' = Onward(currentInode, c)
    BY <1>1, <2>2
  <2>4. QED
    BY <1>1, <1>3, <1>4, <2>2, <2>3
<1>8. QED
  BY <1>5, <1>6, <1>7 DEF FsIInv

(* A utility that ends leaves no walk behind.                              *)
LEMMA FinishKeeps ==
  ASSUME FsIInv, util' = "shell", left' = << >>, from' = from, path' = path,
         Home(workingDir'), currentInode' \in 0 .. 255, workPtr' \in 0 .. 31
  PROVE  FsIInv'
<1>1. << >> \in Seq(Component) /\ Len(<< >>) <= MaxPath
  BY RomFSAssumption
<1>2. FsTypeOK'
  BY <1>1, NextWorkingDirIsHome DEF FsIInv, FsTypeOK
<1>3. Placed' /\ Walked'
  BY DEF Placed, Walked
<1>4. QED
  BY <1>2, <1>3 DEF FsIInv

(* cd and ls: path_not_found.                                              *)
LEMMA WalkFailsKeeps ==
  ASSUME FsIInv, WalkFails
  PROVE  FsIInv'
<1>1. PICK c \in Component :
        /\ Token(c) /\ util' = "shell" /\ left' = << >>
        /\ currentInode' = Overwritten(c, "currentInode", currentInode)
  BY DEF WalkFails, Finish
<1>2. Home(workingDir') /\ workPtr' \in 0 .. 31
  BY <1>1, TokenFacts
<1>3. from' = from /\ path' = path
  BY <1>1 DEF Token
<1>4. currentInode' \in 0 .. 255
  BY <1>1, OverwrittenFacts DEF FsIInv, FsTypeOK
<1>5. QED
  BY <1>1, <1>2, <1>3, <1>4, FinishKeeps

(* Where the path has led: WORK_PTR is on that inode.                      *)
LEMMA ArrivedFacts ==
  ASSUME FsIInv, Arrived, util # "shell"
  PROVE  /\ currentInode' = currentInode /\ from' = from /\ path' = path
         /\ currentInode \in 0 .. 255 /\ workPtr' \in 0 .. 31
         /\ IsDir(workPtr') => Home(currentInode)
         /\ SoundPath =>
              /\ workingDir = from /\ workPtr' = Leads(from, path)
              /\ currentInode = Leads(from, path) /\ Leads(from, path) \in DOMAIN Inodes
<1>1. /\ left = << >> /\ workPtr' = InodePtr(currentInode)
      /\ currentInode' = currentInode /\ from' = from /\ path' = path
  BY DEF Arrived
<1>2. /\ FsTypeOK /\ currentInode \in 0 .. 255 /\ currentInode \in Nat
      /\ currentInode \in DOMAIN Inodes \/ Stray(currentInode)
  BY DEF FsIInv, FsTypeOK, Placed
<1>3. workPtr' \in 0 .. 31
  BY <1>1, <1>2, InodeFacts DEF FsTypeOK
<1>4. IsDir(workPtr') => Home(currentInode)
  <2>1. CASE currentInode \in DOMAIN Inodes
    <3>1. workPtr' = currentInode
      BY <1>1, <2>1, InodeFacts
    <3>2. QED
      BY <3>1, DirectoriesAreOfTheTree DEF Home
  <2>2. QED
    BY <1>2, <2>1 DEF Home
<1>5. ASSUME SoundPath
      PROVE  /\ workingDir = from /\ workPtr' = Leads(from, path)
             /\ currentInode = Leads(from, path) /\ Leads(from, path) \in DOMAIN Inodes
  <2>1. /\ workingDir = from /\ currentInode \in DOMAIN Inodes
        /\ LeadsOn(currentInode, << >>) = Leads(from, path)
    BY <1>1, <1>5 DEF FsIInv, Walked
  <2>2. LeadsOn(currentInode, << >>) = currentInode
    <3>1. currentInode \in Places
      BY <2>1 DEF Places
    <3>2. QED
      BY <3>1, LeadsOnEmpty
  <2>3. workPtr' = currentInode
    BY <1>1, <2>1, InodeFacts
  <2>4. QED
    BY <2>1, <2>2, <2>3
<1>6. QED
  BY <1>1, <1>2, <1>3, <1>4, <1>5

(* cd: the working directory is what was arrived at, or what it was.       *)
LEMMA CdArrivesKeeps ==
  ASSUME FsIInv, CdArrives
  PROVE  FsIInv'
<1>1. /\ util = "cd" /\ Arrived /\ util' = "shell" /\ left' = << >>
      /\ IF IsDir(workPtr') THEN workingDir' = currentInode ELSE workingDir' = workingDir
  BY DEF CdArrives, Finish
<1>2. /\ currentInode' = currentInode /\ from' = from /\ path' = path
      /\ currentInode \in 0 .. 255 /\ workPtr' \in 0 .. 31
      /\ IsDir(workPtr') => Home(currentInode)
  BY <1>1, ArrivedFacts
<1>3. Home(workingDir')
  <2>1. Home(workingDir)
    BY WorkingDirIsHome DEF FsIInv, FsTypeOK
  <2>2. QED
    BY <1>1, <1>2, <2>1
<1>4. QED
  BY <1>1, <1>2, <1>3, FinishKeeps

(* ls changes neither.                                                     *)
LEMMA LsArrivesKeeps ==
  ASSUME FsIInv, LsArrives
  PROVE  FsIInv'
<1>1. /\ util = "ls" /\ Arrived /\ util' = "shell" /\ left' = << >>
      /\ workingDir' = workingDir
  BY DEF LsArrives, Finish
<1>2. /\ currentInode' = currentInode /\ from' = from /\ path' = path
      /\ currentInode \in 0 .. 255 /\ workPtr' \in 0 .. 31
  BY <1>1, ArrivedFacts
<1>3. Home(workingDir')
  BY <1>1, WorkingDirIsHome DEF FsIInv, FsTypeOK
<1>4. QED
  BY <1>1, <1>2, <1>3, FinishKeeps

(* What a step leaves alone, the output of pwd apart, keeps the invariant. *)
LEMMA FsStill ==
  ASSUME FsIInv,
         UNCHANGED <<workingDir, currentInode, workPtr, util, left, from, path>>
  PROVE  FsIInv'
<1>1. FsTypeOK' /\ Placed'
  BY DEF FsIInv, FsTypeOK, Placed
<1>2. Walked'
  BY DEF FsIInv, Walked, SoundPath
<1>3. QED
  BY <1>1, <1>2 DEF FsIInv

(* The walk stays on the tree, whatever commands came before.              *)
THEOREM FsInvariance == FsSpec => []FsIInv
<1>1. FsIInv /\ [FsNext]_fsVars => FsIInv'
  <2> SUFFICES ASSUME FsIInv, [FsNext]_fsVars PROVE FsIInv'
    OBVIOUS
  <2>1. CASE StartCd
    BY <2>1, StartKeeps DEF StartCd
  <2>2. CASE StartLs
    BY <2>2, StartKeeps DEF StartLs
  <2>3. CASE Pwd
    BY <2>3, FsStill DEF Pwd
  <2>4. CASE WalkOn
    BY <2>4, WalkOnKeeps
  <2>5. CASE WalkFails
    BY <2>5, WalkFailsKeeps
  <2>6. CASE CdArrives
    BY <2>6, CdArrivesKeeps
  <2>7. CASE LsArrives
    BY <2>7, LsArrivesKeeps
  <2>8. CASE UNCHANGED fsVars
    BY <2>8, FsStill DEF fsVars
  <2>9. QED
    BY <2>1, <2>2, <2>3, <2>4, <2>5, <2>6, <2>7, <2>8 DEF FsNext
<1>2. QED
  BY <1>1, FsInitEstablishes, PTL DEF FsSpec

-----------------------------------------------------------------------------
(* cd, ls and pwd                                                          *)

(* get_inode_ptr and next_path_token: the numbers stay in their bytes, the *)
(* working directory stays a directory unless an overrun stored it.        *)
THEOREM FsTypeCorrect == FsSpec => []FsTypeOK
<1>1. FsIInv => FsTypeOK
  BY DEF FsIInv
<1>2. QED
  BY <1>1, FsInvariance, PTL

(* A sound path on which a component is not found leads nowhere.           *)
LEMMA FailsLeadsNowhere ==
  ASSUME FsIInv, WalkFails, SoundPath
  PROVE  Leads(from, path) = Nowhere /\ workingDir' = from
<1>1. PICK c \in Component : Token(c) /\ Found(c) = {}
  BY DEF WalkFails
<1>2. /\ workingDir' = from
      /\ Found(c) = IF Onward(currentInode, c) = Nowhere
                      THEN {} ELSE {Onward(currentInode, c)}
      /\ Leads(from, path) = LeadsOn(Onward(currentInode, c), Tail(left))
      /\ Tail(left) \in Seq(Component)
  BY <1>1, TokenFacts
<1>3. Onward(currentInode, c) = Nowhere
  BY <1>1, <1>2
<1>4. QED
  BY <1>2, <1>3, LeadsOnNowhere

(* cd: a command that ends has gone where the path leads in the tree, or   *)
(* has stayed where it was.                                                *)
THEOREM CdCorrect == FsSpec => CdFollowsTheTree
<1> DEFINE Gone == IF Leads(from, path) \in DOMAIN Tree
                     THEN shown' = <<"ok">> /\ workingDir' = Leads(from, path)
                     ELSE shown' = <<"cd_fail">> /\ workingDir' = from
<1>1. FsIInv /\ [FsNext]_fsVars
        => [util = "cd" /\ util' = "shell" /\ SoundPath => Gone]_fsVars
  <2> SUFFICES ASSUME FsIInv, FsNext, util = "cd", util' = "shell", SoundPath
               PROVE  Gone
    OBVIOUS
  <2>1. WalkFails \/ CdArrives
    BY DEF FsNext, StartCd, StartLs, Start, Pwd, WalkOn, LsArrives
  <2>2. CASE WalkFails
    <3>1. Leads(from, path) \notin DOMAIN Tree /\ workingDir' = from
      BY <2>2, FailsLeadsNowhere, InodeFacts
    <3>2. shown' = <<"cd_fail">>
      BY <2>2 DEF WalkFails, Finish
    <3>3. QED
      BY <3>1, <3>2
  <2>3. CASE CdArrives
    <3>1. /\ workingDir = from /\ workPtr' = Leads(from, path)
          /\ currentInode = Leads(from, path)
      BY <2>3, ArrivedFacts DEF CdArrives
    <3>2. IsDir(workPtr') <=> Leads(from, path) \in DOMAIN Tree
      BY <3>1, DirectoriesAreOfTheTree
    <3>3. QED
      BY <2>3, <3>1, <3>2 DEF CdArrives, Finish
  <2>4. QED
    BY <2>1, <2>2, <2>3
<1>2. QED
  BY <1>1, FsInvariance, PTL DEF FsSpec, CdFollowsTheTree

(* print_dir: the names of the block, each once.                           *)
LEMMA ListingIsTheTree ==
  ASSUME NEW n \in DOMAIN Tree
  PROVE  LET names == NamesIn(Inodes[n].block)
         IN  /\ {names[i] : i \in DOMAIN names} = DOMAIN Tree[n]
             /\ \A i, j \in DOMAIN names : names[i] = names[j] => i = j
<1> DEFINE own == Inodes[n].block
           entries == Blocks[own]
           names == NamesIn(own)
<1>1. /\ own \in DOMAIN Blocks
      /\ DOMAIN Tree[n] = {entries[i].name : i \in DOMAIN entries}
      /\ \A i, j \in DOMAIN entries : entries[i].name = entries[j].name => i = j
  BY ImageAssumption
<1>2. names = [i \in DOMAIN entries |-> entries[i].name]
  BY <1>1 DEF NamesIn
<1> HIDE DEF own, entries, names
<1>3. DOMAIN names = DOMAIN entries /\ \A i \in DOMAIN entries : names[i] = entries[i].name
  BY <1>2
<1>4. QED
  BY <1>1, <1>3 DEF names, own

(* ls: what it prints is what the tree has where the path leads.           *)
THEOREM LsCorrect == FsSpec => LsShowsWhatIsThere
<1> DEFINE Shows(n) ==
             CASE n \in DOMAIN Tree ->
                    /\ {shown'[i] : i \in DOMAIN shown'} = DOMAIN Tree[n]
                    /\ \A i, j \in DOMAIN shown' : shown'[i] = shown'[j] => i = j
               [] n = Nowhere -> \A i \in DOMAIN shown' : shown'[i] \notin Listed
               [] OTHER -> shown' = <<"FILE">>
<1>1. FsIInv /\ [FsNext]_fsVars
        => [util = "ls" /\ util' = "shell" /\ SoundPath => Shows(Leads(from, path))]_fsVars
  <2> SUFFICES ASSUME FsIInv, FsNext, util = "ls", util' = "shell", SoundPath
               PROVE  Shows(Leads(from, path))
    OBVIOUS
  <2> DEFINE n == Leads(from, path)
  <2>1. WalkFails \/ LsArrives
    BY DEF FsNext, StartCd, StartLs, Start, Pwd, WalkOn, CdArrives
  <2>2. CASE WalkFails
    <3>1. n = Nowhere /\ Nowhere \notin DOMAIN Tree
      BY <2>2, FailsLeadsNowhere, InodeFacts
    <3>2. shown' = << >>
      BY <2>2 DEF WalkFails, Finish
    <3> HIDE DEF n
    <3>3. \A i \in DOMAIN shown' : shown'[i] \notin Listed
      BY <3>2
    <3>5. Shows(n)
      BY <3>1, <3>3
    <3>4. QED
      BY <3>5 DEF n
  <2>3. CASE LsArrives
    <3>1. workPtr' = n /\ n \in DOMAIN Inodes
      BY <2>3, ArrivedFacts DEF LsArrives
    <3>2. n # Nowhere
      BY <3>1, InodeFacts
    <3>3. shown' = IF IsDir(workPtr') THEN NamesIn(Inodes[workPtr'].block) ELSE <<"FILE">>
      BY <2>3 DEF LsArrives, Finish
    <3> HIDE DEF n
    <3>4. IsDir(n) <=> n \in DOMAIN Tree
      BY DirectoriesAreOfTheTree
    <3>5. Shows(n)
      <4>1. CASE n \in DOMAIN Tree
        <5>1. shown' = NamesIn(Inodes[n].block)
          BY <3>1, <3>3, <3>4, <4>1
        <5>2. /\ {shown'[i] : i \in DOMAIN shown'} = DOMAIN Tree[n]
              /\ \A i, j \in DOMAIN shown' : shown'[i] = shown'[j] => i = j
          BY <4>1, <5>1, ListingIsTheTree
        <5>3. QED
          BY <4>1, <3>2, <5>2
      <4>2. CASE n \notin DOMAIN Tree
        BY <3>1, <3>2, <3>3, <3>4, <4>2
      <4>3. QED
        BY <4>1, <4>2
    <3>6. QED
      BY <3>5 DEF n
  <2>4. QED
    BY <2>1, <2>2, <2>3
<1>2. QED
  BY <1>1, FsInvariance, PTL DEF FsSpec, LsShowsWhatIsThere
=============================================================================
