------------------------------- MODULE Dispatch -------------------------------
(***************************************************************************)
(* process_shell_cmd of shell/test.s: how a command line is compared with  *)
(* the names of the commands.  One step is one pass through the code       *)
(* between two labels, so that what the index registers hold at a label    *)
(* is visible.                                                             *)
(*                                                                         *)
(* label is <<"check", u>> at check_<u>, <<"match", u>> at                 *)
(* <u>_match_check, <<"call", u>> at call_<u>, and then <<"unknown">> or   *)
(* <<"returned">>.  What is behind the match of cd, pwd and ls (skipping   *)
(* blanks, moving the path to PATH_INPUT) is not here: no command line     *)
(* leads there, see SupportedCommandsStart.                                *)
(***************************************************************************)
EXTENDS Naturals, Sequences, SequencesExt, ShellCommands

CONSTANTS Commands    \* the command lines typed, sequences of characters

ASSUME DispatchAssumption ==
  \A line \in Commands : line \in Seq(ToSet(line)) \ {<< >>}

(* The byte that ends a name, and the one process_shell_cmd stores behind  *)
(* the command line.                                                       *)
NUL == "\\0"

ByteAt(s, i) == IF i < Len(s) THEN s[i + 1] ELSE NUL

VARIABLES
  command,   \* CMD_BUFFER
  x, y,      \* the index registers
  label
dispatchVars == <<command, x, y, label>>

Labels ==
  ({"check", "match", "call"} \X Utility) \cup {<<"unknown">>, <<"returned">>}

(* The registers hold numbers, and a branch leads to labels of              *)
(* process_shell_cmd.                                                      *)
DispatchTypeOK ==
  /\ command \in Commands
  /\ x \in Nat /\ y \in Nat
  /\ label \in Labels

DispatchInit ==
  /\ command \in Commands
  /\ x = 0 /\ y = 0
  /\ label = <<"check", "wordgame">>

-----------------------------------------------------------------------------
(* Where check_<u> goes when the characters differ.                        *)
Otherwise == [ wordgame |-> <<"check", "cd">>,
               cd       |-> <<"check", "pwd">>,
               pwd      |-> <<"check", "ls">>,
               ls       |-> <<"unknown">> ]

Compare(u, i, j) ==
  /\ x' = i
  /\ y' = j
  /\ label' = IF ByteAt(command, i) = ByteAt(Name[u], j)
                THEN <<"match", u>> ELSE Otherwise[u]

(* Mutant: check_wordgame loads 0 like the others.                         *)
CheckWordgame_Fresh ==
  /\ label = <<"check", "wordgame">>
  /\ Compare("wordgame", 0, 0)
  /\ UNCHANGED command

(* check_wordgame is entered with X and Y at 0 and loops with what they    *)
(* hold; the other three load 0 into both every time they are reached,     *)
(* "for fresh comparison", from their own match loop as well.              *)
CheckWordgame ==
  /\ label = <<"check", "wordgame">>
  /\ Compare("wordgame", x, y)
  /\ UNCHANGED command

(* Mutant: the registers keep what the last comparison left in them.       *)
CheckUtility_KeepsIndex(u) ==
  /\ label = <<"check", u>>
  /\ Compare(u, x, y)
  /\ UNCHANGED command

CheckUtility(u) ==
  /\ label = <<"check", u>>
  /\ Compare(u, 0, 0)
  /\ UNCHANGED command

(* Mutant: one character of the name is enough.                            *)
Match_FirstCharacter(u) ==
  /\ label = <<"match", u>>
  /\ x' = x + 1
  /\ y' = y + 1
  /\ label' = <<"call", u>>
  /\ UNCHANGED command

(* Mutant: the end of the name is not noticed.                             *)
Match_PastName(u) ==
  /\ label = <<"match", u>>
  /\ x' = x + 1
  /\ y' = y + 1
  /\ label' = <<"check", u>>
  /\ UNCHANGED command

Match(u) ==
  /\ label = <<"match", u>>
  /\ x' = x + 1
  /\ y' = y + 1
  /\ label' = IF ByteAt(Name[u], y') = NUL THEN <<"call", u>> ELSE <<"check", u>>
  /\ UNCHANGED command

(* JSR start_<u> or print_unknown, and RTS.                                *)
Return ==
  /\ label = <<"unknown">> \/ label[1] = "call"
  /\ label' = <<"returned">>
  /\ UNCHANGED <<command, x, y>>

DispatchNext ==
  \/ CheckWordgame
  \/ \E u \in Utility \ {"wordgame"} : CheckUtility(u)
  \/ \E u \in Utility : Match(u)
  \/ Return

(* The processor goes on executing.                                        *)
DispatchSpec == DispatchInit /\ [][DispatchNext]_dispatchVars /\ WF_dispatchVars(DispatchNext)

-----------------------------------------------------------------------------
(* Properties                                                              *)

(* The match loops stop at the NUL behind the command and at the one       *)
(* behind the name: no character that an earlier, longer command left in   *)
(* CMD_BUFFER, nor one that follows a name in ROM, counts as a match.      *)
StopsAtTerminator ==
  label[1] = "match" => x < Len(command) /\ y < Len(Name[label[2]])

(* A command is called only for a line that begins with its whole name,    *)
(* character by character, never for a part of it or for a mixture of two  *)
(* names (bug2 of shell/test.s), and a line is reported as unknown only if *)
(* it begins with no name.  What follows the name is not looked at (bug1,  *)
(* "if command is cd2, it matches command cd"): wordgame2 starts the game. *)
CallNeedsWholeName ==
  /\ label[1] = "call" => IsPrefix(Name[label[2]], command)
  /\ label = <<"unknown">> => \A u \in Utility : ~IsPrefix(Name[u], command)

(* process_shell_cmd comes back from every line that does not spin.        *)
ReturnsUnlessSpins == ~Spins(command) => <>(label = <<"returned">>)

(* It comes back from no line that does, so the lines Console takes to     *)
(* hang the program are all of those that do.                              *)
SpinningNeverReturns == Spins(command) => label # <<"returned">>

(* A line that begins with the name of a command starts that command       *)
(* ("Parse command - currently supports ls", "Tested cd by changing        *)
(* directory").                                                            *)
SupportedCommandsStart ==
  \A u \in Utility :
    IsPrefix(Name[u], command) => <>(label = <<"call", u>>)
=============================================================================
