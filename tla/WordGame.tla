------------------------------ MODULE WordGame ------------------------------
(***************************************************************************)
(* The word game of shell/test.s on the LCD terminal, from the command     *)
(* that starts it to the prompt that follows it.                           *)
(*                                                                         *)
(* The game has two key loops of its own.  Unlike the shell's, neither     *)
(* ends scroll mode, and in scroll mode the driver stores what is printed  *)
(* without moving the column or writing the display.                       *)
(*                                                                         *)
(* A key is what the next poll of KEY_INPUT returns: a press that is       *)
(* overwritten or erased there (Console) is here a press not made.  A loop *)
(* that goes back to polling with nothing changed, as Enter does with an   *)
(* empty guess and a letter with a full one, is no step.                   *)
(***************************************************************************)
EXTENDS LcdTerminal, SequencesExt

CONSTANTS
  WordList,    \* wg_word_list, a function from 0
  Slots,       \* how many words eight bits of index * 16 tell apart, 16
  NumWords,    \* WG_NUM_WORDS, 40 in the program
  MaxGuess,    \* the letters WG_INPUT_BUFFER takes, 15
  LongWord,    \* the length from which more letters are blanked, 6
  FewBlanks, ManyBlanks,  \* 2 and 4
  Letter,      \* the characters a player types
  Nul, Underscore,
  CommandText, \* "wordgame"
  IntroMsg, PuzzleMsg, PromptMsg, WinMsg, WrongMsg, NextMsg, CompleteMsg

ASSUME WordGameAssumption ==
  /\ Slots \in Nat \ {0} /\ NumWords \in Nat \ {0} /\ MaxGuess \in Nat \ {0}
  /\ LongWord \in Nat /\ FewBlanks \in Nat /\ ManyBlanks \in Nat
  /\ \A i \in 0 .. Slots - 1 :
       WordList[i] \in Seq(Letter) /\ Len(WordList[i]) \in 1 .. MaxGuess
  /\ Letter \subseteq Char /\ Underscore \in Char /\ Nul \notin Char
  /\ \A m \in {CommandText, IntroMsg, PuzzleMsg, PromptMsg,
               WinMsg, WrongMsg, NextMsg, CompleteMsg} : m \in Seq(Char)

VARIABLES
  tty,
  at,          \* the loop that polls: the shell's, wg_input_loop or wg_wait_key
  wordIndex,   \* WG_WORD_INDEX, the words selected in this game
  inputBuffer, \* WG_INPUT_BUFFER
  inputIndex,  \* WG_INPUT_INDEX
  solved,      \* history: the puzzles of this game answered
  asked        \* history: the places in WordList of the words of this game

vars == <<tty, at, wordIndex, inputBuffer, inputIndex, solved, asked>>

(* The driver's variables are in their ranges, the letters typed are in    *)
(* WG_INPUT_BUFFER with room for the terminator.                           *)
TypeOK ==
  /\ tty \in Terminal
  /\ at \in {"shell", "guess", "continue"}
  /\ wordIndex \in 0 .. NumWords
  /\ inputBuffer \in [0 .. MaxGuess -> Letter \cup {Nul}]
  /\ inputIndex \in 0 .. MaxGuess
  /\ solved \in 0 .. wordIndex
  /\ asked \subseteq 0 .. Slots - 1

Init ==
  /\ tty = PrintPrompt(PoweredOn)
  /\ at = "shell"
  /\ wordIndex = 0
  /\ inputBuffer = [i \in 0 .. MaxGuess |-> Nul]
  /\ inputIndex = 0
  /\ solved = 0 /\ asked = {}

-----------------------------------------------------------------------------
(* What the game prints                                                    *)

PrintText(t, text) == FoldLeft(PrintChar, t, text)

(* wg_select_word: index * 16 in the accumulator.                          *)
Place(index) == index % Slots

(* The word in WG_CURRENT_WORD: wg_select_word has incremented the index.  *)
Secret == WordList[Place(wordIndex - 1)]

(* wg_create_puzzle: every other letter from the second, up to so many.    *)
Puzzle(word) ==
  LET blanks == IF Len(word) < LongWord THEN FewBlanks ELSE ManyBlanks
  IN [i \in DOMAIN word |->
        IF i % 2 = 0 /\ i <= 2 * blanks THEN Underscore ELSE word[i]]

(* wg_show_puzzle.                                                         *)
ShowPuzzle(t, word) ==
  PrintText(LcdNewLine(PrintText(t, PuzzleMsg \o Puzzle(word))), PromptMsg)

LeaveScrollMode(t) == IF t.scrollMode = 0 THEN t ELSE ExitScrollMode(t)

ResetShell(t) == PrintPrompt(LcdNewLine(t))

(* wg_next_word with index words selected before, on terminal t.           *)
NextWord(t, index) ==
  /\ wordIndex' = index + 1
  /\ asked' = (IF index = 0 THEN {} ELSE asked) \cup {Place(index)}
  /\ tty' = ShowPuzzle(t, WordList[Place(index)])
  /\ inputIndex' = 0
  /\ at' = "guess"

-----------------------------------------------------------------------------
(* The player                                                              *)

(* The command typed at the prompt, Enter, and wg_init.                    *)
StartGame ==
  /\ at = "shell"
  /\ NextWord(LcdNewLine(PrintText(LeaveScrollMode(tty), CommandText \o IntroMsg)), 0)
  /\ solved' = 0
  /\ UNCHANGED inputBuffer

(* The scroll keys, handled alike by the shell and by wg_input_loop.       *)
Scroll ==
  /\ at \in {"shell", "guess"}
  /\ tty' = ScrollUp(tty) \/ tty' = ScrollDown(tty)
  /\ UNCHANGED <<at, wordIndex, inputBuffer, inputIndex, solved, asked>>

(* Mutant: the letter is echoed before it is known to fit.                 *)
TypeLetter_EchoFirst(c) ==
  /\ at = "guess"
  /\ tty' = PrintChar(tty, c)
  /\ IF inputIndex < MaxGuess
       THEN /\ inputBuffer' = [inputBuffer EXCEPT ![inputIndex] = c]
            /\ inputIndex' = inputIndex + 1
       ELSE UNCHANGED <<inputBuffer, inputIndex>>
  /\ UNCHANGED <<at, wordIndex, solved, asked>>

(* Mutant: room for the letter is checked as if the buffer had a byte more. *)
TypeLetter_OneMore(c) ==
  /\ at = "guess"
  /\ inputIndex <= MaxGuess
  /\ inputBuffer' = [inputBuffer EXCEPT ![inputIndex] = c]
  /\ inputIndex' = inputIndex + 1
  /\ tty' = PrintChar(tty, c)
  /\ UNCHANGED <<at, wordIndex, solved, asked>>

TypeLetter(c) ==
  /\ at = "guess"
  /\ inputIndex < MaxGuess
  /\ inputBuffer' = [inputBuffer EXCEPT ![inputIndex] = c]
  /\ inputIndex' = inputIndex + 1
  /\ tty' = PrintChar(tty, c)
  /\ UNCHANGED <<at, wordIndex, solved, asked>>

(* Mutant: the letter erased is brought into view.                         *)
Backspace_Follows ==
  /\ at = "guess"
  /\ inputIndex > 0
  /\ inputIndex' = inputIndex - 1
  /\ tty' = ShowCurrentLine(LcdBackspace(tty))
  /\ UNCHANGED <<at, wordIndex, inputBuffer, solved, asked>>

Backspace ==
  /\ at = "guess"
  /\ inputIndex > 0
  /\ inputIndex' = inputIndex - 1
  /\ tty' = LcdBackspace(tty)
  /\ UNCHANGED <<at, wordIndex, inputBuffer, solved, asked>>

(* Mutant: the guess is not terminated.                                    *)
Terminated_Stale == inputBuffer

(* WG_INPUT_BUFFER as wg_check_answer compares it.                         *)
Terminated == [inputBuffer EXCEPT ![inputIndex] = Nul]

(* wg_compare_loop: byte for byte up to the end of both.                   *)
Matches(buffer, word) ==
  /\ \A i \in DOMAIN word : buffer[i - 1] = word[i]
  /\ buffer[Len(word)] = Nul

(* Enter on a guess that is not empty.                                     *)
Answer ==
  /\ at = "guess"
  /\ inputIndex > 0
  /\ inputBuffer' = Terminated

WrongAnswer ==
  /\ Answer
  /\ ~Matches(Terminated, Secret)
  /\ tty' = ShowPuzzle(LcdNewLine(PrintText(LcdNewLine(tty), WrongMsg)), Secret)
  /\ inputIndex' = 0
  /\ UNCHANGED <<at, wordIndex, solved, asked>>

Won == LcdNewLine(PrintText(LcdNewLine(tty), WinMsg))

RightAnswer ==
  /\ Answer
  /\ Matches(Terminated, Secret)
  /\ wordIndex < NumWords
  /\ tty' = LcdNewLine(PrintText(Won, NextMsg))
  /\ at' = "continue"
  /\ solved' = solved + 1
  /\ UNCHANGED <<wordIndex, inputIndex, asked>>

(* Mutant: the count is compared with the index of the last word.          *)
LastAnswer_OneEarly ==
  /\ Answer
  /\ Matches(Terminated, Secret)
  /\ wordIndex >= NumWords - 1
  /\ tty' = ResetShell(PrintText(Won, CompleteMsg))
  /\ at' = "shell"
  /\ solved' = solved + 1
  /\ UNCHANGED <<wordIndex, inputIndex, asked>>

(* The last word: the game returns to the shell, which prints its prompt.  *)
LastAnswer ==
  /\ Answer
  /\ Matches(Terminated, Secret)
  /\ wordIndex >= NumWords
  /\ tty' = ResetShell(PrintText(Won, CompleteMsg))
  /\ at' = "shell"
  /\ solved' = solved + 1
  /\ UNCHANGED <<wordIndex, inputIndex, asked>>

(* Any key, the scroll keys included.                                      *)
Continue ==
  /\ at = "continue"
  /\ NextWord(LcdNewLine(tty), wordIndex)
  /\ UNCHANGED <<inputBuffer, solved>>

Next ==
  \/ StartGame \/ Scroll
  \/ \E c \in Letter : TypeLetter(c)
  \/ Backspace
  \/ WrongAnswer \/ RightAnswer \/ LastAnswer
  \/ Continue

Spec == Init /\ [][Next]_vars

-----------------------------------------------------------------------------
(* Properties                                                              *)

Guess == [i \in 1 .. inputIndex |-> inputBuffer[i - 1]]

(* Until the player scrolls, the display shows the driver's buffer and the *)
(* left of the cursor is the end of the prompt and the guess, whatever was *)
(* typed, wrapped, erased or answered wrong before.                        *)
GuessIsShown ==
  tty.scrollMode = 0 =>
    /\ ShowsBuffer(tty) /\ CursorInPlace(tty)
    /\ at = "guess" =>
         LET echoed == PromptMsg \o Guess
             n == Len(echoed)
         IN /\ tty.currentCol <= n
            /\ \A i \in 0 .. tty.currentCol - 1 :
                 tty.buffer[tty.currentLine][i] = echoed[n - tty.currentCol + i + 1]

(* Once the player has scrolled, nothing the game prints, new lines and a  *)
(* whole new puzzle included, moves what is being read: only the scroll    *)
(* keys change the display while scroll mode lasts.                        *)
StillWhileScrolled ==
  [][ tty.scrollMode = 1 /\ tty'.scrollMode = 1 /\ tty'.lcd # tty.lcd =>
        tty' \in {ScrollUp(tty), ScrollDown(tty)} ]_vars

(* A guess of several letters is dropped at once.                          *)
TakenAsWrong ==
  at = "guess" /\ at' = "guess" /\ inputIndex > 1 /\ inputIndex' = 0

(* An answer is taken as right exactly when the letters typed and not      *)
(* erased are the secret word: what earlier and longer guesses left in     *)
(* WG_INPUT_BUFFER is not compared.                                        *)
JudgedByTheGuess ==
  [][ /\ solved' = solved + 1 => Guess = Secret
      /\ TakenAsWrong => Guess # Secret ]_vars

(* A game ends only after WG_NUM_WORDS right answers, however many wrong   *)
(* ones, and by then every word has been asked whose place eight bits of   *)
(* index * 16 tell apart.  "All words completed!" is more than that: a     *)
(* list of more than Slots words is not asked to its end.                  *)
FinishedGameAskedReachableWords ==
  at = "shell" /\ wordIndex > 0 =>
    /\ solved = NumWords
    /\ \A i \in 0 .. NumWords - 1 : i < Slots => i \in asked

=============================================================================
