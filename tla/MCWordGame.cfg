SPECIFICATION Spec
CONSTANTS
  Lines = 3
  Cols = 3
  Blank = " "
  PromptSign = ">"
  Char = {" ", ">", "a", "b", "_"}
  WordList <- Words
  Slots = 2
  NumWords = 3
  MaxGuess = 3
  LongWord = 3
  FewBlanks = 0
  ManyBlanks = 1
  Letter = {"a", "b"}
  Nul = "0"
  Underscore = "_"
  CommandText <- Command
  IntroMsg <- Intro
  PuzzleMsg <- Question
  PromptMsg <- GuessPrompt
  WinMsg <- Verdict
  WrongMsg <- Verdict
  NextMsg <- Verdict
  CompleteMsg <- Verdict
INVARIANTS
  TypeOK
  GuessIsShown
  FinishedGameAskedReachableWords
PROPERTIES
  StillWhileScrolled
  JudgedByTheGuess
