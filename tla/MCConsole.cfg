SPECIFICATION Spec
CONSTANTS
  Lines = 3
  Cols = 3
  Blank = " "
  PromptSign = ">"
  Char = {" ", ">", "c"}
  CmdMax = 2
  MaxPresses = 4
  UnknownMessage <- UkCmd
INVARIANT TypeOK
PROPERTIES
  ShellSpec
  EachPressOnce
  PolledKeyIsActedOn
  PromptComesBack
CHECK_DEADLOCK FALSE
