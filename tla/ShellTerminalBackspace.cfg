SPECIFICATION Spec
CONSTANTS
  Lines = 4
  Cols = 3
  Blank = " "
  PromptSign = ">"
  Char = {" ", ">"}
  CmdMax = 4
PROPERTY BackspaceErasesOne
