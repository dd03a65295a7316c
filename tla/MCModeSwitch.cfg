SPECIFICATION Spec
CONSTANTS
  Modes = {"FFT", "EYE", "GAME"}
  Kind <- Kinds
  StartMode = "EYE"
  MaxWire = 3
  MaxInbox = 3
INVARIANTS
  ModesAgree
  CommandsArriveWhole
PROPERTIES
  FramesAreOfCurrentMode
  ChangeCompletesUnlessErased
