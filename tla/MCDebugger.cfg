SPECIFICATION Spec
CONSTANTS
  Program <- Recursion
  Start = 0
  MaxReturns = 3
  MaxBreakpoints = 2
  MaxCallStack = 2
  TraceCapacity = 2
  BreakAddresses = {2}
  StrayAddresses <- Strays
  MaxEvents = 1
INVARIANTS
  TypeOK
  CallStackNamesOpenCalls
  ScrollsFromEntryShown
PROPERTIES
  StopsAtBreakpoints
  UpStopsInCaller
  CtrlCStops
CHECK_DEADLOCK FALSE
