SPECIFICATION DispatchSpec
CONSTANT Commands <- CommandLines
INVARIANTS
  StopsAtTerminator
  CallNeedsWholeName
  SpinningNeverReturns
PROPERTY ReturnsUnlessSpins
CHECK_DEADLOCK FALSE
