SPECIFICATION DispatchSpec
CONSTANT Commands <- CommandLines
PROPERTY SupportedCommandsStart
CHECK_DEADLOCK FALSE
