CONSTANTS
  Lines <- MCLines
  BufSize <- MCBufSize
  TicksPerSec = 2
SPECIFICATION Spec
INVARIANTS
  FinishedAllSent
  ErrorHasCause
PROPERTIES
  TerminalSticky
  EventuallyExit
