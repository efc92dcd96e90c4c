SPECIFICATION UserSpec
CONSTANTS
  PageSize = 2
  PtSpan = 2
  Start = 6
  Arena <- MCArena
  Sigs = {2, 10}
  StackTop = 17
  MainWords = 1
  Locals = 1
  MaxSends = 3
INVARIANTS
  FramesOwnedOnce
  AreasSound
  Transparent
  FramesIntact
PROPERTIES
  KeepsPromise
  HandlersEnd
CHECK_DEADLOCK FALSE
