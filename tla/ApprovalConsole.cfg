SPECIFICATION ConsoleSpec
CONSTANTS
  Gate = {g1, g2}
  Worker = w
  BufferSize = 2
  SendSize = 1
  Logs = 1
  Conditional = {w}
INVARIANTS
  OneKeyOneGate
  NoSendOnClosed
  ScreenTellsTheTruth
PROPERTIES
  GatesEnd
CHECK_DEADLOCK FALSE
