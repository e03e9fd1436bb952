CONSTANTS
  some = some
  ses1 = ses1
  ses2 = ses2
  Outputs <- HubOutputs
  Sessions = {ses1, ses2}
  Wants <- HubWants
  Queue = 1
  PipeCap = 2
  MaxFrame = 3
  MaxConn = 2
SPECIFICATION FairSpec
INVARIANTS
  NoSendOnClosed
  NoFrameVanishes
  WriterIsOpen
PROPERTIES
  ImplementsStream
  NothingBlocks
CHECK_DEADLOCK FALSE
