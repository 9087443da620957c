SPECIFICATION Spec
CONSTANTS
  Base = 2
  Writers = {w1, w2}
  NoMessage = NoMessage
  TopicLength = 1
  Sizes = {1, 13}
  MaxWrites = 2
  MaxOthers = 1
  Signals = TRUE
INVARIANTS
  TypeOK
  QueuedAsWritten

  
\* Stops: the writes are bounded, and the receiver thread ends.
CHECK_DEADLOCK FALSE
