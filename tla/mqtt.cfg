\* Two bytes in one or two messages, two packets on the wire, one write.  The
\* object may be gone, or a read without timeout may wait for ever: the
\* system really may stop.
CONSTANTS
  Options <- MCOptions
  MaxBytes = 2
  MaxWire = 2
  MaxWrites = 1
SPECIFICATION Spec
INVARIANTS TypeOK SessionIsWellFormed ReadyIsReceiving NoLostWakeup
PROPERTIES ImplementsByteChannel TimedConstructorReturns DestructorReturns
           TimedReadReturns ReaderGetsData
CHECK_DEADLOCK FALSE
