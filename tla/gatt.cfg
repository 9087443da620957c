\* Two writers and two readers of one key, three buffers; the central writes two
\* bytes, the others one.
\* A blocking read without timeout may wait for ever: the system may stop.
CONSTANTS
  central = central
  peripheral = peripheral
  second = second
  evt = evt
  cmd = cmd
  NoKey = NoKey
  Transports <- MCTransports
  Keys <- MCKeys
  InKey <- MCInKey
  OutKey <- MCOutKey
  Blocking <- MCBlocking
  Timed <- MCTimed
  MaxBuffers = 3
  MaxSent <- MCMaxSent
SPECIFICATION Spec
INVARIANTS TypeOK NoDanglingSlot NoLostWakeup
PROPERTIES OrphanedOnlyBySharer ImplementsByteChannel ReaderGetsData TimedReadReturns
CHECK_DEADLOCK FALSE
