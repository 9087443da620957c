\* The instance of gatt_live.cfg: two objects opened on one key.
CONSTANTS
  central = central
  peripheral = peripheral
  second = second
  evt = evt
  cmd = cmd
  NoKey = NoKey
  Transports <- MCTransports
  Keys <- MCKeys
  InKey <- MCInKey
  OutKey <- MCOutKey
  Blocking <- MCBlocking
  Timed <- MCTimed
  MaxBuffers = 3
  MaxSent <- MCMaxSent
SPECIFICATION Spec
INVARIANT LiveIsReachable
CHECK_DEADLOCK FALSE
