SPECIFICATION Spec
CONSTANTS
  Peers <- MCPeers
  PortOf <- MCPortOf
  NoPeer = NoPeer
  Setups <- MCSetups
  MaxBytes = 3
  MaxPackets = 3
  MaxRead = 2
INVARIANTS
  TypeOK
  EachByteOnceInOrder
  ReadAllTakesAll
  ReplyReachesSpeaker
  PeersWithinLimit
PROPERTIES
  BoundedReadReturns
  WaitingReadReturns
\* Stops: a blocking read waits for ever, the transport is destroyed.
CHECK_DEADLOCK FALSE
