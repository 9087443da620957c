\* Two clients, two bytes each, one write of the server to each.  A blocking
\* read without timeout may wait for ever, the object may be gone and SIGPIPE
\* may have ended the process: the system really may stop.
CONSTANTS
  c1 = c1
  c2 = c2
  Clients <- MCClients
  Options <- MCOptions
  MaxBytes = 2
  MaxRead = 2
  MaxWrites = 1
  SigpipeIgnored = FALSE
SPECIFICATION Spec
INVARIANTS TypeOK EveryConnectionHeldOnce InnerReadFinds
PROPERTIES ImplementsByteChannel BoundedReadReturns ReaderGetsData
CHECK_DEADLOCK FALSE
