CONSTANTS
  c1 = c1
  c2 = c2
  Clients <- MCClients
  Options <- MCDefault
  MaxBytes = 1
  MaxRead = 2
  MaxWrites = 1
  SigpipeIgnored = FALSE
SPECIFICATION Spec
INVARIANT TrackedWithinLimit
CHECK_DEADLOCK FALSE
