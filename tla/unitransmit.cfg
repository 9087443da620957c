\* A C++ program with every blocking/timeout_ms option.  A blocking read
\* without timeout may never return, and a callback that stops its own
\* receiver ends the process: the system really may stop.
CONSTANTS
  Callbacks = {c1, c2}
  NoCallback = NoCallback
  Modes = {"polling", "timed", "forever"}
  MaxBytes = 3
  PythonBinding = FALSE
SPECIFICATION Spec
INVARIANTS TypeOK ReceiverMatchesRequest TransportOutlivesReceiver
           AtMostOneStaleCall EachByteOnceInOrder NothingLeftInHand
PROPERTIES BoundedStopReturns BoundedAvailableIsDelivered
CHECK_DEADLOCK FALSE
