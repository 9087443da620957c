CONSTANTS
  Callbacks = {c1}
  NoCallback = NoCallback
  Modes = {"timed"}
  MaxBytes = 2
  PythonBinding = TRUE
SPECIFICATION Spec
PROPERTY StopReturns
CHECK_DEADLOCK FALSE
