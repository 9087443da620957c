CONSTANTS
  Callbacks = {c1}
  NoCallback = NoCallback
  Modes = {"forever"}
  MaxBytes = 2
  PythonBinding = FALSE
SPECIFICATION Spec
PROPERTY StopReturns
CHECK_DEADLOCK FALSE
