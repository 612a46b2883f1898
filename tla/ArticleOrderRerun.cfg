\* A call that fails half way and the identical call after it, the last of the
\* system.
CONSTANTS
  a = a
  b = b
  c = c
  None = None
  Articles = {a, b, c}
  AutoOrder <- MCAutoOrder
  MaxPosition = 2
  ConfirmThreshold = 2
  MaxFailures = 1
SPECIFICATION Spec
INVARIANTS RerunResumes
CHECK_DEADLOCK FALSE
