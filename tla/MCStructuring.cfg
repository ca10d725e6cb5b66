CONSTANTS
  Bound = 4
  None = None
SPECIFICATION Spec
PROPERTIES RunsAlike CodeKept
CHECK_DEADLOCK FALSE
