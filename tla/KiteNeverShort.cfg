SPECIFICATION Spec
CONSTANTS
  Attempts = 3
  MaxExits = 1
  CallsFail = FALSE
INVARIANTS
  NeverShort
CHECK_DEADLOCK FALSE
