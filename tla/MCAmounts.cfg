CONSTANTS
  Base = 3
  Width = 3
SPECIFICATION Spec
INVARIANTS BytesAreNumbers Checked
CHECK_DEADLOCK FALSE
