\* Two clips from the PC in a row, and no user.
CONSTANTS
  Text = {a, b}
  NoText = NoText
  Cap = 2
  MaxCopies = 0
  MaxReceived = 2
  MaxDrops = 0
  MaxReads = 0
  MaxOther = 2
SPECIFICATION Spec
INVARIANT NoBounce
CHECK_DEADLOCK FALSE
