\* Copies, clips from the PC, drops and reads of the app, with a queue of two.
CONSTANTS
  Text = {a, b}
  NoText = NoText
  Cap = 2
  MaxCopies = 3
  MaxReceived = 1
  MaxDrops = 2
  MaxReads = 1
  MaxOther = 2
SPECIFICATION FairSpec
INVARIANT QueueHolds
PROPERTIES
  KeptUntilSent
  BacklogDrains
CHECK_DEADLOCK FALSE
