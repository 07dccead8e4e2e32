\* Two threads record four clips of three texts around three commands and a restart.
CONSTANTS
  Text = {a, b, c}
  Recorder = {r1, r2}
  Requests = {0, 9}
  MinLimit = 1
  MaxLimit = 2
  DefaultLimit = 2
  MaxRecords = 4
  MaxCommands = 3
  MaxCrashes = 1
  MaxUnsaved = 1
SPECIFICATION Spec
SYMMETRY Interchangeable
INVARIANTS
  ListSound
  FileFollows
PROPERTY PinsKept
CHECK_DEADLOCK FALSE
