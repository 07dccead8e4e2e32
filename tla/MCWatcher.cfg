\* A session and a command write while the user copies, with a failed read.
CONSTANTS
  Text = {a, b}
  Picture = {p}
  NoClip = NoClip
  Session = {s1}
  Command = cmd
  TTL = 4
  MaxBusy = 1
  MaxCopies = 2
  MaxArrivals = 1
  MaxFailures = 1
SPECIFICATION FairSpec
INVARIANTS
  NoTextEcho
  IgnoresArePaidFor
PROPERTY CatchesUp
CHECK_DEADLOCK FALSE
