\* Three texts, two arrivals, two copies.
CONSTANTS
  Text = {a, b}
  Picture = {}
  NoClip = NoClip
  Session = {s1}
  Command = cmd
  TTL = 4
  MaxBusy = 1
  MaxCopies = 2
  MaxArrivals = 2
  MaxFailures = 0
SPECIFICATION FairSpec
PROPERTY RecopySyncs
CHECK_DEADLOCK FALSE
