\* Two network changes, two drops, a PC that moves and names a new address.
CONSTANTS
  h1 = h1
  h2 = h2
  h3 = h3
  Socket = {s1, s2, s3, s4}
  Host = {h1, h2, h3}
  NoHost = NoHost
  OfferHosts <- TwoHosts
  LastHost = h3
  AckHosts = {h2, h3}
  Network = {w1, w2}
  NoNetwork = NoNetwork
  MaxResets = 2
  MaxDrops = 1
  MaxMoves = 1
SPECIFICATION Spec
SYMMETRY Interchangeable
INVARIANTS
  TriesAreRight
  KeyHasSession
  HostListComplete
PROPERTY ClosedForGood
CHECK_DEADLOCK FALSE
