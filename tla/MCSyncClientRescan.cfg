\* One network change; the PC stays where it is and nothing fails.
CONSTANTS
  h1 = h1
  h2 = h2
  h3 = h3
  Socket = {s1, s2}
  Host = {h1, h2, h3}
  NoHost = NoHost
  OfferHosts <- TwoHosts
  LastHost = NoHost
  AckHosts = {h1}
  Network = {w1, w2}
  NoNetwork = NoNetwork
  MaxResets = 1
  MaxDrops = 0
  MaxMoves = 0
SPECIFICATION FairSpec
PROPERTY RescansAfterChange
CHECK_DEADLOCK FALSE
