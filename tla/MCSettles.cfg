\* A phone and a client with a broken key; a client of two addresses and one that
\* an ack may name, with one drop, one network change and one move of the PC; two
\* mounts of the update screen and two releases; a batch of two and a large file;
\* three toasts where two may be held and one is drawn.
CONSTANTS
  None = None
  p1 = p1
  p2 = p2
  n1 = n1
  c1 = c1
  c2 = c2
  h1 = h1
  h2 = h2
  h3 = h3
  s1 = s1
  s2 = s2
  w1 = w1
  w2 = w2
  k1 = k1
  k2 = k2
  t1 = t1
  f1 = f1
  f2 = f2
  tl = tl
  br = br
SPECIFICATION FairSpec
PROPERTIES
  HandshakeEnds
  ReachesPC
  BusyEnds
  ItemsSettled
  StackDrains
CHECK_DEADLOCK FALSE
