\* Two phones race two connections through the handshake; two codes, two faults.
CONSTANTS
  Phone = {p1, p2, p3}
  Malformed = {p3}
  Nonce = {n1, n2}
  Conn = {c1, c2}
  TTL = 1
  MaxClock = 1
  MaxFaults = 2
SPECIFICATION Spec
SYMMETRY Interchangeable
INVARIANTS
  DoorHolds
  PairingSurvives
  DisconnectForgetsUnlessRaced
PROPERTY OpensOnlyWhileValid
CHECK_DEADLOCK FALSE
