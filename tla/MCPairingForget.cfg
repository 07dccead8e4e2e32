\* No fault at all: a disconnect against a handshake in flight.
CONSTANTS
  Phone = {p1}
  Malformed = {}
  Nonce = {n1}
  Conn = {c1, c2}
  TTL = 1
  MaxClock = 1
  MaxFaults = 0
SPECIFICATION Spec
INVARIANT DisconnectForgets
CHECK_DEADLOCK FALSE
