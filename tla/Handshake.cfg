CONSTANTS
  a1 = a1
  b1 = b1
  a2 = a2
  b2 = b2
  Session = {a1, b1, a2, b2}
  Initiators = {a1, b2}
  Peer <- MCPeer
  Owner <- MCOwner
  Ephemeral = {k1, k2, k3, k4}
  Live = {b1, b2}
  None = None
SPECIFICATION FairSpec
INVARIANTS Agreement KeysAreFresh InitiatorNotAlone
PROPERTIES HandshakeEnds HalfOpenEnds
CHECK_DEADLOCK FALSE
