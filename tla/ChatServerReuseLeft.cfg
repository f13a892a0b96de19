SPECIFICATION Spec
CONSTANTS
  Clients = {c1, c2, c3}
  Handles = {h1, h2}
  MaxClients = 2
  SlowClients = {}
  Pieces = {"say"}
  Texts <- Talk
  Commands = {}
  ReuseWhileHeld = TRUE
  MaxSent = 0
  MaxLogged = 4
  StartPorts = {"ready"}
  INVALID_SOCKET = INVALID_SOCKET
  NoClient = NoClient
SYMMETRY Symmetry
INVARIANT LeftIsTrue
CHECK_DEADLOCK FALSE
