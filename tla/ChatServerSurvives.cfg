SPECIFICATION Spec
CONSTANTS
  Clients = {c1, c2}
  Handles = {h1, h2}
  MaxClients = 1
  SlowClients = {}
  Pieces = {"say"}
  Texts <- Talk
  Commands = {}
  ReuseWhileHeld = FALSE
  MaxSent = 0
  MaxLogged = 0
  StartPorts = {"ready"}
  INVALID_SOCKET = INVALID_SOCKET
  NoClient = NoClient
SYMMETRY Symmetry
INVARIANT ServerSurvives
CHECK_DEADLOCK FALSE
