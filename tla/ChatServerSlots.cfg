SPECIFICATION Spec
CONSTANTS
  Clients = {c1, c2, c3}
  Handles = {h1, h2, h3}
  MaxClients = 2
  SlowClients = {}
  Pieces = {"say"}
  Texts <- Talk
  Commands = {}
  ReuseWhileHeld = TRUE
  MaxSent = 0
  MaxLogged = 0
  StartPorts = {"null"}
  INVALID_SOCKET = INVALID_SOCKET
  NoClient = NoClient
SYMMETRY Symmetry
INVARIANTS TypeOK OneOwner ThreadObjects GreetingIsMine SocketsAccounted
PROPERTIES ImplementsSlotPool ClosesOnlyEnded
CHECK_DEADLOCK FALSE
