SPECIFICATION Spec
CONSTANTS
  Clients = {c1, c2}
  Handles = {h1, h2}
  MaxClients = 2
  SlowClients = {}
  Pieces <- LidarPieces
  Texts <- LidarTexts
  Commands <- LidarCommands
  ReuseWhileHeld = FALSE
  MaxSent = 2
  MaxLogged = 4
  StartPorts = {"ready"}
  INVALID_SOCKET = INVALID_SOCKET
  NoClient = NoClient
SYMMETRY Symmetry
INVARIANTS NoSelfEcho NewsOnce LeftIsTrue WireOrder
PROPERTY ImplementsCommandQueues
CHECK_DEADLOCK FALSE
