SPECIFICATION Spec
CONSTANTS
  Clients = {c1}
  Handles = {h1}
  MaxClients = 1
  SlowClients = {}
  Pieces <- LidarPieces
  Texts <- LidarTexts
  Commands <- LidarCommands
  ReuseWhileHeld = FALSE
  MaxSent = 3
  MaxLogged = 2
  StartPorts = {"ready"}
  INVALID_SOCKET = INVALID_SOCKET
  NoClient = NoClient
PROPERTY CommandsForwarded
CHECK_DEADLOCK FALSE
