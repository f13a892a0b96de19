SPECIFICATION FairSpec
CONSTANTS
  Clients = {c1, c2}
  Handles = {h1, h2}
  MaxClients = 2
  SlowClients = {c1}
  Pieces = {"say"}
  Texts <- Talk
  Commands = {}
  ReuseWhileHeld = FALSE
  MaxSent = 2
  MaxLogged = 1
  StartPorts = {"ready"}
  INVALID_SOCKET = INVALID_SOCKET
  NoClient = NoClient
PROPERTIES LeaverFreesSlot Served TextsReceived
CHECK_DEADLOCK FALSE
