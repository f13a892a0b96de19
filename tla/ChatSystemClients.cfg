SPECIFICATION SystemSpec
CONSTANTS
  Clients = {c1, c2}
  Handles = {h1, h2}
  MaxClients = 1
  SlowClients = {c1, c2}
  Pieces = {"say"}
  Texts <- Talk
  Commands = {}
  ReuseWhileHeld = TRUE
  MaxSent = 1
  MaxLogged = 3
  StartPorts = {"ready"}
  INVALID_SOCKET = INVALID_SOCKET
  NoClient = NoClient
SYMMETRY Symmetry
INVARIANTS ClientTypeOK ServedAgreed RefusalAgreed
PROPERTY ClientsAsAssumed
CHECK_DEADLOCK FALSE
