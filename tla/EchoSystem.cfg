SPECIFICATION FairSystemSpec
CONSTANTS
  Clients = {c1, c2}
  Handles = {h1, h2}
  Texts = {hello, EXIT, exit_now}
  ClientExits = {EXIT, exit_now}
  EXIT = EXIT
  MaxSaid = 3
  NoClient = NoClient
  INVALID_SOCKET = INVALID_SOCKET
INVARIANTS SystemTypeOK SocketIsMine NothingLost
PROPERTIES AnswerArrives ImplementsEchoService
CHECK_DEADLOCK FALSE
