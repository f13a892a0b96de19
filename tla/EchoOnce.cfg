SPECIFICATION Spec
CONSTANTS
  Clients = {c1, c2}
  NoClient = NoClient
  BufLen = 2
  Window = 5
  MaxBytes = 5
INVARIANTS TypeOK EchoInOrder
PROPERTIES AllEchoed ServerEnds OthersTurnedAway
CHECK_DEADLOCK FALSE
