SPECIFICATION MessagesSpec
CONSTANTS
  Names <- MCNames
  NoName <- MCNoName
  Passwords = {p1}
  Macs = {}
  FbIds = {}
  Unbound = Unbound
  MaxMids = 2
  MaxFaults = 1
  PageSize = 2
  Readers <- MCReaders
  Flags <- MCFlags
  MaxMessages = 3
INVARIANTS
  ShownInOrder
  MissedAreCounted
CHECK_DEADLOCK FALSE
