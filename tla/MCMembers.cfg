SPECIFICATION FriendsSpec
CONSTANTS
  Names <- MCNames
  NoName <- MCNoName
  Passwords = {p1, p2}
  Macs = {c1}
  FbIds = {f1}
  Unbound = Unbound
  MaxMids = 3
  MaxFaults = 2
  PageSize = 2
INVARIANTS
  StrayLoginsCostAFailure
  PasswordsAgree
  AmbiguityCostsAFailure
  FriendsMutual
  PagesCover
CHECK_DEADLOCK FALSE
