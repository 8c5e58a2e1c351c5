SPECIFICATION Spec
CONSTANTS
  Base = 4
  MapSend <- MCMapSend
  MapRecv <- MCMapRecv
  Room = 9
  Shorts = {0, 3}
  Ints = {0, 6, 15}
  Strings <- MCStrings
  MaxFields = 4
INVARIANTS
  ReadsWhatWasWritten
  CheckCodeTells
CHECK_DEADLOCK TRUE
