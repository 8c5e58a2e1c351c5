SPECIFICATION BaseSpec
CONSTANTS
  Users <- MCUsers
  Widths <- MCWidths
  Height <- MCHeight
  Price = 1
  BuildTime = 5
  StartSize = 7
  StartWall = 3
  StartMoney = 3
  Offline = Offline
  Times <- MCTimes
  MaxFailures = 2
INVARIANTS
  MoneyIsTheAccount
  RowsAreCounted
PROPERTY PaidIsWritten
