SPECIFICATION Spec
CONSTANTS
  Gids = {g1}
  None = None
  MaxInstr = 1
  MaxLevel = 2
  InstrTime = 2
  InstrCoin = 1
  UpTime = 1
  UpCoin = 1
  MoneyTime = 2
  CollectTime = 2
  EarCoin = 1
  BuyCoin = 1
  ConstructTime = 1
  CheckTime = 2
  StartCoin = 1
  StartMoney = 1
  Garbage <- MCGarbage
  Late = 3
  MaxCoin = 1
  MaxMoney = 1
  MaxFaults = 1
INVARIANTS
  MachinesInv
  CleanRowsSaved
PROPERTIES
  LevelsNeverFall
  UpgradesArePaid
  DirtyWritten
  UpgradeCompletes
