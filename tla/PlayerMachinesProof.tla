-------------------------- MODULE PlayerMachinesProof --------------------------
(****************************************************************************)
(* Proofs about PlayerMachines, for every value of its constants.           *)
(****************************************************************************)
EXTENDS PlayerMachines, TLAPS

--------------------------------------------------------------------------------
(* The wallet.  WalletCoherent is inductive as it stands.                   *)

(* Every way of losing the memory makes the statement empty.                *)
LEMMA LostIsCoherent == ASSUME Lose PROVE WalletCoherent'
BY DEF Lose, WalletCoherent

(* A step that touches neither the account nor, if the player stays, his    *)
(* wallet.                                                                  *)
LEMMA UntouchedIsCoherent ==
  ASSUME WalletCoherent, online, UNCHANGED account, UNCHANGED wallet \/ Lose
  PROVE  WalletCoherent'
BY LostIsCoherent DEF WalletCoherent

(* A request pays the account first; then the wallet holds the same, or the *)
(* process has died.                                                        *)
LEMMA PaidIsCoherent ==
  ASSUME NEW w, Pay(w), wallet' = w \/ Lose
  PROVE  WalletCoherent'
BY LostIsCoherent DEF Pay, WalletCoherent

LEMMA InstructorKeepsWallet ==
  ASSUME WalletCoherent, UpInstructor \/ SpeedInstructor \/ ComforInstructor
  PROVE  WalletCoherent'
<1>1. CASE UpInstructor
  BY <1>1, PaidIsCoherent DEF UpInstructor
<1>2. CASE SpeedInstructor
  BY <1>2, PaidIsCoherent DEF SpeedInstructor
<1>3. CASE ComforInstructor
  BY <1>3, UntouchedIsCoherent DEF ComforInstructor
<1> QED BY <1>1, <1>2, <1>3

LEMMA MachineKeepsWallet ==
  ASSUME WalletCoherent, NEW g \in Gids,
         \/ Buy(g) \/ UpMachine(g) \/ SpeedMachine(g) \/ ComforMachine(g)
         \/ CollectSpeed(g) \/ CollectCoin(g)
  PROVE  WalletCoherent'
<1>1. CASE Buy(g)
  BY <1>1, PaidIsCoherent, UntouchedIsCoherent DEF Buy, memory
<1>2. CASE UpMachine(g)
  BY <1>2, PaidIsCoherent DEF UpMachine
<1>3. CASE SpeedMachine(g)
  BY <1>3, PaidIsCoherent DEF SpeedMachine
<1>4. CASE ComforMachine(g)
  BY <1>4, UntouchedIsCoherent DEF ComforMachine
<1>5. CASE CollectSpeed(g)
  BY <1>5, PaidIsCoherent, UntouchedIsCoherent DEF CollectSpeed
<1>6. CASE CollectCoin(g)
  BY <1>6, PaidIsCoherent, UntouchedIsCoherent DEF CollectCoin
<1> QED BY <1>1, <1>2, <1>3, <1>4, <1>5, <1>6

LEMMA NextKeepsWallet ==
  ASSUME WalletCoherent, [Next]_vars PROVE WalletCoherent'
<1>1. CASE Logon
  BY <1>1 DEF Logon, tables, WalletCoherent
<1>2. CASE Logout
  BY <1>2, LostIsCoherent DEF Logout
<1>3. CASE UpInstructor \/ SpeedInstructor \/ ComforInstructor
  BY <1>3, InstructorKeepsWallet
<1>4. CASE \E g \in Gids :
             \/ Buy(g) \/ UpMachine(g) \/ SpeedMachine(g) \/ ComforMachine(g)
             \/ CollectSpeed(g) \/ CollectCoin(g)
  BY <1>4, MachineKeepsWallet
<1>5. CASE Check
  BY <1>5, UntouchedIsCoherent DEF Check
<1>6. CASE WriteDB
  BY <1>6, UntouchedIsCoherent DEF WriteDB
<1>7. CASE Pass
  BY <1>7 DEF Pass, WalletCoherent
<1>8. CASE UNCHANGED vars
  BY <1>8 DEF vars, memory, tables, WalletCoherent
<1> QED
  BY <1>1, <1>2, <1>3, <1>4, <1>5, <1>6, <1>7, <1>8 DEF Next

(* Whatever calls fail and wherever the process dies, a player who is       *)
(* online is told he owns exactly what his account holds: the requests *)
(* six requests that charge or credit him, write the account first.         *)
THEOREM WalletIsTheAccount == Spec => []WalletCoherent
<1>1. Init => WalletCoherent
  BY DEF Init, WalletCoherent
<1>2. WalletCoherent /\ [Next]_vars => WalletCoherent'
  BY NextKeepsWallet
<1> QED BY <1>1, <1>2, PTL DEF Spec
--------------------------------------------------------------------------------
(* The machines.  A machine m and its row fit when they satisfy what        *)
(* MachinesInv says of them; a step keeps them when the new ones fit and no *)
(* level falls, and it is quiet when it begins no upgrade.                  *)
Fits(m, row) ==
  /\ m \in MechItems \cup {None}
  /\ row \in MechRows \cup {None}
  /\ Room(m, MaxLevel) /\ Room(row, MaxLevel)
  /\ m # None => /\ row # None
                 /\ row.level <= m.level
                 /\ m.status = Upgrading => row.status = Upgrading

Kept(m, row, m2, row2) ==
  /\ Fits(m2, row2)
  /\ row # None => row2 # None /\ row2.level >= row.level
  /\ m # None /\ m2 # None => m2.level >= m.level

Quiet(m, row, m2, row2) == ~Begins(m, m2) /\ ~Begins(row, row2)

LEMMA Statuses ==
  /\ Idle # Upgrading /\ Building # Upgrading /\ Building2 # Upgrading
  /\ Upgraded # Upgrading /\ Collecting # Upgrading /\ Collectable # Upgrading
  /\ Idle # Upgraded /\ Building # Upgraded /\ Building2 # Upgraded
  /\ Collecting # Upgraded /\ Collectable # Upgraded
  /\ {Idle, Building, Building2, Upgrading, Upgraded, Collecting, Collectable}
        \subseteq MechStatus
  /\ Top # Upgrading /\ Top # Upgraded
  /\ {Idle, Upgrading, Upgraded, Top} \subseteq InstrStatus
  /\ Paused \in RecordStatus /\ Running \in RecordStatus /\ Full \in RecordStatus
BY DEF Idle, Building, Building2, Upgrading, Upgraded, Collecting, Collectable,
       Top, Paused, Running, Full, MechStatus, InstrStatus, RecordStatus

LEMMA UpdatedRow ==
  ASSUME NEW row \in MechRows, NEW item \in MechItems
  PROVE  /\ Updated(row, item) \in MechRows
         /\ Updated(row, item).level = item.level
         /\ Updated(row, item).status = item.status
BY DEF Updated, MechRows, MechItems

LEMMA MaxLevelType == MaxLevel \in Int /\ MaxInstr \in Int
BY LevelsAssumption

LEMMA Untouched ==
  ASSUME NEW m, NEW row, Fits(m, row)
  PROVE  Kept(m, row, m, row) /\ Quiet(m, row, m, row)
BY MaxLevelType DEF Kept, Quiet, Begins, Fits, MechItems, MechRows, MechLevels

(* A machine that is lost leaves its row as it is.                          *)
LEMMA Forgotten ==
  ASSUME NEW m, NEW row, NEW m2, NEW row2, Kept(m, row, m2, row2)
  PROVE  /\ Kept(m, row, None, row2)
         /\ Quiet(m, row, m2, row2) => Quiet(m, row, None, row2)
BY DEF Kept, Quiet, Begins, Fits, Room

(* A change of the memory alone.                                            *)
LEMMA Unsaved ==
  ASSUME NEW m, NEW row, Fits(m, row), m # None,
         NEW c \in MechItems, Room(c, MaxLevel), c.level >= m.level,
         c.status # Upgrading
  PROVE  Kept(m, row, c, row) /\ Quiet(m, row, c, row)
<1>1. m.level \in Int /\ c.level \in Int /\ row.level \in Int /\ row # None
  BY MaxLevelType DEF Fits, MechItems, MechRows, MechLevels
<1> QED BY <1>1 DEF Kept, Quiet, Begins, Fits

(* A change of both, whichever is written first.                            *)
LEMMA Saved ==
  ASSUME NEW m, NEW row, Fits(m, row), m # None,
         NEW c \in MechItems, Room(c, MaxLevel), c.level >= m.level
  PROVE  /\ Kept(m, row, c, Updated(row, c))
         /\ c.status # Upgrading \/ m.status = Upgrading
              => Quiet(m, row, c, Updated(row, c))
<1>1. row \in MechRows /\ c # None /\ row # None
  BY NoneAssumption DEF Fits
<1>2. /\ Updated(row, c) \in MechRows
      /\ Updated(row, c).level = c.level
      /\ Updated(row, c).status = c.status
  BY <1>1, UpdatedRow
<1>3. m.level \in Int /\ c.level \in Int /\ row.level \in Int
  BY <1>1, MaxLevelType DEF Fits, MechItems, MechRows, MechLevels
<1>4. Updated(row, c) # None
  BY <1>2, NoneAssumption
<1>5. Fits(c, Updated(row, c))
  BY <1>1, <1>2, <1>3, <1>4 DEF Fits, Room
<1>6. row.level <= m.level /\ (m.status = Upgrading => row.status = Upgrading)
  BY DEF Fits
<1>7. Kept(m, row, c, Updated(row, c))
  BY <1>2, <1>3, <1>4, <1>5, <1>6 DEF Kept
<1>8. ASSUME c.status # Upgrading \/ m.status = Upgrading
      PROVE  Quiet(m, row, c, Updated(row, c))
  BY <1>2, <1>6, <1>8 DEF Quiet, Begins
<1> QED BY <1>7, <1>8

(* What a step does to all the machines.                                    *)
MechsTyped ==
  /\ mech \in [Gids -> MechItems \cup {None}]
  /\ mechRow \in [Gids -> MechRows \cup {None}]
AllKept  == /\ MechsTyped'
            /\ \A g \in Gids : Kept(mech[g], mechRow[g], mech'[g], mechRow'[g])
AllQuiet == \A g \in Gids : Quiet(mech[g], mechRow[g], mech'[g], mechRow'[g])
Charged  == account'.coin < account.coin

LEMMA MachineFits ==
  ASSUME MachinesInv
  PROVE  MechsTyped /\ \A g \in Gids : Fits(mech[g], mechRow[g])
BY DEF MachinesInv, TypeOK, RoomToRise, UpgradeInRow, RowsBehind, Fits, MechsTyped

LEMMA OtherSteps ==
  ASSUME MachinesInv, UNCHANGED mechRow, UNCHANGED mech \/ mech' = Absent
  PROVE  AllKept /\ AllQuiet
<1>1. \A g \in Gids : mech'[g] \in {mech[g], None}
  BY DEF Absent
<1>2. MechsTyped'
  BY MachineFits DEF MechsTyped, Absent
<1>3. ASSUME NEW g \in Gids
      PROVE  /\ Kept(mech[g], mechRow[g], mech'[g], mechRow'[g])
             /\ Quiet(mech[g], mechRow[g], mech'[g], mechRow'[g])
  <2>1. Fits(mech[g], mechRow[g])
    BY MachineFits
  <2>2. /\ Kept(mech[g], mechRow[g], mech[g], mechRow[g])
        /\ Quiet(mech[g], mechRow[g], mech[g], mechRow[g])
    BY <2>1, Untouched
  <2>3. /\ Kept(mech[g], mechRow[g], None, mechRow[g])
        /\ Quiet(mech[g], mechRow[g], None, mechRow[g])
    BY <2>2, Forgotten
  <2> QED BY <1>1, <2>2, <2>3
<1> QED BY <1>2, <1>3 DEF AllKept, AllQuiet

LEMMA OneMachine ==
  ASSUME MachinesInv, NEW g \in Gids,
         NEW c, NEW r, Kept(mech[g], mechRow[g], c, r),
         mechRow' = [mechRow EXCEPT ![g] = r],
         mech' = [mech EXCEPT ![g] = c] \/ mech' = Absent
  PROVE  AllKept /\ (Quiet(mech[g], mechRow[g], c, r) => AllQuiet)
<1>1. MechsTyped /\ c \in MechItems \cup {None} /\ r \in MechRows \cup {None}
  BY MachineFits DEF Kept, Fits
<1>2. MechsTyped'
  BY <1>1 DEF MechsTyped, Absent
<1>3. /\ mechRow'[g] = r
      /\ mech'[g] \in {c, None}
      /\ \A h \in Gids \ {g} : mechRow'[h] = mechRow[h] /\ mech'[h] \in {mech[h], None}
  BY <1>1 DEF MechsTyped, Absent
<1>4. ASSUME NEW h \in Gids \ {g}
      PROVE  /\ Kept(mech[h], mechRow[h], mech'[h], mechRow'[h])
             /\ Quiet(mech[h], mechRow[h], mech'[h], mechRow'[h])
  BY <1>3, MachineFits, Untouched, Forgotten
<1>5. /\ Kept(mech[g], mechRow[g], mech'[g], mechRow'[g])
      /\ Quiet(mech[g], mechRow[g], c, r)
           => Quiet(mech[g], mechRow[g], mech'[g], mechRow'[g])
  BY <1>3, Forgotten
<1> QED BY <1>2, <1>4, <1>5 DEF AllKept, AllQuiet

LEMMA TimesInRange ==
  /\ InstrTime \in Times /\ UpTime \in Times /\ ConstructTime \in Times /\ Ago \in Times
  /\ Times \subseteq Int
BY PricesAssumption, BoundsAssumption DEF Times, Ago

LEMMA ChangedItem ==
  ASSUME NEW item \in MechItems
  PROVE  /\ Changed(item) \in MechItems
         /\ Changed(item).level = item.level
         /\ Changed(item).status = item.status
         /\ \A row : Updated(row, Changed(item)) = Updated(row, item)
BY DEF Changed, MechItems, Updated

(* The machine a request names, with what every request knows of it.        *)
LEMMA Named ==
  ASSUME MachinesInv, NEW g \in Gids, mech[g] # None
  PROVE  /\ Fits(mech[g], mechRow[g])
         /\ mech[g] \in MechItems
         /\ mech[g].level \in MechLevels /\ mech[g].level \in Int
         /\ mechRow[g] \in MechRows
         /\ Room(mech[g], MaxLevel)
BY MachineFits, MaxLevelType DEF Fits, MechItems, MechLevels

(* A charge leaves less coin in the account.                                *)
LEMMA CoinCharged ==
  ASSUME MachinesInv, online, NEW n \in Nat \ {0}, Pay(Spend(n, 0))
  PROVE  Charged
BY DEF MachinesInv, TypeOK, Purses, WalletCoherent, Pay, Spend, Charged

LEMMA UpMachineKeeps ==
  ASSUME MachinesInv, NEW g \in Gids, UpMachine(g)
  PROVE  AllKept /\ Charged
<1> DEFINE item == [mech[g] EXCEPT !.endtime = UpTime, !.status = Upgrading]
<1>1. mech[g] # None /\ online /\ mech[g].level + 1 <= MaxLevel
  BY DEF UpMachine
<1>2. /\ item \in MechItems
      /\ item.level = mech[g].level
      /\ item.status = Upgrading
  BY <1>1, Named, TimesInRange, Statuses DEF MechItems
<1> HIDE DEF item
<1>3. Room(Changed(item), MaxLevel)
  BY <1>1, <1>2, Named, ChangedItem, Statuses, MaxLevelType DEF Room
<1>4. Kept(mech[g], mechRow[g], Changed(item), Updated(mechRow[g], item))
  <2>1. Changed(item) \in MechItems /\ Changed(item).level >= mech[g].level
    BY <1>1, <1>2, Named, ChangedItem
  <2>2. Kept(mech[g], mechRow[g], Changed(item), Updated(mechRow[g], Changed(item)))
    BY <1>1, <1>3, <2>1, Named, Saved
  <2> QED BY <1>2, <2>2, ChangedItem
<1>5. AllKept
  <2>1. CASE /\ mechRow' = [mechRow EXCEPT ![g] = Updated(@, item)]
             /\ mech' = [mech EXCEPT ![g] = Changed(item)] \/ Lose
    BY <1>4, <2>1, OneMachine DEF Lose
  <2>2. CASE UNCHANGED mechRow /\ (UNCHANGED mech \/ Lose)
    BY <2>2, OtherSteps DEF Lose
  <2> QED BY <2>1, <2>2 DEF UpMachine, item
<1>6. Charged
  BY <1>1, CoinCharged, PricesAssumption DEF UpMachine
<1> QED BY <1>5, <1>6

LEMMA SpeedMachineKeeps ==
  ASSUME MachinesInv, NEW g \in Gids, SpeedMachine(g)
  PROVE  AllKept /\ AllQuiet
<1> DEFINE item == [mech[g] EXCEPT !.endtime = Ago, !.status = Upgraded]
<1>1. mech[g] # None /\ mech[g].status = Upgrading
  BY DEF SpeedMachine
<1>2. item \in MechItems /\ item.level = mech[g].level /\ item.status = Upgraded
  BY <1>1, Named, TimesInRange, Statuses DEF MechItems
<1> HIDE DEF item
<1>3. Room(item, MaxLevel) /\ Room(Changed(item), MaxLevel)
  BY <1>1, <1>2, Named, ChangedItem, Statuses, MaxLevelType, NoneAssumption DEF Room
<1>4. mechRow[g].status = Upgrading
  BY <1>1, Named DEF Fits
<1>5. Changes(mechRow[g], item)
  BY <1>1, <1>2, <1>4, Named, UpdatedRow, Statuses DEF Changes
<1>6. /\ Kept(mech[g], mechRow[g], Changed(item), Updated(mechRow[g], item))
      /\ Quiet(mech[g], mechRow[g], Changed(item), Updated(mechRow[g], item))
  <2>1. Changed(item) \in MechItems /\ Changed(item).level >= mech[g].level
    BY <1>1, <1>2, Named, ChangedItem
  <2>2. /\ Kept(mech[g], mechRow[g], Changed(item), Updated(mechRow[g], Changed(item)))
        /\ Quiet(mech[g], mechRow[g], Changed(item), Updated(mechRow[g], Changed(item)))
    BY <1>1, <1>3, <2>1, Named, Saved
  <2> QED BY <1>2, <2>2, ChangedItem
<1>7. CASE /\ mechRow' = [mechRow EXCEPT ![g] = Updated(@, item)]
           /\ mech' = [mech EXCEPT ![g] = Changed(item)] \/ Lose
  BY <1>6, <1>7, OneMachine DEF Lose
<1>8. CASE UNCHANGED mechRow /\ (UNCHANGED mech \/ Lose)
  BY <1>8, OtherSteps DEF Lose
<1> QED BY <1>5, <1>7, <1>8 DEF SpeedMachine, item

LEMMA ComforMachineKeeps ==
  ASSUME MachinesInv, NEW g \in Gids, ComforMachine(g)
  PROVE  AllKept /\ AllQuiet
<1> DEFINE item == [mech[g] EXCEPT !.level = @ + 1, !.status = Idle]
<1>1. mech[g] # None /\ mech[g].status = Upgraded
  BY DEF ComforMachine
<1>2. mech[g].level + 1 \in MechLevels
  BY <1>1, Named, MaxLevelType DEF Room, MechLevels
<1>3. item \in MechItems /\ item.level = mech[g].level + 1 /\ item.status = Idle
  BY <1>1, <1>2, Named, Statuses DEF MechItems
<1> HIDE DEF item
<1>4. /\ Kept(mech[g], mechRow[g], Changed(item), Updated(mechRow[g], item))
      /\ Quiet(mech[g], mechRow[g], Changed(item), Updated(mechRow[g], item))
  <2>1. Changed(item) \in MechItems /\ Changed(item).level >= mech[g].level
    BY <1>1, <1>3, Named, ChangedItem
  <2>2. Changed(item).status = Idle /\ Room(Changed(item), MaxLevel)
    BY <1>3, ChangedItem, Statuses DEF Room
  <2>3. /\ Kept(mech[g], mechRow[g], Changed(item), Updated(mechRow[g], Changed(item)))
        /\ Quiet(mech[g], mechRow[g], Changed(item), Updated(mechRow[g], Changed(item)))
    BY <1>1, <2>1, <2>2, Named, Saved, Statuses
  <2> QED BY <1>3, <2>3, ChangedItem
<1>5. /\ mechRow' = [mechRow EXCEPT ![g] = Updated(@, item)]
      /\ mech' = [mech EXCEPT ![g] = Changed(item)] \/ Lose
  BY DEF ComforMachine, item
<1> QED BY <1>4, <1>5, OneMachine DEF Lose

LEMMA LoadedType ==
  ASSUME NEW row \in MechRows
  PROVE  /\ LoadedItem(row) \in MechItems
         /\ LoadedItem(row).level = row.level
         /\ LoadedItem(row).status = row.status
BY DEF LoadedItem, MechRows, MechItems

LEMMA BuyKeeps ==
  ASSUME MachinesInv, NEW g \in Gids, Buy(g)
  PROVE  AllKept /\ AllQuiet
<1> DEFINE row == [level |-> 1, status |-> Building, endtime |-> ConstructTime,
                   endtimer |-> Ago]
<1> DEFINE item == [LoadedItem(row) EXCEPT !.status = Building2]
<1>1. row \in MechRows /\ row.status = Building /\ row.level = 1
  BY TimesInRange, Statuses, MaxLevelType, LevelsAssumption DEF MechRows, MechLevels
<1> HIDE DEF row
<1>2. item \in MechItems /\ item.status = Building2 /\ item.level = 1
  BY <1>1, LoadedType, Statuses DEF MechItems
<1>3. mechRow[g] = None /\ mech[g] = None
  BY MachineFits DEF Buy, Fits
<1> HIDE DEF item
<1>4. Fits(item, row)
  BY <1>1, <1>2, NoneAssumption, Statuses DEF Fits, Room
<1>5. Kept(mech[g], mechRow[g], item, row) /\ Quiet(mech[g], mechRow[g], item, row)
  BY <1>3, <1>4 DEF Kept, Quiet, Begins
<1>6. Kept(mech[g], mechRow[g], None, row) /\ Quiet(mech[g], mechRow[g], None, row)
  BY <1>5, Forgotten
<1>7. mechRow' = [mechRow EXCEPT ![g] = row]
  BY DEF Buy, row
<1>8. \/ mech' = [mech EXCEPT ![g] = item]
      \/ mech' = [mech EXCEPT ![g] = None]
      \/ mech' = Absent
  BY <1>3, MachineFits DEF Buy, item, row, memory, Lose, MechsTyped
<1> QED BY <1>5, <1>6, <1>7, <1>8, OneMachine

LEMMA MachineRequestsKeep ==
  ASSUME MachinesInv, NEW g \in Gids,
         \/ Buy(g) \/ UpMachine(g) \/ SpeedMachine(g) \/ ComforMachine(g)
         \/ CollectSpeed(g) \/ CollectCoin(g)
  PROVE  AllKept /\ (AllQuiet \/ Charged)
<1>1. CASE CollectSpeed(g)
  BY <1>1, OtherSteps DEF CollectSpeed
<1>2. CASE CollectCoin(g)
  BY <1>2, OtherSteps DEF CollectCoin
<1> QED
  BY <1>1, <1>2, BuyKeeps, UpMachineKeeps, SpeedMachineKeeps, ComforMachineKeeps

(* The steps that take up all the machines at once.                         *)
LEMMA AllMachines ==
  ASSUME MachinesInv, MechsTyped',
         \A g \in Gids : Kept(mech[g], mechRow[g], mech'[g], mechRow'[g])
                          /\ Quiet(mech[g], mechRow[g], mech'[g], mechRow'[g])
  PROVE  AllKept /\ AllQuiet
BY DEF AllKept, AllQuiet

LEMMA Loaded ==
  ASSUME NEW row, Fits(None, row)
  PROVE  LET item == IF row = None THEN None ELSE LoadedItem(row)
         IN  Kept(None, row, item, row) /\ Quiet(None, row, item, row)
<1>1. CASE row = None
  BY <1>1 DEF Kept, Quiet, Begins
<1>2. CASE row # None
  <2> DEFINE item == LoadedItem(row)
  <2>1. row \in MechRows
    BY <1>2 DEF Fits
  <2>2. item \in MechItems /\ item.level = row.level /\ item.status = row.status
    BY <2>1, LoadedType
  <2>3. row.level \in Int
    BY <2>1, MaxLevelType DEF MechRows, MechLevels
  <2> HIDE DEF item
  <2>4. Fits(item, row)
    BY <1>2, <2>1, <2>2, <2>3 DEF Fits, Room
  <2>5. Kept(None, row, item, row) /\ Quiet(None, row, item, row)
    BY <1>2, <2>2, <2>3, <2>4 DEF Kept, Quiet, Begins
  <2> QED BY <1>2, <2>5 DEF item
<1> QED BY <1>1, <1>2

LEMMA LogonKeeps ==
  ASSUME MachinesInv, Logon PROVE AllKept /\ AllQuiet
<1>1. UNCHANGED mechRow /\ \A g \in Gids :
        mech[g] = None /\
        mech'[g] = IF mechRow[g] = None THEN None ELSE LoadedItem(mechRow[g])
  BY DEF MachinesInv, OfflineEmpty, Absent, Logon, tables
<1>2. \A g \in Gids : /\ Kept(mech[g], mechRow[g], mech'[g], mechRow[g])
                      /\ Quiet(mech[g], mechRow[g], mech'[g], mechRow[g])
  BY <1>1, MachineFits, Loaded
<1>3. \A g \in Gids : mech'[g] \in MechItems \cup {None}
  BY <1>2 DEF Kept, Fits
<1>4. MechsTyped'
  BY <1>1, <1>3, MachineFits DEF MechsTyped, Logon
<1> QED BY <1>1, <1>2, <1>4, AllMachines

LEMMA AdvancedMachine ==
  ASSUME MachinesInv, NEW g \in Gids, NEW bad, mech[g] # None
  PROVE  /\ Advanced(g, bad) \in MechItems
         /\ Advanced(g, bad).level >= mech[g].level
         /\ Room(Advanced(g, bad), MaxLevel)
         /\ \/ Advanced(g, bad) = mech[g] /\ RowAdvanced(g, bad) = mechRow[g]
            \/ /\ Advanced(g, bad).status # Upgrading
               /\ RowAdvanced(g, bad) \in {mechRow[g], Updated(mechRow[g], Advanced(g, bad))}
<1> DEFINE up == [mech[g] EXCEPT !.endtime = Ago, !.level = @ + 1, !.status = Upgraded]
           built == [mech[g] EXCEPT !.endtime = Ago, !.status = Collecting]
<1>1. CASE Completes(g)
  <2>1. mech[g].level + 1 \in MechLevels /\ mech[g].level + 1 <= MaxLevel
    BY <1>1, Named, MaxLevelType DEF Completes, Room, MechLevels
  <2>2. up \in MechItems /\ up.level = mech[g].level + 1 /\ up.status = Upgraded
    BY <2>1, Named, TimesInRange, Statuses DEF MechItems
  <2>3. Advanced(g, bad) = Changed(up)
    BY <1>1 DEF Advanced
  <2> HIDE DEF up
  <2> QED
    BY <1>1, <2>1, <2>2, <2>3, Named, ChangedItem, Statuses DEF Room, RowAdvanced
<1>2. CASE ~Completes(g) /\ Built(g, bad)
  <2>1. built \in MechItems /\ built.level = mech[g].level /\ built.status = Collecting
    BY Named, TimesInRange, Statuses DEF MechItems
  <2>2. Advanced(g, bad) = Changed(built)
    BY <1>2 DEF Advanced
  <2> HIDE DEF built
  <2> QED
    BY <1>2, <2>1, <2>2, Named, ChangedItem, Statuses DEF Room, RowAdvanced
<1>3. CASE ~Completes(g) /\ ~Built(g, bad)
  BY <1>3, Named DEF Advanced, RowAdvanced
<1> QED BY <1>1, <1>2, <1>3

LEMMA CollectedMachine ==
  ASSUME NEW m \in MechItems, NEW r
  PROVE  \/ CollectedBy(m, r) = m
         \/ /\ CollectedBy(m, r) \in MechItems
            /\ CollectedBy(m, r).level = m.level
            /\ CollectedBy(m, r).status \in {Collecting, Collectable}
<1> DEFINE c(status) == [m EXCEPT !.status = status]
<1>1. \A status \in {Collecting, Collectable} :
        c(status) \in MechItems /\ c(status).level = m.level /\ c(status).status = status
  BY Statuses DEF MechItems
<1> HIDE DEF c
<1>2. \A status \in {Collecting, Collectable} :
        /\ Changed(c(status)) \in MechItems
        /\ Changed(c(status)).level = m.level
        /\ Changed(c(status)).status = status
  BY <1>1, ChangedItem
<1>3. CASE Runs(r)
  BY <1>2, <1>3 DEF CollectedBy, c
<1>4. CASE ~Runs(r)
  BY <1>4 DEF CollectedBy
<1> QED BY <1>3, <1>4

LEMMA CheckedMachine ==
  ASSUME MachinesInv, NEW g \in Gids, NEW bad, NEW r, mech[g] # None
  PROVE  LET c == CollectedBy(Advanced(g, bad), r)
         IN  /\ Kept(mech[g], mechRow[g], c, RowAdvanced(g, bad))
             /\ Quiet(mech[g], mechRow[g], c, RowAdvanced(g, bad))
<1> DEFINE a == Advanced(g, bad)
           row == RowAdvanced(g, bad)
           c == CollectedBy(a, r)
<1>1. Fits(mech[g], mechRow[g]) /\ mech[g].level \in Int
  BY Named
<1>2. /\ a \in MechItems
      /\ a.level >= mech[g].level
      /\ Room(a, MaxLevel)
      /\ \/ a = mech[g] /\ row = mechRow[g]
         \/ a.status # Upgrading /\ row \in {mechRow[g], Updated(mechRow[g], a)}
  BY AdvancedMachine
<1>3. \/ c = a
      \/ c \in MechItems /\ c.level = a.level /\ c.status \in {Collecting, Collectable}
  BY <1>2, CollectedMachine
<1> HIDE DEF a, row, c
<1>4. a.level \in Int /\ a # None
  BY <1>2, MaxLevelType, NoneAssumption DEF MechItems, MechLevels
<1>5. Kept(mech[g], mechRow[g], a, row) /\ Quiet(mech[g], mechRow[g], a, row)
  BY <1>1, <1>2, Untouched, Unsaved, Saved
<1>6. CASE c = a
  BY <1>5, <1>6 DEF a, row, c
<1>7. CASE c \in MechItems /\ c.level = a.level /\ c.status \in {Collecting, Collectable}
  <2>1. Fits(a, row)
    BY <1>5 DEF Kept
  <2>2. Room(c, MaxLevel) /\ c.status # Upgrading /\ c.level >= a.level
    BY <1>4, <1>7, Statuses DEF Room
  <2>3. Kept(a, row, c, row) /\ Quiet(a, row, c, row)
    BY <1>4, <1>7, <2>1, <2>2, Unsaved
  <2>4. Kept(mech[g], mechRow[g], c, row)
    BY <1>1, <1>2, <1>4, <1>5, <1>7, <2>3 DEF Kept
  <2>5. Quiet(mech[g], mechRow[g], c, row)
    BY <1>5, <2>2 DEF Quiet, Begins
  <2> QED BY <2>4, <2>5 DEF a, row, c
<1> QED BY <1>3, <1>6, <1>7

LEMMA CheckKeeps ==
  ASSUME MachinesInv, Check PROVE AllKept /\ AllQuiet
<1>1. PICK bad \in SUBSET Calls, init \in Garbage, dirty \in BOOLEAN :
        /\ mechRow' = [g \in Gids |-> IF mech[g] = None THEN mechRow[g]
                                                        ELSE RowAdvanced(g, bad)]
        /\ \/ mech' = [g \in Gids |->
                IF mech[g] = None THEN None
                ELSE CollectedBy(Advanced(g, bad), RecordAdvanced(g, bad, dirty))]
           \/ mech' = Absent
  BY DEF Check, Lose
<1>2. ASSUME NEW g \in Gids
      PROVE  /\ Kept(mech[g], mechRow[g], mech'[g], mechRow'[g])
             /\ Quiet(mech[g], mechRow[g], mech'[g], mechRow'[g])
  <2>1. CASE mech[g] = None
    <3>1. mechRow'[g] = mechRow[g] /\ mech'[g] = None
      BY <1>1, <2>1 DEF Absent
    <3> QED BY <2>1, <3>1, MachineFits, Untouched
  <2>2. CASE mech[g] # None
    <3> DEFINE c == CollectedBy(Advanced(g, bad), RecordAdvanced(g, bad, dirty))
    <3>1. mechRow'[g] = RowAdvanced(g, bad) /\ mech'[g] \in {c, None}
      BY <1>1, <2>2 DEF Absent
    <3>2. /\ Kept(mech[g], mechRow[g], c, RowAdvanced(g, bad))
          /\ Quiet(mech[g], mechRow[g], c, RowAdvanced(g, bad))
      BY <2>2, CheckedMachine
    <3> HIDE DEF c
    <3> QED BY <3>1, <3>2, Forgotten
  <2> QED BY <2>1, <2>2
<1>3. \A g \in Gids : /\ mech'[g] \in MechItems \cup {None}
                      /\ mechRow'[g] \in MechRows \cup {None}
  BY <1>2 DEF Kept, Fits
<1>4. MechsTyped'
  BY <1>1, <1>3 DEF MechsTyped, Absent
<1> QED BY <1>2, <1>4, AllMachines

LEMMA WriteDBKeeps ==
  ASSUME MachinesInv, WriteDB PROVE AllKept /\ AllQuiet
<1> DEFINE clean(m) == [m EXCEPT !.dirty = FALSE]
<1>1. PICK saved \in SUBSET DirtyRows :
        /\ mechRow' = [g \in Gids |-> IF <<"machine", g>> \in saved
                                      THEN Updated(mechRow[g], mech[g]) ELSE mechRow[g]]
        /\ \/ mech' = [g \in Gids |-> IF <<"machine", g>> \in saved
                                      THEN clean(mech[g]) ELSE mech[g]]
           \/ mech' = Absent
  BY DEF WriteDB, Lose
<1>2. \A g \in Gids : <<"machine", g>> \in saved => mech[g] # None
  BY DEF DirtyRows
<1>3. \A m \in MechItems : /\ clean(m) \in MechItems
                           /\ clean(m).level = m.level /\ clean(m).status = m.status
                           /\ \A row : Updated(row, clean(m)) = Updated(row, m)
  BY DEF MechItems, Updated
<1> HIDE DEF clean
<1>4. ASSUME NEW g \in Gids
      PROVE  /\ Kept(mech[g], mechRow[g], mech'[g], mechRow'[g])
             /\ Quiet(mech[g], mechRow[g], mech'[g], mechRow'[g])
  <2>1. CASE <<"machine", g>> \notin saved
    <3>1. mechRow'[g] = mechRow[g] /\ mech'[g] \in {mech[g], None}
      BY <1>1, <2>1 DEF Absent
    <3> QED BY <3>1, MachineFits, Untouched, Forgotten
  <2>2. CASE <<"machine", g>> \in saved
    <3> DEFINE c == clean(mech[g])
    <3>1. /\ mechRow'[g] = Updated(mechRow[g], mech[g])
          /\ mech'[g] \in {c, None}
      BY <1>1, <2>2 DEF Absent
    <3>2. mech[g] # None /\ mech[g] \in MechItems /\ mech[g].level \in Int
      BY <1>2, <2>2, Named
    <3>3. /\ c \in MechItems /\ c.level = mech[g].level /\ c.status = mech[g].status
          /\ Updated(mechRow[g], c) = Updated(mechRow[g], mech[g])
      BY <1>3, <3>2
    <3> HIDE DEF c
    <3>4. c # None /\ Room(c, MaxLevel) /\ c.level >= mech[g].level
      BY <3>2, <3>3, Named, NoneAssumption DEF Room
    <3>5. /\ Kept(mech[g], mechRow[g], c, Updated(mechRow[g], c))
          /\ Quiet(mech[g], mechRow[g], c, Updated(mechRow[g], c))
      BY <3>2, <3>3, <3>4, Named, Saved
    <3> QED BY <3>1, <3>3, <3>5, Forgotten
  <2> QED BY <2>1, <2>2
<1>5. \A g \in Gids : /\ mech'[g] \in MechItems \cup {None}
                      /\ mechRow'[g] \in MechRows \cup {None}
  BY <1>4 DEF Kept, Fits
<1>6. MechsTyped'
  BY <1>1, <1>5 DEF MechsTyped, Absent
<1> QED BY <1>4, <1>6, AllMachines

(* Time changes end times only, and keeps them in their range.              *)
LEMMA LaterInRange ==
  ASSUME NEW t \in Times PROVE Later(t) \in Times
BY PricesAssumption, BoundsAssumption DEF Times, Later, Ago

LEMMA LaterMachine ==
  ASSUME NEW m, NEW row, Fits(m, row)
  PROVE  Kept(m, row, LaterItem(m), LaterRow(row)) /\ Quiet(m, row, LaterItem(m), LaterRow(row))
<1>1. m # None => /\ LaterItem(m) \in MechItems /\ LaterItem(m) # None
                  /\ LaterItem(m).level = m.level /\ LaterItem(m).status = m.status
                  /\ m.level \in Int
  BY LaterInRange, NoneAssumption, MaxLevelType DEF Fits, LaterItem, MechItems, MechLevels
<1>2. row # None => /\ LaterRow(row) \in MechRows /\ LaterRow(row) # None
                    /\ LaterRow(row).level = row.level /\ LaterRow(row).status = row.status
                    /\ row.level \in Int
  <2> SUFFICES ASSUME row # None PROVE LaterRow(row) \in MechRows /\ LaterRow(row).level = row.level
                 /\ LaterRow(row).status = row.status /\ row.level \in Int
    BY NoneAssumption
  <2>1. row \in MechRows
    BY DEF Fits
  <2>2. Later(row.endtime) \in Times /\ Later(row.endtimer) \in Times
    BY <2>1, LaterInRange DEF MechRows
  <2>3. \A s, t \in Times :
          LET later == [row EXCEPT !.endtime = s, !.endtimer = t]
          IN  later \in MechRows /\ later.level = row.level /\ later.status = row.status
    BY <2>1 DEF MechRows
  <2>4. row.level \in Int
    BY <2>1, MaxLevelType DEF MechRows, MechLevels
  <2> QED BY <2>2, <2>3, <2>4 DEF LaterRow
<1>3. (m = None => LaterItem(m) = None) /\ (row = None => LaterRow(row) = None)
  BY DEF LaterItem, LaterRow
<1>4. Fits(LaterItem(m), LaterRow(row))
  BY <1>1, <1>2, <1>3 DEF Fits, Room
<1>5. Kept(m, row, LaterItem(m), LaterRow(row))
  BY <1>1, <1>2, <1>3, <1>4 DEF Kept
<1>6. Quiet(m, row, LaterItem(m), LaterRow(row))
  BY <1>1, <1>2, <1>3 DEF Quiet, Begins
<1> QED BY <1>5, <1>6

LEMMA PassKeeps ==
  ASSUME MachinesInv, Pass PROVE AllKept /\ AllQuiet
<1>1. /\ mech' = [g \in Gids |-> LaterItem(mech[g])]
      /\ mechRow' = [g \in Gids |-> LaterRow(mechRow[g])]
  BY DEF Pass
<1>2. \A g \in Gids : /\ Kept(mech[g], mechRow[g], mech'[g], mechRow'[g])
                      /\ Quiet(mech[g], mechRow[g], mech'[g], mechRow'[g])
  BY <1>1, MachineFits, LaterMachine
<1>3. MechsTyped'
  BY <1>1, <1>2 DEF MechsTyped, Kept, Fits
<1> QED BY <1>2, <1>3, AllMachines

--------------------------------------------------------------------------------
(* The instructor, in the same way.  An upgrade in memory need not be in    *)
(* its row: the row is written last and is not written again.               *)
InstrFits ==
  /\ instr \in InstrItems \cup {None}
  /\ instrRow \in InstrRows
  /\ Room(instr, MaxInstr) /\ Room(instrRow, MaxInstr)
  /\ instr # None => instrRow.level <= instr.level
InstrKept ==
  /\ InstrFits'
  /\ instrRow'.level >= instrRow.level
  /\ instr # None /\ instr' # None => instr'.level >= instr.level
InstrQuiet == ~Begins(instr, instr') /\ ~Begins(instrRow, instrRow')

LEMMA InstructorFits ==
  ASSUME MachinesInv
  PROVE  /\ InstrFits
         /\ online <=> instr # None
         /\ instrRow # None /\ instrRow.level \in Int
         /\ instr # None => instr \in InstrItems /\ instr.level \in InstrLevels
                            /\ instr.level \in Int
<1>1. /\ instr \in InstrItems \cup {None} /\ instrRow \in InstrRows
      /\ online <=> instr # None
  BY DEF MachinesInv, TypeOK
<1>2. InstrFits
  BY <1>1 DEF MachinesInv, RoomToRise, RowsBehind, InstrFits
<1>3. instrRow # None
  BY <1>1, NoneAssumption
<1>4. instrRow.level \in InstrLevels /\ (instr # None => instr.level \in InstrLevels)
  BY <1>1 DEF InstrRows, InstrItems
<1>5. InstrLevels \subseteq Int
  BY MaxLevelType DEF InstrLevels
<1> QED BY <1>1, <1>2, <1>3, <1>4, <1>5

LEMMA InstrUntouched ==
  ASSUME MachinesInv, UNCHANGED instrRow, instr' \in {instr, None}
  PROVE  InstrKept /\ InstrQuiet
BY InstructorFits DEF InstrKept, InstrQuiet, InstrFits, Begins, Room

LEMMA InstrUpdated ==
  ASSUME NEW row \in InstrRows, NEW item \in InstrItems
  PROVE  /\ Updated(row, item) \in InstrRows
         /\ Updated(row, item).level = item.level
         /\ Updated(row, item).status = item.status
BY DEF Updated, InstrRows, InstrItems

LEMMA InstrSaved ==
  ASSUME MachinesInv, instr # None,
         NEW c \in InstrItems, Room(c, MaxInstr), c.level >= instr.level,
         instr' \in {c, None}, instrRow' \in {instrRow, Updated(instrRow, c)}
  PROVE  InstrKept /\ (c.status # Upgrading => InstrQuiet)
<1>1. /\ instrRow \in InstrRows /\ instrRow # None /\ instrRow.level \in Int
      /\ instr.level \in Int /\ instrRow.level <= instr.level
      /\ Room(instrRow, MaxInstr)
  BY InstructorFits DEF InstrFits
<1>2. c.level \in Int /\ c # None
  <2>1. c # None
    BY NoneAssumption
  <2>2. c.level \in InstrLevels
    BY DEF InstrItems
  <2> QED BY <2>1, <2>2, MaxLevelType DEF InstrLevels
<1>3. /\ instrRow' \in InstrRows
      /\ instrRow' = instrRow \/ (instrRow'.level = c.level /\ instrRow'.status = c.status)
  BY <1>1, InstrUpdated
<1>4. instrRow'.level >= instrRow.level /\ instrRow'.level <= c.level
  BY <1>1, <1>2, <1>3
<1>5. Room(instrRow', MaxInstr) /\ Room(instr', MaxInstr)
  BY <1>1, <1>2, <1>3 DEF Room
<1>6. InstrFits'
  BY <1>3, <1>4, <1>5 DEF InstrFits
<1>7. InstrKept
  BY <1>4, <1>6 DEF InstrKept
<1>8. c.status # Upgrading => InstrQuiet
  BY <1>3 DEF InstrQuiet, Begins
<1> QED BY <1>7, <1>8

LEMMA UpInstructorKeeps ==
  ASSUME MachinesInv, UpInstructor PROVE InstrKept /\ Charged
<1> DEFINE item == [instr EXCEPT !.endtime = InstrTime, !.status = Upgrading]
<1>1. online /\ instr # None /\ instr.level < MaxInstr
  BY InstructorFits DEF UpInstructor
<1>2. item \in InstrItems /\ item.level = instr.level /\ item.status = Upgrading
  BY <1>1, InstructorFits, TimesInRange, Statuses DEF InstrItems
<1>3. instr' \in {item, None} /\ instrRow' \in {instrRow, Updated(instrRow, item)}
  BY DEF UpInstructor, Lose
<1>4. Charged
  BY <1>1, CoinCharged, PricesAssumption DEF UpInstructor
<1> HIDE DEF item
<1>5. Room(item, MaxInstr) /\ item.level >= instr.level
  BY <1>1, <1>2, InstructorFits, Statuses, MaxLevelType DEF Room
<1> QED BY <1>1, <1>2, <1>3, <1>4, <1>5, InstrSaved

LEMMA SpeedInstructorKeeps ==
  ASSUME MachinesInv, SpeedInstructor PROVE InstrKept /\ InstrQuiet
<1> DEFINE item == [instr EXCEPT !.endtime = Ago, !.status = Upgraded]
<1>1. instr # None /\ instr.level + 1 <= MaxInstr
  BY InstructorFits DEF SpeedInstructor
<1>2. item \in InstrItems /\ item.level = instr.level /\ item.status = Upgraded
  BY <1>1, InstructorFits, TimesInRange, Statuses DEF InstrItems
<1>3. instr' \in {item, None} /\ instrRow' \in {instrRow, Updated(instrRow, item)}
  BY DEF SpeedInstructor, Lose
<1> HIDE DEF item
<1>4. Room(item, MaxInstr) /\ item.level >= instr.level
  BY <1>1, <1>2, InstructorFits, Statuses, MaxLevelType DEF Room
<1> QED BY <1>1, <1>2, <1>3, <1>4, InstrSaved, Statuses

LEMMA ComforInstructorKeeps ==
  ASSUME MachinesInv, ComforInstructor PROVE InstrKept /\ InstrQuiet
<1> DEFINE level == instr.level + 1
           item == [instr EXCEPT !.level = level,
                                 !.status = IF level = MaxInstr THEN Top ELSE Idle]
<1>1. instr # None /\ instr.status = Upgraded
  BY InstructorFits DEF ComforInstructor
<1>2. level \in InstrLevels
  BY <1>1, InstructorFits, MaxLevelType DEF InstrFits, Room, InstrLevels
<1>3. /\ item \in InstrItems /\ item.level = level
      /\ item.status # Upgrading /\ item.status # Upgraded
  <2> HIDE DEF level
  <2> QED BY <1>1, <1>2, InstructorFits, Statuses DEF InstrItems
<1>4. instr' \in {item, None} /\ instrRow' \in {instrRow, Updated(instrRow, item)}
  BY DEF ComforInstructor
<1>5. level >= instr.level
  BY <1>1, InstructorFits
<1> HIDE DEF item, level
<1>6. Room(item, MaxInstr) /\ item.level >= instr.level
  BY <1>3, <1>5 DEF Room
<1> QED BY <1>1, <1>3, <1>4, <1>6, InstrSaved

LEMMA CheckKeepsInstructor ==
  ASSUME MachinesInv, Check PROVE InstrKept /\ InstrQuiet
<1>1. /\ online /\ instr # None
      /\ instr' \in {InstrChecked, None}
      /\ \/ instrRow' = instrRow
         \/ InstrCompletes /\ instrRow' = Updated(instrRow, InstrChecked)
  BY InstructorFits DEF Check, Lose
<1>2. CASE ~InstrCompletes
  BY <1>1, <1>2, InstrUntouched DEF InstrChecked
<1>3. CASE InstrCompletes
  <2> DEFINE item == [instr EXCEPT !.endtime = Ago, !.level = @ + 1, !.status = Upgraded]
  <2>1. instr.level + 1 \in InstrLevels /\ instr.level + 1 <= MaxInstr
    BY <1>1, <1>3, InstructorFits, MaxLevelType DEF InstrCompletes, InstrFits, Room, InstrLevels
  <2>2. item \in InstrItems /\ item.level = instr.level + 1 /\ item.status = Upgraded
    BY <1>1, <2>1, InstructorFits, TimesInRange, Statuses DEF InstrItems
  <2>3. InstrChecked = item
    BY <1>3 DEF InstrChecked
  <2> HIDE DEF item
  <2>4. Room(item, MaxInstr) /\ item.level >= instr.level
    BY <1>1, <2>1, <2>2, InstructorFits, Statuses DEF Room
  <2> QED BY <1>1, <2>2, <2>3, <2>4, InstrSaved, Statuses
<1> QED BY <1>2, <1>3

LEMMA LogonKeepsInstructor ==
  ASSUME MachinesInv, Logon PROVE InstrKept /\ InstrQuiet
<1>1. instr = None /\ instrRow \in InstrRows /\ Room(instrRow, MaxInstr)
  BY InstructorFits DEF Logon, InstrFits
<1>2. instr' = LoadedItem(instrRow) /\ instrRow' = instrRow
  BY DEF Logon, tables
<1>3. /\ instr' \in InstrItems
      /\ instr'.level = instrRow.level /\ instr'.status = instrRow.status
  BY <1>1, <1>2 DEF LoadedItem, InstrRows, InstrItems
<1>4. Room(instr', MaxInstr)
  BY <1>1, <1>3, InstructorFits DEF Room
<1>5. InstrFits'
  BY <1>1, <1>2, <1>3, <1>4, InstructorFits DEF InstrFits
<1> QED BY <1>1, <1>2, <1>5, InstructorFits DEF InstrKept, InstrQuiet, Begins

LEMMA PassKeepsInstructor ==
  ASSUME MachinesInv, Pass
  PROVE  InstrKept /\ InstrQuiet /\ (instr' # None <=> instr # None)
<1>1. instr' = LaterItem(instr) /\ instrRow' = LaterRow(instrRow)
  BY DEF Pass
<1>2. instr # None => /\ instr' \in InstrItems
                      /\ instr'.level = instr.level /\ instr'.status = instr.status
  <2>1. \A t \in Times : instr # None =>
          LET later == [instr EXCEPT !.endtime = t]
          IN  /\ later \in InstrItems
              /\ later.level = instr.level /\ later.status = instr.status
    BY InstructorFits DEF InstrItems
  <2>2. instr # None => Later(instr.endtime) \in Times
    BY InstructorFits, LaterInRange DEF InstrItems
  <2> QED BY <1>1, <2>1, <2>2 DEF LaterItem
<1>3. /\ instrRow' \in InstrRows
      /\ instrRow'.level = instrRow.level /\ instrRow'.status = instrRow.status
  <2>0. instrRow \in InstrRows /\ instrRow # None
    BY InstructorFits DEF InstrFits
  <2>1. \A s, t \in Times :
          LET later == [instrRow EXCEPT !.endtime = s, !.endtimer = t]
          IN  /\ later \in InstrRows
              /\ later.level = instrRow.level /\ later.status = instrRow.status
    BY <2>0 DEF InstrRows
  <2>2. Later(instrRow.endtime) \in Times /\ Later(instrRow.endtimer) \in Times
    BY <2>0, LaterInRange DEF InstrRows
  <2> QED BY <1>1, <2>0, <2>1, <2>2 DEF LaterRow
<1>4. instr = None => instr' = None
  BY <1>1 DEF LaterItem
<1>5. InstrFits'
  BY <1>2, <1>3, <1>4, InstructorFits, NoneAssumption DEF InstrFits, Room
<1>6. instr' # None <=> instr # None
  BY <1>2, <1>4, NoneAssumption
<1> QED BY <1>2, <1>3, <1>4, <1>5, <1>6, InstructorFits DEF InstrKept, InstrQuiet, Begins

--------------------------------------------------------------------------------
(* The session: what is in memory of a player, and only of one who is       *)
(* online.                                                                  *)
SessionOK ==
  /\ online \in BOOLEAN
  /\ wallet \in Purses \cup {None}
  /\ checkIn \in 0 .. CheckTime
  /\ online <=> wallet # None
  /\ online <=> instr # None
  /\ OfflineEmpty

LEMMA SessionNow ==
  ASSUME MachinesInv
  PROVE  /\ SessionOK
         /\ online => wallet = account /\ account \in Purses
BY DEF MachinesInv, SessionOK, TypeOK, WalletCoherent

LEMMA LostSession == ASSUME Lose PROVE SessionOK'
<1>1. 0 \in 0 .. CheckTime
  BY PricesAssumption
<1> QED BY <1>1 DEF Lose, SessionOK, OfflineEmpty

LEMMA SameSession ==
  ASSUME SessionOK, online, UNCHANGED <<online, checkIn>>,
         wallet' \in Purses, instr' # None
  PROVE  SessionOK'
BY NoneAssumption DEF SessionOK, OfflineEmpty

(* Prices are integers, and what is affordable is a purse.                  *)
LEMMA CostType ==
  ASSUME NEW t \in Int PROVE Cost(t) \in Int
<1>1. MoneyTime \in Nat \ {0}
  BY PricesAssumption
<1>2. \A a \in Int : a \div MoneyTime \in Int
  BY <1>1
<1>3. CDiv(t, MoneyTime) \in Int
  BY <1>2 DEF CDiv
<1> QED BY <1>3 DEF Cost

LEMMA Purse ==
  ASSUME MachinesInv, online, NEW c \in Int, NEW m \in Int, Affordable(Spend(c, m))
  PROVE  Spend(c, m) \in Purses
BY SessionNow DEF Spend, Affordable, Purses

LEMMA Earned ==
  ASSUME MachinesInv, online, NEW c \in Nat
  PROVE  Spend(-c, 0) \in Purses
BY SessionNow DEF Spend, Purses

(* The session, the account and the faults after a request.                 *)
RequestOK == SessionOK' /\ account' \in Purses /\ faults' \in 0 .. MaxFaults

LEMMA FaultsCounted ==
  ASSUME MachinesInv, UNCHANGED faults \/ Trouble
  PROVE  faults' \in 0 .. MaxFaults
BY BoundsAssumption DEF MachinesInv, TypeOK, Trouble

LEMMA Requested ==
  ASSUME MachinesInv, online, NEW w \in Purses, UNCHANGED faults \/ Trouble,
         Pay(w) \/ UNCHANGED account,
         \/ Lose
         \/ UNCHANGED <<online, checkIn>> /\ wallet' \in {w, wallet} /\ instr' # None
  PROVE  RequestOK
<1>1. wallet \in Purses /\ account' \in Purses
  BY SessionNow DEF Pay
<1>2. SessionOK'
  BY <1>1, SessionNow, LostSession, SameSession
<1> QED BY <1>1, <1>2, FaultsCounted DEF RequestOK

LEMMA InstructorRequestsOK ==
  ASSUME MachinesInv, UpInstructor \/ SpeedInstructor \/ ComforInstructor
  PROVE  RequestOK
<1>1. instr' # None \/ Lose
  <2>1. online /\ instr \in InstrItems
    BY InstructorFits DEF UpInstructor, SpeedInstructor, ComforInstructor
  <2>2. CASE UpInstructor
    <3>1. [instr EXCEPT !.endtime = InstrTime, !.status = Upgrading] \in InstrItems
      BY <2>1, TimesInRange, Statuses DEF InstrItems
    <3> QED BY <2>2, <3>1, NoneAssumption DEF UpInstructor
  <2>3. CASE SpeedInstructor
    <3>1. [instr EXCEPT !.endtime = Ago, !.status = Upgraded] \in InstrItems
      BY <2>1, TimesInRange, Statuses DEF InstrItems
    <3> QED BY <2>3, <3>1, NoneAssumption DEF SpeedInstructor
  <2>4. CASE ComforInstructor
    <3>1. instr.level + 1 \in InstrLevels
      BY <2>1, <2>4, InstructorFits, MaxLevelType, NoneAssumption
      DEF ComforInstructor, InstrFits, Room, InstrLevels
    <3>2. [instr EXCEPT !.level = instr.level + 1,
             !.status = IF instr.level + 1 = MaxInstr THEN Top ELSE Idle] \in InstrItems
      BY <2>1, <3>1, Statuses DEF InstrItems
    <3> QED BY <2>4, <3>2, NoneAssumption DEF ComforInstructor
  <2> QED BY <2>2, <2>3, <2>4
<1>2. CASE UpInstructor
  <2>1. online /\ Spend(InstrCoin, 0) \in Purses
    BY <1>2, Purse, PricesAssumption DEF UpInstructor
  <2> QED BY <1>1, <1>2, <2>1, Requested DEF UpInstructor
<1>3. CASE SpeedInstructor
  <2>1. online /\ instr \in InstrItems
    BY <1>3, InstructorFits DEF SpeedInstructor
  <2>2. instr.endtime \in Times
    BY <2>1 DEF InstrItems
  <2>3. Spend(0, Cost(-instr.endtime)) \in Purses
    <3>1. instr.endtime \in Int
      BY <2>2, TimesInRange
    <3>2. \A t \in Int : Cost(-t) \in Int
      BY CostType
    <3>3. Cost(-instr.endtime) \in Int
      BY <3>1, <3>2
    <3>4. Affordable(Spend(0, Cost(-instr.endtime)))
      BY <1>3 DEF SpeedInstructor
    <3> QED BY <1>3, <2>1, <3>3, <3>4, Purse
  <2> QED BY <1>1, <1>3, <2>1, <2>3, Requested DEF SpeedInstructor
<1>4. CASE ComforInstructor
  BY <1>1, <1>4, SessionNow, Requested DEF ComforInstructor
<1> QED BY <1>2, <1>3, <1>4

LEMMA SetRecordFaults ==
  ASSUME NEW g \in Gids, NEW status, SetRecord(g, status)
  PROVE  UNCHANGED faults \/ Trouble
BY DEF SetRecord

LEMMA MachineRequestsOK ==
  ASSUME MachinesInv, NEW g \in Gids,
         \/ Buy(g) \/ UpMachine(g) \/ SpeedMachine(g) \/ ComforMachine(g)
         \/ CollectSpeed(g) \/ CollectCoin(g)
  PROVE  RequestOK
<1>1. online /\ instr # None /\ wallet \in Purses /\ wallet = account
  BY SessionNow, InstructorFits
  DEF Buy, UpMachine, SpeedMachine, ComforMachine, CollectSpeed, CollectCoin
<1>2. CASE Buy(g)
  <2>1. Spend(BuyCoin, 0) \in Purses
    BY <1>1, <1>2, Purse, PricesAssumption DEF Buy
  <2> QED BY <1>1, <1>2, <2>1, Requested DEF Buy, memory
<1>3. CASE UpMachine(g)
  <2>1. Spend(UpCoin, 0) \in Purses
    BY <1>1, <1>3, Purse, PricesAssumption DEF UpMachine
  <2> QED BY <1>1, <1>3, <2>1, Requested, SetRecordFaults DEF UpMachine
<1>4. CASE SpeedMachine(g)
  <2>1. mech[g].endtime \in Times
    BY <1>4, Named DEF SpeedMachine, MechItems
  <2>2. Spend(0, Cost(-mech[g].endtime)) \in Purses
    <3>1. mech[g].endtime \in Int
      BY <2>1, TimesInRange
    <3>2. \A t \in Int : Cost(-t) \in Int
      BY CostType
    <3>3. Cost(-mech[g].endtime) \in Int
      BY <3>1, <3>2
    <3>4. Affordable(Spend(0, Cost(-mech[g].endtime)))
      BY <1>4 DEF SpeedMachine
    <3> QED BY <1>1, <1>4, <3>3, <3>4, Purse
  <2> QED BY <1>1, <1>4, <2>2, Requested DEF SpeedMachine
<1>5. CASE ComforMachine(g)
  BY <1>1, <1>5, Requested, SetRecordFaults DEF ComforMachine
<1>6. CASE CollectSpeed(g)
  <2> DEFINE left == rec[g].need - rec[g].left
             w == Spend(0, Cost(IF left <= 0 THEN 0 ELSE left))
  <2>1. rec[g] \in Records
    BY <1>6 DEF CollectSpeed, MachinesInv, TypeOK
  <2>2. (IF left <= 0 THEN 0 ELSE left) \in Int
    BY <2>1 DEF Records
  <2>3. Affordable(w) => w \in Purses
    BY <1>1, <2>2, CostType, Purse
  <2>4. /\ UNCHANGED <<online, checkIn, instr>>
        /\ \/ Affordable(w) /\ Pay(w) /\ wallet' = w /\ UNCHANGED faults
           \/ UNCHANGED <<account, wallet>> /\ (UNCHANGED faults \/ Trouble)
    BY <1>6 DEF CollectSpeed
  <2> HIDE DEF w
  <2>5. CASE Affordable(w) /\ Pay(w) /\ wallet' = w /\ UNCHANGED faults
    BY <1>1, <2>3, <2>4, <2>5, Requested
  <2>6. CASE UNCHANGED <<account, wallet>> /\ (UNCHANGED faults \/ Trouble)
    BY <1>1, <2>4, <2>6, Requested
  <2> QED BY <2>4, <2>5, <2>6
<1>7. CASE CollectCoin(g)
  <2>1. Spend(-EarCoin, 0) \in Purses
    BY <1>1, Earned, PricesAssumption
  <2> QED BY <1>1, <1>7, <2>1, Requested DEF CollectCoin
<1> QED BY <1>2, <1>3, <1>4, <1>5, <1>6, <1>7

--------------------------------------------------------------------------------
(* The collection records.                                                  *)
RecordsTyped ==
  /\ rec \in [Gids -> Records \cup {None}]
  /\ recRow \in [Gids -> RecordRows \cup {None}]

LEMMA RecordsNow ==
  ASSUME MachinesInv PROVE RecordsTyped
BY DEF MachinesInv, TypeOK, RecordsTyped

LEMMA SavedRecord ==
  ASSUME NEW r \in Records
  PROVE  RecordRow(r) \in RecordRows
BY DEF RecordRow, Records, RecordRows

LEMMA LoadedRecord ==
  ASSUME NEW row \in RecordRows, NEW dirty \in BOOLEAN
  PROVE  Record(row, dirty) \in Records
BY DEF Record, Records, RecordRows

LEMMA RecordsUntouched ==
  ASSUME RecordsTyped, UNCHANGED recRow, UNCHANGED rec \/ Lose
  PROVE  RecordsTyped'
BY DEF RecordsTyped, Lose, Absent

LEMMA SetRecordType ==
  ASSUME RecordsTyped, NEW g \in Gids, NEW status \in RecordStatus, SetRecord(g, status)
  PROVE  RecordsTyped'
<1> DEFINE r == [rec[g] EXCEPT !.status = status, !.dirty = TRUE]
<1>1. CASE rec[g] = None
  BY <1>1 DEF SetRecord, RecordsTyped
<1>2. CASE rec[g] # None
  <2>1. rec[g] \in Records
    BY <1>2 DEF RecordsTyped
  <2>2. r \in Records
    BY <2>1 DEF Records
  <2>3. /\ rec' = [rec EXCEPT ![g] = r]
        /\ recRow' \in {recRow, [recRow EXCEPT ![g] = RecordRow(r)]}
    BY <1>2 DEF SetRecord
  <2> HIDE DEF r
  <2>4. RecordRow(r) \in RecordRows
    BY <2>2, SavedRecord
  <2> QED BY <2>2, <2>3, <2>4 DEF RecordsTyped
<1> QED BY <1>1, <1>2

LEMMA EditedRecord ==
  ASSUME NEW r \in Records, NEW status \in RecordStatus, NEW left \in Int
  PROVE  [r EXCEPT !.status = status, !.left = left, !.dirty = TRUE] \in Records
BY DEF Records

LEMMA RequestsKeepRecords ==
  ASSUME MachinesInv, NEW g \in Gids,
         \/ Buy(g) \/ UpMachine(g) \/ SpeedMachine(g) \/ ComforMachine(g)
         \/ CollectSpeed(g) \/ CollectCoin(g)
  PROVE  RecordsTyped'
<1>1. CASE Buy(g)
  BY <1>1, RecordsNow, RecordsUntouched DEF Buy, memory
<1>2. CASE UpMachine(g)
  BY <1>2, RecordsNow, RecordsUntouched, SetRecordType, Statuses DEF UpMachine
<1>3. CASE SpeedMachine(g)
  BY <1>3, RecordsNow, RecordsUntouched DEF SpeedMachine
<1>4. CASE ComforMachine(g)
  BY <1>4, RecordsNow, RecordsUntouched, SetRecordType, Statuses DEF ComforMachine
<1>5. CASE CollectSpeed(g)
  <2> DEFINE need == rec[g].need
             r == [rec[g] EXCEPT !.status = Full, !.left = need, !.dirty = TRUE]
  <2>1. rec[g] \in Records
    BY <1>5, RecordsNow DEF CollectSpeed, RecordsTyped
  <2>2. r \in Records
    <3>1. need \in Int
      BY <2>1 DEF Records
    <3> HIDE DEF need
    <3> QED BY <2>1, <3>1, Statuses, EditedRecord
  <2>3. rec' = [rec EXCEPT ![g] = r] /\ recRow' = recRow
    BY <1>5 DEF CollectSpeed
  <2> HIDE DEF r
  <2> QED BY <2>2, <2>3, RecordsNow DEF RecordsTyped
<1>6. CASE CollectCoin(g)
  <2> DEFINE r == [rec[g] EXCEPT !.status = Running, !.left = 0, !.dirty = TRUE]
  <2>1. rec[g] \in Records
    BY <1>6, RecordsNow DEF CollectCoin, RecordsTyped
  <2>2. r \in Records
    <3>1. 0 \in Int /\ Running \in RecordStatus
      BY Statuses
    <3> QED BY <2>1, <3>1, EditedRecord, Zenon
  <2>3. rec' = [rec EXCEPT ![g] = r] /\ recRow' = recRow
    BY <1>6 DEF CollectCoin
  <2> HIDE DEF r
  <2> QED BY <2>2, <2>3, RecordsNow DEF RecordsTyped
<1> QED BY <1>1, <1>2, <1>3, <1>4, <1>5, <1>6

LEMMA FreshRecord ==
  [left |-> 0, need |-> CollectTime, status |-> Running] \in RecordRows
BY PricesAssumption, Statuses DEF RecordRows

LEMMA CheckKeepsRecords ==
  ASSUME MachinesInv, Check PROVE RecordsTyped'
<1>1. PICK bad \in SUBSET Calls, init \in Garbage, dirty \in BOOLEAN :
        /\ recRow' = [g \in Gids |-> IF mech[g] = None THEN recRow[g]
                                     ELSE RecordRowAdvanced(g, bad, init)]
        /\ \/ rec' = [g \in Gids |-> IF mech[g] = None THEN None
                                     ELSE Collected(RecordAdvanced(g, bad, dirty))]
           \/ rec' = Absent
  BY ZenonT(60) DEF Check, Lose
<1>2. \A g \in Gids : RecordRowAdvanced(g, bad, init) \in RecordRows \cup {None}
  <2>1. init \in RecordRows
    BY GarbageAssumption
  <2> QED BY <2>1, FreshRecord, RecordsNow DEF RecordRowAdvanced, RecordsTyped
<1>3. \A g \in Gids : RecordAdvanced(g, bad, dirty) \in Records \cup {None}
  <2> TAKE g \in Gids
  <2>1. rec[g] \in Records \cup {None}
    BY RecordsNow DEF RecordsTyped
  <2>2. recRow[g] # None => Record(recRow[g], dirty) \in Records
    BY LoadedRecord, RecordsNow DEF RecordsTyped
  <2>3. Record([left |-> 0, need |-> CollectTime, status |-> Running], dirty) \in Records
    BY LoadedRecord, FreshRecord
  <2> QED BY <2>1, <2>2, <2>3 DEF RecordAdvanced
<1>4. \A r \in Records \cup {None} : Collected(r) \in Records \cup {None}
  <2>1. ASSUME NEW r \in Records, Runs(r) PROVE Collected(r) \in Records
    <3>1. r.left + CheckTime \in Int
      BY PricesAssumption DEF Records
    <3>2. (IF r.left + CheckTime >= r.need THEN Full ELSE Running) \in RecordStatus
      BY Statuses
    <3>3. Collected(r) = [r EXCEPT !.left = r.left + CheckTime, !.dirty = TRUE,
             !.status = IF r.left + CheckTime >= r.need THEN Full ELSE Running]
      BY <2>1 DEF Collected
    <3> QED BY <3>1, <3>2, <3>3 DEF Records
  <2> QED BY <2>1 DEF Collected, Runs
<1>5. \A g \in Gids : rec'[g] \in Records \cup {None} /\ recRow'[g] \in RecordRows \cup {None}
  BY <1>1, <1>2, <1>3, <1>4, RecordsNow DEF Absent, RecordsTyped
<1> QED BY <1>1, <1>5 DEF RecordsTyped, Absent

LEMMA WriteDBKeepsRecords ==
  ASSUME MachinesInv, WriteDB PROVE RecordsTyped'
<1> DEFINE clean(r) == [r EXCEPT !.dirty = FALSE]
<1>1. PICK saved \in SUBSET DirtyRows :
        /\ recRow' = [g \in Gids |-> IF <<"record", g>> \in saved
                                     THEN RecordRow(rec[g]) ELSE recRow[g]]
        /\ \/ rec' = [g \in Gids |-> IF <<"record", g>> \in saved
                                     THEN clean(rec[g]) ELSE rec[g]]
           \/ rec' = Absent
  BY DEF WriteDB, Lose
<1>2. \A g \in Gids : <<"record", g>> \in saved => rec[g] \in Records
  BY RecordsNow DEF DirtyRows, RecordsTyped
<1>3. \A r \in Records : clean(r) \in Records
  BY DEF Records
<1> HIDE DEF clean
<1>4. \A g \in Gids : rec'[g] \in Records \cup {None} /\ recRow'[g] \in RecordRows \cup {None}
  BY <1>1, <1>2, <1>3, SavedRecord, RecordsNow DEF Absent, RecordsTyped
<1> QED BY <1>1, <1>4 DEF RecordsTyped, Absent

--------------------------------------------------------------------------------
(* All the parts together: what every step of the specification does.       *)
StepOK == /\ AllKept /\ InstrKept /\ RequestOK /\ RecordsTyped'
          /\ (AllQuiet /\ InstrQuiet) \/ Charged

LEMMA LogonOK == ASSUME MachinesInv, Logon PROVE StepOK
<1>1. RecordsTyped'
  BY RecordsNow DEF Logon, RecordsTyped, Absent, tables
<1>2. SessionOK'
  <2>1. wallet' \in Purses /\ checkIn' \in 0 .. CheckTime /\ online'
    BY PricesAssumption DEF Logon, MachinesInv, TypeOK
  <2>2. instr' # None
    <3>1. LoadedItem(instrRow) \in InstrItems
      BY DEF MachinesInv, TypeOK, LoadedItem, InstrRows, InstrItems
    <3> QED BY <3>1, NoneAssumption DEF Logon
  <2> QED BY <2>1, <2>2, NoneAssumption DEF Logon, SessionOK, OfflineEmpty
<1>3. RequestOK
  BY <1>2 DEF RequestOK, MachinesInv, TypeOK, Logon, tables
<1> QED BY <1>1, <1>3, LogonKeeps, LogonKeepsInstructor DEF StepOK

LEMMA LogoutOK == ASSUME MachinesInv, Logout PROVE StepOK
<1>1. Lose /\ UNCHANGED <<account, instrRow, mechRow, recRow, faults>>
  BY DEF Logout, tables
<1>2. RequestOK
  BY <1>1, LostSession DEF RequestOK, MachinesInv, TypeOK
<1>3. AllKept /\ AllQuiet
  BY <1>1, OtherSteps DEF Lose
<1>4. InstrKept /\ InstrQuiet
  BY <1>1, InstrUntouched DEF Lose
<1>5. RecordsTyped'
  BY <1>1, RecordsNow, RecordsUntouched
<1> QED BY <1>2, <1>3, <1>4, <1>5 DEF StepOK

LEMMA InstructorRequestOK ==
  ASSUME MachinesInv, UpInstructor \/ SpeedInstructor \/ ComforInstructor
  PROVE  StepOK
<1>1. /\ UNCHANGED <<mechRow, recRow>>
      /\ UNCHANGED <<mech, rec>> \/ Lose
  BY DEF UpInstructor, SpeedInstructor, ComforInstructor
<1>2. AllKept /\ AllQuiet
  BY <1>1, OtherSteps DEF Lose
<1>3. RecordsTyped'
  BY <1>1, RecordsNow, RecordsUntouched
<1> QED
  BY <1>2, <1>3, InstructorRequestsOK, UpInstructorKeeps, SpeedInstructorKeeps,
     ComforInstructorKeeps DEF StepOK

LEMMA MachineRequestOK ==
  ASSUME MachinesInv, NEW g \in Gids,
         \/ Buy(g) \/ UpMachine(g) \/ SpeedMachine(g) \/ ComforMachine(g)
         \/ CollectSpeed(g) \/ CollectCoin(g)
  PROVE  StepOK
<1>1. UNCHANGED instrRow /\ instr' \in {instr, None}
  BY DEF Buy, UpMachine, SpeedMachine, ComforMachine, CollectSpeed, CollectCoin,
         memory, Lose
<1>2. InstrKept /\ InstrQuiet
  BY <1>1, InstrUntouched
<1> QED
  BY <1>2, MachineRequestsKeep, MachineRequestsOK, RequestsKeepRecords DEF StepOK

LEMMA CheckOK == ASSUME MachinesInv, Check PROVE StepOK
<1>1. online /\ UNCHANGED account /\ (UNCHANGED faults \/ Trouble)
  BY DEF Check
<1>2. SessionOK'
  <2>1. CASE Lose
    BY <2>1, LostSession
  <2>2. CASE UNCHANGED <<online, wallet>> /\ checkIn' = CheckTime /\ instr' = InstrChecked
    <3>1. wallet \in Purses /\ checkIn' \in 0 .. CheckTime
      BY <1>1, <2>2, SessionNow, PricesAssumption
    <3>2. instr' # None
      <4>1. InstrCompletes => instr.level + 1 \in InstrLevels
        BY <1>1, InstructorFits, MaxLevelType DEF InstrCompletes, InstrFits, Room, InstrLevels
      <4>2. \A l \in InstrLevels :
              [instr EXCEPT !.endtime = Ago, !.level = l, !.status = Upgraded] \in InstrItems
        BY <1>1, InstructorFits, TimesInRange, Statuses DEF InstrItems
      <4>3. CASE InstrCompletes
        <5>1. [instr EXCEPT !.endtime = Ago, !.level = instr.level + 1, !.status = Upgraded]
                \in InstrItems
          BY <4>1, <4>2, <4>3, Zenon
        <5> QED BY <2>2, <4>3, <5>1, NoneAssumption DEF InstrChecked
      <4>4. CASE ~InstrCompletes
        BY <1>1, <2>2, <4>4, InstructorFits DEF InstrChecked
      <4> QED BY <4>3, <4>4
    <3> QED BY <1>1, <2>2, <3>1, <3>2, NoneAssumption DEF SessionOK, OfflineEmpty
  <2> QED BY <2>1, <2>2 DEF Check
<1>3. RequestOK
  BY <1>1, <1>2, FaultsCounted DEF RequestOK, MachinesInv, TypeOK
<1> QED BY <1>3, CheckKeeps, CheckKeepsInstructor, CheckKeepsRecords DEF StepOK

LEMMA WriteDBOK == ASSUME MachinesInv, WriteDB PROVE StepOK
<1>1. /\ online /\ UNCHANGED <<account, instrRow>> /\ (UNCHANGED faults \/ Trouble)
      /\ Lose \/ UNCHANGED <<online, wallet, instr, checkIn>>
  BY DEF WriteDB
<1>2. instr # None /\ wallet \in Purses /\ SessionOK
  BY <1>1, SessionNow, InstructorFits
<1>3. SessionOK'
  BY <1>1, <1>2, LostSession, SameSession
<1>4. RequestOK
  BY <1>1, <1>3, FaultsCounted DEF RequestOK, MachinesInv, TypeOK
<1>5. InstrKept /\ InstrQuiet
  BY <1>1, InstrUntouched DEF Lose
<1> QED BY <1>4, <1>5, WriteDBKeeps, WriteDBKeepsRecords DEF StepOK

LEMMA PassOK == ASSUME MachinesInv, Pass PROVE StepOK
<1>1. UNCHANGED <<online, wallet, account, rec, recRow, faults>>
  BY DEF Pass
<1>2. checkIn' \in 0 .. CheckTime
  BY PricesAssumption DEF Pass, MachinesInv, TypeOK
<1>3. instr' # None <=> instr # None
  BY PassKeepsInstructor
<1>4. ~online => mech' = Absent
  BY DEF Pass, MachinesInv, OfflineEmpty, Absent, LaterItem
<1>5. SessionOK'
  BY <1>1, <1>2, <1>3, <1>4, SessionNow DEF SessionOK, OfflineEmpty, Absent
<1>6. RequestOK
  BY <1>1, <1>5 DEF RequestOK, MachinesInv, TypeOK
<1>7. RecordsTyped'
  BY <1>1, RecordsNow DEF RecordsTyped
<1> QED BY <1>6, <1>7, PassKeeps, PassKeepsInstructor DEF StepOK

LEMMA NextOK == ASSUME MachinesInv, Next PROVE StepOK
BY LogonOK, LogoutOK, InstructorRequestOK, MachineRequestOK, CheckOK, WriteDBOK, PassOK
DEF Next

LEMMA StepKeepsInv ==
  ASSUME MachinesInv, StepOK, WalletCoherent' PROVE MachinesInv'
<1>1. \A g \in Gids : Fits(mech'[g], mechRow'[g])
  BY DEF StepOK, AllKept, Kept
<1>2. InstrFits' /\ SessionOK' /\ MechsTyped' /\ RecordsTyped'
      /\ account' \in Purses /\ faults' \in 0 .. MaxFaults
  BY DEF StepOK, InstrKept, RequestOK, AllKept
<1>3. TypeOK'
  BY <1>2 DEF TypeOK, InstrFits, SessionOK, MechsTyped, RecordsTyped
<1>4. RoomToRise'
  BY <1>1, <1>2 DEF RoomToRise, InstrFits, Fits
<1>5. UpgradeInRow'
  BY <1>1 DEF UpgradeInRow, Fits
<1>6. RowsBehind'
  BY <1>1, <1>2 DEF RowsBehind, Fits, InstrFits, SessionOK
<1>7. OfflineEmpty'
  BY <1>2 DEF SessionOK
<1> QED BY <1>3, <1>4, <1>5, <1>6, <1>7 DEF MachinesInv

LEMMA NextKeepsInv ==
  ASSUME MachinesInv, [Next]_vars PROVE MachinesInv'
<1>1. CASE Next
  <2>1. WalletCoherent'
    BY NextKeepsWallet DEF MachinesInv
  <2> QED BY <1>1, <2>1, NextOK, StepKeepsInv
<1>2. CASE UNCHANGED vars
  BY <1>2 DEF vars, memory, tables, MachinesInv, TypeOK, WalletCoherent, RoomToRise,
     UpgradeInRow, RowsBehind, OfflineEmpty
<1> QED BY <1>1, <1>2

LEMMA InitInv == Init => MachinesInv
<1> SUFFICES ASSUME Init PROVE MachinesInv
  OBVIOUS
<1>1. account \in Purses /\ checkIn \in 0 .. CheckTime /\ faults \in 0 .. MaxFaults
  BY PricesAssumption, BoundsAssumption DEF Init, Purses
<1>2. instrRow \in InstrRows /\ instrRow.status = Idle
  BY LevelsAssumption, TimesInRange, Statuses DEF Init, InstrRows, InstrLevels
<1>3. TypeOK
  BY <1>1, <1>2 DEF Init, TypeOK, Absent
<1>4. RoomToRise
  BY <1>2, Statuses DEF Init, RoomToRise, Room, Absent
<1> QED
  BY <1>3, <1>4 DEF Init, MachinesInv, WalletCoherent, UpgradeInRow, RowsBehind,
     OfflineEmpty, Absent

(* An upgrade always has room to rise, stands in its row, no row is ahead   *)
(* of the memory, and the memory is empty when the player is not there.     *)
THEOREM MachinesInvariant == Spec => []MachinesInv
<1>1. MachinesInv /\ [Next]_vars => MachinesInv'
  BY NextKeepsInv
<1> QED BY InitInv, <1>1, PTL DEF Spec

(* Every variable keeps its type; in particular the levels that the timer   *)
(* and the confirmation add never pass the last one by more than one.       *)
THEOREM TypesHold == Spec => []TypeOK
<1>1. MachinesInv => TypeOK
  BY DEF MachinesInv
<1> QED BY MachinesInvariant, <1>1, PTL

(* No level ever falls, in memory or in a table, whatever calls fail and    *)
(* wherever the process dies.                                               *)
THEOREM LevelsRise == Spec => LevelsNeverFall
<1> DEFINE Rising ==
      /\ instrRow'.level >= instrRow.level
      /\ online /\ online' => instr'.level >= instr.level
      /\ \A g \in Gids :
           /\ mechRow[g] # None => mechRow'[g].level >= mechRow[g].level
           /\ mech[g] # None /\ mech'[g] # None => mech'[g].level >= mech[g].level
<1>1. ASSUME MachinesInv, Next PROVE Rising
  <2>1. AllKept /\ InstrKept /\ SessionOK'
    BY <1>1, NextOK DEF StepOK, RequestOK
  <2>2. online /\ online' => instr # None /\ instr' # None
    BY <1>1, <2>1, InstructorFits DEF SessionOK
  <2> QED BY <2>1, <2>2 DEF AllKept, Kept, InstrKept
<1>2. MachinesInv /\ [Next]_vars => [Rising]_vars
  BY <1>1
<1> QED BY MachinesInvariant, <1>2, PTL DEF Spec, LevelsNeverFall

(* No upgrade begins, in memory or in a table, but in a step that takes     *)
(* coin from the account.                                                   *)
THEOREM UpgradesPaid == Spec => UpgradesArePaid
<1> DEFINE Paid ==
      (\/ Begins(instr, instr') \/ Begins(instrRow, instrRow')
       \/ \E g \in Gids : Begins(mech[g], mech'[g]) \/ Begins(mechRow[g], mechRow'[g]))
      => account'.coin < account.coin
<1>1. ASSUME MachinesInv, Next PROVE Paid
  BY <1>1, NextOK DEF StepOK, AllQuiet, Quiet, InstrQuiet, Charged
<1>2. MachinesInv /\ [Next]_vars => [Paid]_vars
  BY <1>1
<1> QED BY MachinesInvariant, <1>2, PTL DEF Spec, UpgradesArePaid

--------------------------------------------------------------------------------
(* What is not marked as unsaved is what its row says (CleanRowsSaved).     *)

(* CleanRowsSaved of one machine and of one record.                         *)
CleanItem(m, row) ==
  m # None /\ ~m.dirty =>
    /\ row # None
    /\ m.level = row.level
    /\ \/ m.status = row.status
       \/ m.status = Building2 /\ row.status = Building
CleanRecord(r, row) == r # None /\ ~r.dirty => row = RecordRow(r)

ItemsClean   == \A g \in Gids : CleanItem(mech[g], mechRow[g])
RecordsClean == \A g \in Gids : CleanRecord(rec[g], recRow[g])

LEMMA CleanParts == CleanRowsSaved <=> ItemsClean /\ RecordsClean
BY DEF CleanRowsSaved, ItemsClean, RecordsClean, CleanItem, CleanRecord

LEMMA CleanPartsNext ==
  ASSUME ItemsClean', RecordsClean' PROVE CleanRowsSaved'
BY DEF CleanRowsSaved, ItemsClean, RecordsClean, CleanItem, CleanRecord

(* What is gone is clean, what is marked is clean, what stays stays clean.  *)
LEMMA LostIsClean == ASSUME Lose PROVE ItemsClean' /\ RecordsClean'
BY DEF Lose, Absent, ItemsClean, RecordsClean, CleanItem, CleanRecord

LEMMA MarkedIsClean ==
  /\ \A item \in MechItems : \A row : CleanItem(Changed(item), row)
  /\ \A r, row : r.dirty => CleanRecord(r, row)
<1>1. \A item \in MechItems : Changed(item).dirty
  BY DEF Changed, MechItems
<1> QED BY <1>1 DEF CleanItem, CleanRecord

LEMMA ItemsStay ==
  ASSUME ItemsClean, UNCHANGED <<mech, mechRow>> PROVE ItemsClean'
BY DEF ItemsClean

LEMMA RecordsStay ==
  ASSUME RecordsClean, UNCHANGED <<rec, recRow>> PROVE RecordsClean'
BY DEF RecordsClean

(* One machine is written to its row and marked.                            *)
LEMMA OneItemClean ==
  ASSUME MachinesInv, ItemsClean, NEW g \in Gids, NEW c, NEW row,
         mech' = [mech EXCEPT ![g] = c], mechRow' = [mechRow EXCEPT ![g] = row],
         CleanItem(c, row)
  PROVE  ItemsClean'
<1>1. MechsTyped
  BY MachineFits
<1>2. mech'[g] = c /\ mechRow'[g] = row
  BY <1>1 DEF MechsTyped
<1>3. \A h \in Gids \ {g} : mech'[h] = mech[h] /\ mechRow'[h] = mechRow[h]
  BY <1>1 DEF MechsTyped
<1> QED BY <1>2, <1>3 DEF ItemsClean

(* One record is marked, and written or not.                                *)
LEMMA OneRecordClean ==
  ASSUME MachinesInv, RecordsClean, NEW g \in Gids, NEW r,
         rec' = [rec EXCEPT ![g] = r], r.dirty,
         \A h \in Gids \ {g} : recRow'[h] = recRow[h]
  PROVE  RecordsClean'
<1>1. RecordsTyped
  BY RecordsNow
<1>2. rec'[g] = r /\ \A h \in Gids \ {g} : rec'[h] = rec[h]
  BY <1>1 DEF RecordsTyped
<1> QED BY <1>2 DEF RecordsClean, CleanRecord

LEMMA SetRecordClean ==
  ASSUME MachinesInv, RecordsClean, NEW g \in Gids, NEW status \in RecordStatus,
         SetRecord(g, status)
  PROVE  RecordsClean'
<1>1. CASE rec[g] = None
  BY <1>1, RecordsStay DEF SetRecord
<1>2. CASE rec[g] # None
  <2> DEFINE r == [rec[g] EXCEPT !.status = status, !.dirty = TRUE]
  <2>1. rec[g] \in Records
    BY <1>2, RecordsNow DEF RecordsTyped
  <2>2. r.dirty
    BY <2>1 DEF Records
  <2>3. /\ rec' = [rec EXCEPT ![g] = r]
        /\ recRow' \in {recRow, [recRow EXCEPT ![g] = RecordRow(r)]}
    BY <1>2 DEF SetRecord
  <2> HIDE DEF r
  <2>4. \A h \in Gids \ {g} : recRow'[h] = recRow[h]
    BY <2>3, RecordsNow DEF RecordsTyped
  <2> QED BY <2>2, <2>3, <2>4, OneRecordClean
<1> QED BY <1>1, <1>2

LEMMA UpMachineClean ==
  ASSUME MachinesInv, ItemsClean, RecordsClean, NEW g \in Gids, UpMachine(g)
  PROVE  ItemsClean' /\ RecordsClean'
<1> DEFINE item == [mech[g] EXCEPT !.endtime = UpTime, !.status = Upgrading]
<1>1. item \in MechItems
  BY Named, TimesInRange, Statuses DEF MechItems, UpMachine
<1>2. \/ /\ mechRow' = [mechRow EXCEPT ![g] = Updated(@, item)]
         /\ mech' = [mech EXCEPT ![g] = Changed(item)]
         /\ SetRecord(g, Paused)
      \/ UNCHANGED <<mech, mechRow, rec, recRow>>
      \/ Lose
  BY DEF UpMachine
<1> HIDE DEF item
<1>3. CASE /\ mechRow' = [mechRow EXCEPT ![g] = Updated(@, item)]
           /\ mech' = [mech EXCEPT ![g] = Changed(item)]
           /\ SetRecord(g, Paused)
  BY <1>1, <1>3, MarkedIsClean, OneItemClean, SetRecordClean, Statuses
<1>4. CASE UNCHANGED <<mech, mechRow, rec, recRow>>
  BY <1>4, ItemsStay, RecordsStay
<1> QED BY <1>2, <1>3, <1>4, LostIsClean

LEMMA SpeedMachineClean ==
  ASSUME MachinesInv, ItemsClean, RecordsClean, NEW g \in Gids, SpeedMachine(g)
  PROVE  ItemsClean' /\ RecordsClean'
<1> DEFINE item == [mech[g] EXCEPT !.endtime = Ago, !.status = Upgraded]
<1>1. item \in MechItems /\ item.status = Upgraded
  BY Named, TimesInRange, Statuses DEF MechItems, SpeedMachine
<1>2. Changes(mechRow[g], item)
  <2>1. mechRow[g] \in MechRows /\ mechRow[g].status = Upgrading
    BY Named DEF SpeedMachine, Fits
  <2> HIDE DEF item
  <2> QED BY <1>1, <2>1, UpdatedRow, Statuses DEF Changes
<1>3. \/ /\ mechRow' = [mechRow EXCEPT ![g] = Updated(@, item)]
         /\ mech' = [mech EXCEPT ![g] = Changed(item)]
         /\ UNCHANGED <<rec, recRow>>
      \/ UNCHANGED <<mech, mechRow, rec, recRow>>
      \/ Lose
  BY <1>2 DEF SpeedMachine
<1> HIDE DEF item
<1>4. CASE /\ mechRow' = [mechRow EXCEPT ![g] = Updated(@, item)]
           /\ mech' = [mech EXCEPT ![g] = Changed(item)]
           /\ UNCHANGED <<rec, recRow>>
  BY <1>1, <1>4, MarkedIsClean, OneItemClean, RecordsStay
<1>5. CASE UNCHANGED <<mech, mechRow, rec, recRow>>
  BY <1>5, ItemsStay, RecordsStay
<1> QED BY <1>3, <1>4, <1>5, LostIsClean

LEMMA ComforMachineClean ==
  ASSUME MachinesInv, ItemsClean, RecordsClean, NEW g \in Gids, ComforMachine(g)
  PROVE  ItemsClean' /\ RecordsClean'
<1> DEFINE item == [mech[g] EXCEPT !.level = @ + 1, !.status = Idle]
<1>1. item \in MechItems
  <2>1. mech[g] # None /\ mech[g].status = Upgraded
    BY DEF ComforMachine
  <2>2. mech[g].level + 1 \in MechLevels
    BY <2>1, Named, MaxLevelType DEF Room, MechLevels
  <2> QED BY <2>1, <2>2, Named, Statuses DEF MechItems
<1>2. \/ /\ mechRow' = [mechRow EXCEPT ![g] = Updated(@, item)]
         /\ mech' = [mech EXCEPT ![g] = Changed(item)]
         /\ SetRecord(g, Running)
      \/ Lose
  BY DEF ComforMachine
<1> HIDE DEF item
<1> QED
  BY <1>1, <1>2, MarkedIsClean, OneItemClean, SetRecordClean, LostIsClean, Statuses

LEMMA BuyClean ==
  ASSUME MachinesInv, ItemsClean, RecordsClean, NEW g \in Gids, Buy(g)
  PROVE  ItemsClean' /\ RecordsClean'
<1> DEFINE row == [level |-> 1, status |-> Building, endtime |-> ConstructTime,
                   endtimer |-> Ago]
           item == [LoadedItem(row) EXCEPT !.status = Building2]
<1>1. row \in MechRows /\ row.level = 1 /\ row.status = Building
  BY TimesInRange, Statuses, MaxLevelType, LevelsAssumption DEF MechRows, MechLevels
<1>2. item.level = 1 /\ item.status = Building2
  BY DEF LoadedItem
<1>3. mech[g] = None /\ MechsTyped
  BY MachineFits DEF Buy, Fits
<1>4. /\ mechRow' = [mechRow EXCEPT ![g] = row]
      /\ \/ UNCHANGED <<rec, recRow>> /\ mech' = [mech EXCEPT ![g] = item]
         \/ UNCHANGED <<rec, recRow, mech>>
         \/ Lose
  BY DEF Buy, memory
<1> HIDE DEF row, item
<1>5. CleanItem(item, row) /\ CleanItem(None, row)
  BY <1>1, <1>2, NoneAssumption DEF CleanItem
<1>6. UNCHANGED mech => mech' = [mech EXCEPT ![g] = None]
  BY <1>3 DEF MechsTyped
<1> QED BY <1>4, <1>5, <1>6, OneItemClean, RecordsStay, LostIsClean

LEMMA CollectClean ==
  ASSUME MachinesInv, ItemsClean, RecordsClean, NEW g \in Gids,
         CollectSpeed(g) \/ CollectCoin(g)
  PROVE  ItemsClean' /\ RecordsClean'
<1> DEFINE edited(s, n) == [rec[g] EXCEPT !.status = s, !.left = n, !.dirty = TRUE]
<1>1. rec[g] \in Records
  BY RecordsNow DEF CollectSpeed, CollectCoin, RecordsTyped
<1>2. \A s, n : edited(s, n).dirty
  BY <1>1 DEF Records
<1>3. /\ UNCHANGED <<mech, mechRow, recRow>>
      /\ \E s, n : rec' = [rec EXCEPT ![g] = edited(s, n)]
  BY DEF CollectSpeed, CollectCoin
<1> HIDE DEF edited
<1> QED BY <1>2, <1>3, OneRecordClean, ItemsStay

(* The timers, which take up all the machines and records.                  *)
LEMMA CheckItemClean ==
  ASSUME MachinesInv, ItemsClean, NEW g \in Gids, NEW bad, NEW r, mech[g] # None
  PROVE  CleanItem(CollectedBy(Advanced(g, bad), r), RowAdvanced(g, bad))
<1> DEFINE a == Advanced(g, bad)
           c == CollectedBy(a, r)
           up == [mech[g] EXCEPT !.endtime = Ago, !.level = @ + 1, !.status = Upgraded]
           built == [mech[g] EXCEPT !.endtime = Ago, !.status = Collecting]
           going(s) == [a EXCEPT !.status = s]
<1>1. a \in MechItems
  BY AdvancedMachine
<1>2. a.dirty \/ (a = mech[g] /\ RowAdvanced(g, bad) = mechRow[g])
  <2>1. CASE Completes(g) \/ Built(g, bad)
    <3>1. a \in {Changed(up), Changed(built)}
      BY <2>1 DEF Advanced
    <3>2. Changed(up).dirty /\ Changed(built).dirty
      BY Named DEF Changed, MechItems
    <3> HIDE DEF a, up, built
    <3> QED BY <3>1, <3>2
  <2>2. CASE ~Completes(g) /\ ~Built(g, bad)
    BY <2>2 DEF Advanced, RowAdvanced
  <2> QED BY <2>1, <2>2
<1>3. CASE Runs(r)
  <2>1. \A s : Changed(going(s)).dirty
    BY <1>1 DEF Changed, MechItems
  <2>2. \E s : c = Changed(going(s))
    BY <1>3 DEF CollectedBy
  <2> HIDE DEF c, going
  <2>3. c.dirty
    BY <2>1, <2>2
  <2>4. CleanItem(c, RowAdvanced(g, bad))
    BY <2>3 DEF CleanItem
  <2> QED BY <2>4 DEF c
<1>4. CASE ~Runs(r)
  <2>1. c = a
    BY <1>4 DEF CollectedBy
  <2> HIDE DEF a, c
  <2>2. CleanItem(c, RowAdvanced(g, bad))
    BY <1>2, <2>1 DEF CleanItem, ItemsClean
  <2> QED BY <2>2 DEF a, c
<1> QED BY <1>3, <1>4

LEMMA CheckRecordClean ==
  ASSUME MachinesInv, RecordsClean, NEW g \in Gids, NEW bad, NEW init, NEW dirty \in BOOLEAN
  PROVE  CleanRecord(Collected(RecordAdvanced(g, bad, dirty)),
                     RecordRowAdvanced(g, bad, init))
<1> DEFINE ra == RecordAdvanced(g, bad, dirty)
           row == RecordRowAdvanced(g, bad, init)
           fresh == [left |-> 0, need |-> CollectTime, status |-> Running]
<1>1. ra \in Records \cup {None}
  BY LoadedRecord, FreshRecord, RecordsNow DEF RecordAdvanced, RecordsTyped
<1>2. CleanRecord(ra, row)
  <2>1. \A x \in RecordRows : RecordRow(Record(x, dirty)) = x
    BY DEF RecordRow, Record, RecordRows
  <2>2. CASE ra = rec[g] /\ row = recRow[g]
    BY <2>2 DEF RecordsClean
  <2>3. CASE recRow[g] # None
    <3>1. row = recRow[g] /\ (ra = rec[g] \/ ra = Record(recRow[g], dirty))
      BY <2>3 DEF RecordRowAdvanced, RecordAdvanced
    <3> HIDE DEF ra, row
    <3> QED BY <2>1, <2>2, <2>3, <3>1, RecordsNow DEF CleanRecord, RecordsTyped
  <2>4. CASE recRow[g] = None /\ rec[g] # None
    <3>1. ra = rec[g]
      BY <2>4 DEF RecordAdvanced, Loads
    <3>2. rec[g] \in Records
      BY <2>4, RecordsNow DEF RecordsTyped
    <3>3. RecordRow(rec[g]) # None
      BY <3>2, SavedRecord, NoneAssumption
    <3>4. rec[g].dirty
      BY <2>4, <3>2, <3>3 DEF RecordsClean, CleanRecord, Records
    <3> HIDE DEF ra, row
    <3> QED BY <3>1, <3>4 DEF CleanRecord
  <2>5. CASE recRow[g] = None /\ rec[g] = None
    <3>1. \/ ra = None
          \/ ra = Record(fresh, dirty) /\ row = fresh
      BY <2>5 DEF RecordAdvanced, RecordRowAdvanced
    <3>2. RecordRow(Record(fresh, dirty)) = fresh
      BY <2>1, FreshRecord
    <3> HIDE DEF ra, row, fresh
    <3> QED BY <3>1, <3>2 DEF CleanRecord
  <2> QED BY <2>3, <2>4, <2>5
<1> HIDE DEF ra, row
<1>3. CASE Runs(ra)
  <2>1. ra \in Records
    BY <1>1, <1>3 DEF Runs
  <2> DEFINE left == ra.left + CheckTime
             status == IF left >= ra.need THEN Full ELSE Running
             c == [ra EXCEPT !.left = left, !.dirty = TRUE, !.status = status]
  <2>2. c.dirty
    <3> HIDE DEF left, status
    <3> QED BY <2>1 DEF Records
  <2>3. Collected(ra) = c
    BY <1>3 DEF Collected
  <2> HIDE DEF c
  <2> QED BY <2>2, <2>3 DEF CleanRecord, ra, row
<1>4. CASE ~Runs(ra)
  BY <1>2, <1>4 DEF Collected, ra, row
<1> QED BY <1>3, <1>4

LEMMA CheckClean ==
  ASSUME MachinesInv, ItemsClean, RecordsClean, Check
  PROVE  ItemsClean' /\ RecordsClean'
<1>1. CASE Lose
  BY <1>1, LostIsClean
<1>2. CASE ~Lose
  <2>1. PICK bad \in SUBSET Calls, init \in Garbage, dirty \in BOOLEAN :
          /\ mechRow' = [g \in Gids |-> IF mech[g] = None THEN mechRow[g]
                                                          ELSE RowAdvanced(g, bad)]
          /\ recRow' = [g \in Gids |-> IF mech[g] = None THEN recRow[g]
                                       ELSE RecordRowAdvanced(g, bad, init)]
          /\ mech' = [g \in Gids |->
                IF mech[g] = None THEN None
                ELSE CollectedBy(Advanced(g, bad), RecordAdvanced(g, bad, dirty))]
          /\ rec' = [g \in Gids |-> IF mech[g] = None THEN None
                                    ELSE Collected(RecordAdvanced(g, bad, dirty))]
    BY <1>2, ZenonT(60) DEF Check
  <2>2. ASSUME NEW g \in Gids
        PROVE  CleanItem(mech'[g], mechRow'[g]) /\ CleanRecord(rec'[g], recRow'[g])
    <3>1. CASE mech[g] = None
      BY <2>1, <3>1 DEF CleanItem, CleanRecord
    <3>2. CASE mech[g] # None
      BY <2>1, <3>2, CheckItemClean, CheckRecordClean
    <3> QED BY <3>1, <3>2
  <2> QED BY <2>2 DEF ItemsClean, RecordsClean
<1> QED BY <1>1, <1>2

LEMMA WriteDBClean ==
  ASSUME MachinesInv, ItemsClean, RecordsClean, WriteDB
  PROVE  ItemsClean' /\ RecordsClean'
<1> DEFINE clean(x) == [x EXCEPT !.dirty = FALSE]
<1>1. CASE Lose
  BY <1>1, LostIsClean
<1>2. CASE ~Lose
  <2>1. PICK saved \in SUBSET DirtyRows :
          /\ recRow' = [g \in Gids |-> IF <<"record", g>> \in saved
                                       THEN RecordRow(rec[g]) ELSE recRow[g]]
          /\ mechRow' = [g \in Gids |-> IF <<"machine", g>> \in saved
                                        THEN Updated(mechRow[g], mech[g]) ELSE mechRow[g]]
          /\ rec' = [g \in Gids |-> IF <<"record", g>> \in saved
                                    THEN clean(rec[g]) ELSE rec[g]]
          /\ mech' = [g \in Gids |-> IF <<"machine", g>> \in saved
                                     THEN clean(mech[g]) ELSE mech[g]]
    BY <1>2 DEF WriteDB
  <2>2. /\ \A g \in Gids : <<"record", g>> \in saved => rec[g] # None
        /\ \A g \in Gids : <<"machine", g>> \in saved => mech[g] # None
    BY DEF DirtyRows
  <2>3. \A m \in MechItems : clean(m).level = m.level /\ clean(m).status = m.status
    BY DEF MechItems
  <2>4. \A r \in Records : RecordRow(clean(r)) = RecordRow(r)
    BY DEF Records, RecordRow
  <2> HIDE DEF clean
  <2>5. ASSUME NEW g \in Gids PROVE CleanItem(mech'[g], mechRow'[g])
    <3>1. CASE <<"machine", g>> \in saved
      <4>1. mech[g] # None
        BY <2>2, <3>1
      <4>2. mech[g] \in MechItems /\ mechRow[g] \in MechRows
        BY <4>1, Named
      <4>3. Updated(mechRow[g], mech[g]) # None
        BY <4>2, UpdatedRow, NoneAssumption
      <4> QED BY <2>1, <2>3, <3>1, <4>2, <4>3, UpdatedRow DEF CleanItem
    <3>2. CASE <<"machine", g>> \notin saved
      BY <2>1, <3>2 DEF ItemsClean
    <3> QED BY <3>1, <3>2
  <2>6. ASSUME NEW g \in Gids PROVE CleanRecord(rec'[g], recRow'[g])
    <3>1. CASE <<"record", g>> \in saved
      <4>1. rec[g] \in Records
        BY <2>2, <3>1, RecordsNow DEF RecordsTyped
      <4> QED BY <2>1, <2>4, <3>1, <4>1 DEF CleanRecord
    <3>2. CASE <<"record", g>> \notin saved
      BY <2>1, <3>2 DEF RecordsClean
    <3> QED BY <3>1, <3>2
  <2> QED BY <2>5, <2>6 DEF ItemsClean, RecordsClean
<1> QED BY <1>1, <1>2

LEMMA LogonClean ==
  ASSUME MachinesInv, Logon PROVE ItemsClean' /\ RecordsClean'
<1>1. UNCHANGED mechRow /\ rec' = Absent
  BY DEF Logon, tables
<1>2. \A g \in Gids :
        mech'[g] = IF mechRow[g] = None THEN None ELSE LoadedItem(mechRow[g])
  BY DEF Logon
<1>3. \A g \in Gids : mechRow[g] # None => mechRow[g] \in MechRows
  BY MachineFits DEF MechsTyped
<1>4. ItemsClean'
  BY <1>1, <1>2, <1>3, LoadedType DEF ItemsClean, CleanItem
<1>5. RecordsClean'
  BY <1>1 DEF RecordsClean, CleanRecord, Absent
<1> QED BY <1>4, <1>5

LEMMA PassClean ==
  ASSUME MachinesInv, ItemsClean, RecordsClean, Pass
  PROVE  ItemsClean' /\ RecordsClean'
<1>1. ASSUME NEW g \in Gids PROVE CleanItem(LaterItem(mech[g]), LaterRow(mechRow[g]))
  <2>1. CASE mech[g] = None
    BY <2>1 DEF LaterItem, CleanItem
  <2>2. CASE mech[g] # None
    <3>1. mech[g] \in MechItems /\ mechRow[g] \in MechRows /\ mechRow[g] # None
      BY <2>2, Named, NoneAssumption
    <3>2. \A t : LET later == [mech[g] EXCEPT !.endtime = t]
                 IN  /\ later.level = mech[g].level
                     /\ later.status = mech[g].status
                     /\ later.dirty = mech[g].dirty
      BY <3>1 DEF MechItems
    <3>3. Kept(mech[g], mechRow[g], LaterItem(mech[g]), LaterRow(mechRow[g]))
      BY <2>2, Named, LaterMachine
    <3>4. LaterRow(mechRow[g]) # None
      BY <3>1, <3>3 DEF Kept
    <3>5. \A s, t : LET later == [mechRow[g] EXCEPT !.endtime = s, !.endtimer = t]
                    IN  /\ later.level = mechRow[g].level
                        /\ later.status = mechRow[g].status
      BY <3>1 DEF MechRows
    <3>6. /\ LaterItem(mech[g]).level = mech[g].level
          /\ LaterItem(mech[g]).status = mech[g].status
          /\ LaterItem(mech[g]).dirty = mech[g].dirty
      BY <2>2, <3>2 DEF LaterItem
    <3>7. /\ LaterRow(mechRow[g]).level = mechRow[g].level
          /\ LaterRow(mechRow[g]).status = mechRow[g].status
      BY <3>1, <3>5 DEF LaterRow
    <3>8. CleanItem(mech[g], mechRow[g])
      BY DEF ItemsClean
    <3> QED BY <2>2, <3>4, <3>6, <3>7, <3>8 DEF CleanItem
  <2> QED BY <2>1, <2>2
<1>2. /\ mech' = [g \in Gids |-> LaterItem(mech[g])]
      /\ mechRow' = [g \in Gids |-> LaterRow(mechRow[g])]
      /\ UNCHANGED <<rec, recRow>>
  BY DEF Pass
<1> QED BY <1>1, <1>2, RecordsStay DEF ItemsClean

LEMMA NextClean ==
  ASSUME MachinesInv, CleanRowsSaved, [Next]_vars PROVE CleanRowsSaved'
<1>0. ItemsClean /\ RecordsClean
  BY CleanParts
<1>1. CASE Logon
  BY <1>1, LogonClean, CleanPartsNext
<1>2. CASE Logout
  BY <1>2, LostIsClean, CleanPartsNext DEF Logout
<1>3. CASE UpInstructor \/ SpeedInstructor \/ ComforInstructor
  <2>1. UNCHANGED <<mech, mechRow, rec, recRow>> \/ Lose
    BY <1>3 DEF UpInstructor, SpeedInstructor, ComforInstructor
  <2> QED BY <1>0, <2>1, ItemsStay, RecordsStay, LostIsClean, CleanPartsNext
<1>4. ASSUME NEW g \in Gids,
             \/ Buy(g) \/ UpMachine(g) \/ SpeedMachine(g) \/ ComforMachine(g)
             \/ CollectSpeed(g) \/ CollectCoin(g)
      PROVE  CleanRowsSaved'
  BY <1>0, <1>4, BuyClean, UpMachineClean, SpeedMachineClean, ComforMachineClean,
     CollectClean, CleanPartsNext
<1>5. CASE Check
  BY <1>0, <1>5, CheckClean, CleanPartsNext
<1>6. CASE WriteDB
  BY <1>0, <1>6, WriteDBClean, CleanPartsNext
<1>7. CASE Pass
  BY <1>0, <1>7, PassClean, CleanPartsNext
<1>8. CASE UNCHANGED vars
  BY <1>0, <1>8, ItemsStay, RecordsStay, CleanPartsNext DEF vars, memory, tables
<1> QED BY <1>1, <1>2, <1>3, <1>4, <1>5, <1>6, <1>7, <1>8 DEF Next

(* Nothing that differs from its row is ever unmarked, whatever calls fail  *)
(* and wherever the process dies: what ProcessMechineWriteDB skips needs no *)
(* writing.                                                                 *)
THEOREM CleanIsSaved == Spec => []CleanRowsSaved
<1>1. Init => CleanRowsSaved
  BY DEF Init, CleanRowsSaved, Absent
<1>2. MachinesInv /\ CleanRowsSaved /\ [Next]_vars => CleanRowsSaved'
  BY NextClean
<1> QED BY MachinesInvariant, <1>1, <1>2, PTL DEF Spec
================================================================================
