----------------------------- MODULE PlayerMachines ----------------------------
(****************************************************************************)
(* One player's machines: the instructor (m_userInstorMechine), the         *)
(* information machines of m_userBuyMechineList, the collection record each *)
(* of these has in m_userInfoCollectList, and the wallet (m_coin, m_money), *)
(* in the memory of CPlayer and in the tables they are loaded from.         *)
(*                                                                          *)
(* The server is one thread, so a request handler or a timer callback is    *)
(* one step.  It is not one transaction: every database call commits by     *)
(* itself, any call may fail (the handler goes on as the code says), and    *)
(* the process may die between two calls.  A call that fails before         *)
(* anything has changed leaves everything as it was; only failures that     *)
(* leave something half done have a disjunct.  An outage and a crash each   *)
(* count against MaxFaults.                                                 *)
(*                                                                          *)
(* Time is relative: an end time is kept as end time - now, down to -Late,  *)
(* which stands for long ago and for the value 0 the code stores when there *)
(* is no end time.                                                          *)
(****************************************************************************)
EXTENDS Integers

CONSTANTS
  Gids,          (* the information machines the player may come to own     *)
  None,          (* no row, or nothing in memory                            *)
  MaxInstr,      (* the last level in m_instorUpLevelList                   *)
  MaxLevel,      (* the last level in m_MechineUpLevelComsumList and in     *)
                 (* m_infoMechineCollectList                                *)
  InstrTime, InstrCoin,     (* Time and Coin of an instructor upgrade       *)
  UpTime, UpCoin,           (* Time and Coin of a machine upgrade           *)
  MoneyTime,                (* seconds that one money buys                  *)
  CollectTime, EarCoin,     (* Time and EarCoin of a collection             *)
  BuyCoin, ConstructTime,   (* the price and construction time of a machine *)
  CheckTime,                (* getCheckTime(), the period of m_UserTimer    *)
  StartCoin, StartMoney,    (* the account at the start                     *)
  Garbage,       (* what an uninitialised collection record may hold        *)
  Late, MaxCoin, MaxMoney, MaxFaults    (* bounds of the model              *)

ASSUME PricesAssumption ==
  /\ {InstrCoin, UpCoin, EarCoin, BuyCoin, MoneyTime, CheckTime} \subseteq Nat \ {0}
  /\ {StartCoin, StartMoney, InstrTime, UpTime, CollectTime, ConstructTime}
        \subseteq Nat
ASSUME LevelsAssumption == MaxInstr \in Nat \ {0} /\ MaxLevel \in Nat \ {0}
ASSUME BoundsAssumption ==
  /\ MaxCoin \in Nat /\ MaxMoney \in Nat /\ MaxFaults \in Nat
  /\ StartCoin <= MaxCoin /\ StartMoney <= MaxMoney
  /\ Late \in Nat /\ Late > MoneyTime * MaxMoney

VARIABLES
  online,     (* whether a CPlayer exists                                   *)
  wallet,     (* m_coin and m_money                                         *)
  account,    (* the player's row of Player_Account                         *)
  instr,      (* m_userInstorMechine                                        *)
  instrRow,   (* its row of User_ExperInstor_MechineTable                   *)
  mech,       (* m_userBuyMechineList                                       *)
  mechRow,    (* their rows of User_ExperInstor_MechineTable                *)
  rec,        (* m_userInfoCollectList                                      *)
  recRow,     (* their rows of UserInfoCollectTable                         *)
  checkIn,    (* when m_UserTimer fires                                     *)
  faults      (* the outages and crashes so far                             *)

memory == <<online, wallet, instr, mech, rec, checkIn>>
tables == <<account, instrRow, mechRow, recRow>>
vars   == <<memory, tables, faults>>

(* Values of the column status; 11 is "the instructor has its last level".  *)
Idle      == 0
Building  == 1     (* what UserBuyProduction inserts                        *)
Building2 == 2     (* what Handle_User_Buy_Production keeps in memory       *)
Upgrading == 3
Upgraded  == 4     (* waits for the player's confirmation                   *)
Collecting  == 8
Collectable == 9
Top       == 11

(* Values of Status of a collection record.                                 *)
Paused  == 0
Running == 1
Full    == 2

Ago == -Late

(* What the variables hold.                                                 *)
Times        == Ago .. (InstrTime + UpTime + ConstructTime)
InstrLevels  == 0 .. MaxInstr + 1
InstrStatus  == {Idle, Upgrading, Upgraded, Top}
MechLevels   == 1 .. MaxLevel + 1
MechStatus   == {Idle, Building, Building2, Upgrading, Upgraded, Collecting,
                 Collectable}
RecordStatus == {Paused, Running, Full}

Purses     == [coin : Nat, money : Nat]
InstrItems == [level : InstrLevels, status : InstrStatus, endtime : Times,
               dirty : {FALSE}]
InstrRows  == [level : InstrLevels, status : InstrStatus, endtime : Times,
               endtimer : Times]
MechItems  == [level : MechLevels, status : MechStatus, endtime : Times,
               dirty : BOOLEAN]
MechRows   == [level : MechLevels, status : MechStatus, endtime : Times,
               endtimer : Times]
Records    == [left : Int, need : Int, status : RecordStatus, dirty : BOOLEAN]
RecordRows == [left : Int, need : Int, status : RecordStatus]

(* A Status that is neither Paused nor Full is treated as Running is.       *)
ASSUME GarbageAssumption == Garbage \subseteq RecordRows
ASSUME NoneAssumption ==
  /\ None \notin Purses \cup InstrItems \cup MechItems
  /\ None \notin InstrRows \cup MechRows \cup Records \cup RecordRows

(* What an UPDATE of UpdateUserMechineTable leaves in the row: the end time *)
(* goes to the column endtimer, the column endtime keeps what INSERT put.   *)
Updated(row, item) ==
  [row EXCEPT !.level = item.level, !.status = item.status,
              !.endtimer = item.endtime]

(* The call returns false when the UPDATE changes no row.                   *)
Changes(row, item) == Updated(row, item) # row

(* A wrong LoadedItem: the level is not read.                               *)
LoadedWithoutLevel(row) == [level |-> 0, status |-> row.status,
                            endtime |-> row.endtime, dirty |-> FALSE]

LoadedItem(row) == [level |-> row.level, status |-> row.status,
                    endtime |-> row.endtime, dirty |-> FALSE]

(* A wrong Changed: the machine is stored and not marked.                   *)
ChangedUnmarked(item) == item

(* ChangeUserMechine_By_Pid marks what it stores as unsaved.                *)
Changed(item) == [item EXCEPT !.dirty = TRUE]

Record(row, dirty) == [left |-> row.left, need |-> row.need,
                       status |-> row.status, dirty |-> dirty]
RecordRow(r) == [left |-> r.left, need |-> r.need, status |-> r.status]

Absent == [g \in Gids |-> None]

(* The memory of the player is gone: at a logout, and when the process dies.*)
Lose ==
  /\ online' = FALSE
  /\ wallet' = None
  /\ instr' = None
  /\ mech' = Absent
  /\ rec' = Absent
  /\ checkIn' = 0

Trouble == faults < MaxFaults /\ faults' = faults + 1

(* UpdateUserMoney(w): the row is written; false when nothing changes.      *)
Pay(w) ==
  /\ w # account
  /\ account' = w

(* A wrong price: coin is charged as money.                                 *)
SpendSwapped(coin, money) == [coin |-> wallet.coin - money, money |-> wallet.money - coin]

Spend(coin, money) == [coin |-> wallet.coin - coin, money |-> wallet.money - money]

Affordable(w) == w.coin >= 0 /\ w.money >= 0

Init ==
  /\ online = FALSE
  /\ wallet = None
  /\ account = [coin |-> StartCoin, money |-> StartMoney]
  /\ instr = None
  /\ instrRow \in [level : 0 .. MaxInstr, status : {Idle}, endtime : {Ago},
                   endtimer : {Ago}]
  /\ mech = Absent
  /\ mechRow = Absent
  /\ rec = Absent
  /\ recRow = Absent
  /\ checkIn = 0
  /\ faults = 0

--------------------------------------------------------------------------------
(* Sessions.                                                                *)

(* Handle_Logon and OnLogon: everything but the records is loaded from its  *)
(* table, and the timers are started.                                       *)
Logon ==
  /\ ~online
  /\ online' = TRUE
  /\ wallet' = account
  /\ instr' = LoadedItem(instrRow)
  /\ mech' = [g \in Gids |-> IF mechRow[g] = None THEN None
                                                  ELSE LoadedItem(mechRow[g])]
  /\ rec' = Absent
  /\ checkIn' = CheckTime
  /\ UNCHANGED <<tables, faults>>

(* ProcessClose and OnLogout; a crash between two handlers does the same.   *)
Logout ==
  /\ online
  /\ Lose
  /\ UNCHANGED <<tables, faults>>

--------------------------------------------------------------------------------
(* Requests.                                                                *)

(* Handle_User_Buy_Production: the row, then the money, then the memory.    *)
Buy(g) ==
  LET w == Spend(BuyCoin, 0)
      row == [level |-> 1, status |-> Building, endtime |-> ConstructTime,
              endtimer |-> Ago]
  IN  /\ online /\ mechRow[g] = None /\ Affordable(w)
      /\ mechRow' = [mechRow EXCEPT ![g] = row]
      /\ \/ /\ Pay(w)
            /\ wallet' = w
            /\ mech' = [mech EXCEPT ![g] = [LoadedItem(row) EXCEPT !.status = Building2]]
            /\ UNCHANGED <<online, instr, rec, checkIn, faults>>
         \/ Trouble /\ UNCHANGED <<account, memory>>    \* the money is not taken
         \/ Trouble /\ UNCHANGED account /\ Lose
      /\ UNCHANGED <<instrRow, recRow>>

(* Handle_User_Require_Mechine_UpNextLevel, the instructor: the money, the  *)
(* memory, the row.  The status of the machine is not looked at.            *)
UpInstructor ==
  LET w == Spend(InstrCoin, 0)
      item == [instr EXCEPT !.endtime = InstrTime, !.status = Upgrading]
  IN  /\ online /\ instr.level < MaxInstr /\ Affordable(w)
      /\ Pay(w)
      /\ \/ /\ wallet' = w /\ instr' = item
            /\ \/ instrRow' = Updated(instrRow, item) /\ UNCHANGED faults
               \/ Trouble /\ UNCHANGED instrRow
            /\ UNCHANGED <<online, mech, rec, checkIn>>
         \/ Trouble /\ Lose /\ UNCHANGED instrRow
      /\ UNCHANGED <<mechRow, recRow>>

(* A collection record whose Status a handler sets, in memory and then with *)
(* UpdateUserInfoMechineCollectTable, whose answer is not looked at.        *)
SetRecord(g, status) ==
  LET r == [rec[g] EXCEPT !.status = status, !.dirty = TRUE]
  IN  IF rec[g] = None THEN UNCHANGED <<rec, recRow, faults>>
      ELSE /\ rec' = [rec EXCEPT ![g] = r]
           /\ \/ recRow' = [recRow EXCEPT ![g] = RecordRow(r)] /\ UNCHANGED faults
              \/ Trouble /\ UNCHANGED recRow

(* The same handler, another machine: the money, the row, the memory; then  *)
(* the collection is paused.                                                *)
UpMachine(g) ==
  LET w == Spend(UpCoin, 0)
      item == [mech[g] EXCEPT !.endtime = UpTime, !.status = Upgrading]
  IN  /\ online /\ mech[g] # None
      /\ mech[g].level + 1 <= MaxLevel
      /\ ~(mech[g].level > instr.level)
      /\ Affordable(w)
      /\ Pay(w)
      /\ \/ /\ Changes(mechRow[g], item)
            /\ mechRow' = [mechRow EXCEPT ![g] = Updated(@, item)]
            /\ \/ /\ wallet' = w
                  /\ mech' = [mech EXCEPT ![g] = Changed(item)]
                  /\ SetRecord(g, Paused)
                  /\ UNCHANGED <<online, instr, checkIn>>
               \/ Trouble /\ Lose /\ UNCHANGED recRow
         \/ /\ ~Changes(mechRow[g], item)           \* "mechine db operate error"
            /\ wallet' = w
            /\ UNCHANGED <<online, instr, mech, rec, checkIn, mechRow, recRow, faults>>
         \/ /\ Trouble
            /\ \/ wallet' = w /\ UNCHANGED <<online, instr, mech, rec, checkIn>>
               \/ Lose
            /\ UNCHANGED <<mechRow, recRow>>
      /\ UNCHANGED instrRow

(* Quotient and remainder as C++ computes them.                             *)
CDiv(a, b) == IF a >= 0 THEN a \div b ELSE -((-a) \div b)
Cost(seconds) == CDiv(seconds, MoneyTime) + (IF seconds % MoneyTime = 0 THEN 0 ELSE 1)

(* Handle_User_Require_Mechine_Speed: the time it charges for is now - end  *)
(* time, which is what has passed since the end.  The instructor is refused *)
(* before the end, the other machines are not.                              *)
SpeedInstructor ==
  LET w == Spend(0, Cost(-instr.endtime))
      item == [instr EXCEPT !.endtime = Ago, !.status = Upgraded]
  IN  /\ online /\ instr.status = Upgrading
      /\ instr.level + 1 <= MaxInstr
      /\ -instr.endtime > 0
      /\ Affordable(w)
      /\ Pay(w)
      /\ \/ /\ wallet' = w /\ instr' = item
            /\ \/ instrRow' = Updated(instrRow, item) /\ UNCHANGED faults
               \/ Trouble /\ UNCHANGED instrRow
            /\ UNCHANGED <<online, mech, rec, checkIn>>
         \/ Trouble /\ Lose /\ UNCHANGED instrRow
      /\ UNCHANGED <<mechRow, recRow>>

SpeedMachine(g) ==
  LET w == Spend(0, Cost(-mech[g].endtime))
      item == [mech[g] EXCEPT !.endtime = Ago, !.status = Upgraded]
  IN  /\ online /\ mech[g] # None /\ mech[g].status = Upgrading
      /\ mech[g].level + 1 <= MaxLevel
      /\ Affordable(w) /\ w.money <= MaxMoney
      /\ Pay(w)
      /\ \/ /\ mechRow' = [mechRow EXCEPT ![g] = Updated(@, item)]
            /\ IF Changes(mechRow[g], item)
               THEN mech' = [mech EXCEPT ![g] = Changed(item)]
               ELSE UNCHANGED mech
            /\ wallet' = w
            /\ UNCHANGED <<online, instr, rec, checkIn, faults>>
         \/ /\ Trouble
            /\ \/ wallet' = w /\ UNCHANGED <<online, instr, mech, rec, checkIn>>
               \/ Lose
            /\ UNCHANGED mechRow
      /\ UNCHANGED <<instrRow, recRow>>

(* Handle_User_Require_Mechine_Comfor: the player confirms an upgrade.      *)
ComforInstructor ==
  LET level == instr.level + 1
      item == [instr EXCEPT !.level = level,
                            !.status = IF level = MaxInstr THEN Top ELSE Idle]
  IN  /\ online /\ instr.status = Upgraded
      /\ instr' = item
      /\ \/ instrRow' = Updated(instrRow, item) /\ UNCHANGED faults
         \/ Trouble /\ UNCHANGED instrRow
      /\ UNCHANGED <<online, wallet, account, mech, mechRow, rec, recRow, checkIn>>

ComforMachine(g) ==
  LET item == [mech[g] EXCEPT !.level = @ + 1, !.status = Idle]
  IN  /\ online /\ mech[g] # None /\ mech[g].status = Upgraded
      /\ Changes(mechRow[g], item)
      /\ mechRow' = [mechRow EXCEPT ![g] = Updated(@, item)]
      /\ \/ /\ mech' = [mech EXCEPT ![g] = Changed(item)]
            /\ SetRecord(g, Running)
            /\ UNCHANGED <<online, wallet, instr, checkIn>>
         \/ Trouble /\ Lose /\ UNCHANGED recRow
      /\ UNCHANGED <<account, instrRow>>

(* Handle_User_Info_Mechine_CollectSpeed: the record is full before the     *)
(* money is looked at.                                                      *)
CollectSpeed(g) ==
  LET left == rec[g].need - rec[g].left
      w == Spend(0, Cost(IF left <= 0 THEN 0 ELSE left))
  IN  /\ online /\ mech[g] # None /\ rec[g] # None
      /\ mech[g].level <= MaxLevel
      /\ rec' = [rec EXCEPT ![g] = [@ EXCEPT !.status = Full, !.left = rec[g].need,
                                             !.dirty = TRUE]]
      /\ \/ Affordable(w) /\ Pay(w) /\ wallet' = w /\ UNCHANGED faults
         \/ /\ ~Affordable(w) \/ w = account
            /\ UNCHANGED <<account, wallet, faults>>
         \/ Affordable(w) /\ Trouble /\ UNCHANGED <<account, wallet>>
      /\ UNCHANGED <<online, instr, mech, checkIn, instrRow, mechRow, recRow>>

(* Handle_User_Info_Mechine_CollectCoin: neither the Status of the record   *)
(* nor that of the machine is looked at.                                    *)
CollectCoin(g) ==
  LET w == Spend(-EarCoin, 0)
  IN  /\ online /\ rec[g] # None /\ mech[g] # None
      /\ mech[g].level <= MaxLevel
      /\ w.coin <= MaxCoin
      /\ rec' = [rec EXCEPT ![g] = [@ EXCEPT !.status = Running, !.left = 0,
                                             !.dirty = TRUE]]
      /\ \/ Pay(w) /\ wallet' = w /\ UNCHANGED faults
         \/ Trouble /\ UNCHANGED <<account, wallet>>
      /\ UNCHANGED <<online, instr, mech, checkIn, instrRow, mechRow, recRow>>

--------------------------------------------------------------------------------
(* The timers.                                                              *)

(* ProcessMechineRequire, the instructor.                                   *)
(* A wrong test, which misses an end time between two checks.               *)
InstrCompletesOnTheDot == instr.status = Upgrading /\ instr.endtime = 0

InstrCompletes == instr.status = Upgrading /\ instr.endtime <= 0
InstrChecked ==
  IF InstrCompletes
  THEN [instr EXCEPT !.endtime = Ago, !.level = @ + 1, !.status = Upgraded]
  ELSE instr

(* The same for one information machine, in the order of the code.  bad is  *)
(* the set of database calls that fail; init and dirty are what the stack   *)
(* holds where a record is not initialised.                                 *)

(* A wrong test, which looks only at the time.                              *)
CompletesAnyStatus(g) == mech[g].endtime <= 0

Completes(g) == mech[g].status = Upgrading /\ mech[g].endtime <= 0
Built(g, bad) ==
  mech[g].status = Building /\ mech[g].endtime <= 0 /\ <<"build", g>> \notin bad

(* The machine after the upgrade and the construction have been looked at.  *)
Advanced(g, bad) ==
  IF Completes(g)
  THEN Changed([mech[g] EXCEPT !.endtime = Ago, !.level = @ + 1, !.status = Upgraded])
  ELSE IF Built(g, bad)
  THEN Changed([mech[g] EXCEPT !.endtime = Ago, !.status = Collecting])
  ELSE mech[g]

RowAdvanced(g, bad) ==
  IF (Completes(g) \/ Built(g, bad)) /\ <<"save", g>> \notin bad
  THEN Updated(mechRow[g], Advanced(g, bad)) ELSE mechRow[g]

(* CheckUserInfoCollect inserts the record it is given when there is none:  *)
(* a fresh one when the construction ends, an uninitialised one when a      *)
(* record is only to be loaded.                                             *)
Loads(g, bad) ==
  /\ rec[g] = None
  /\ Advanced(g, bad).status # Building
  /\ <<"load", g>> \notin bad

RecordRowAdvanced(g, bad, init) ==
  IF recRow[g] # None THEN recRow[g]
  ELSE IF Built(g, bad)
  THEN [left |-> 0, need |-> CollectTime, status |-> Running]
  ELSE IF Loads(g, bad) THEN init ELSE None

(* A record that was inserted is read back as zeros, with a Gid that no     *)
(* machine has: only one that was there already is loaded.                  *)
RecordAdvanced(g, bad, dirty) ==
  IF recRow[g] # None /\ (Loads(g, bad) \/ (rec[g] = None /\ Built(g, bad)))
  THEN Record(recRow[g], dirty)
  ELSE IF recRow[g] = None /\ Built(g, bad) /\ Loads(g, bad)
  THEN Record([left |-> 0, need |-> CollectTime, status |-> Running], dirty)
  ELSE rec[g]

(* The collection loop: a record that runs has the period added; it makes   *)
(* its machine Collecting or Collectable, whatever the machine was doing.   *)
Runs(r) == r # None /\ r.status \notin {Paused, Full}
Collected(r) ==
  LET left == r.left + CheckTime
  IN  IF Runs(r) THEN [r EXCEPT !.left = left, !.dirty = TRUE,
                                !.status = IF left >= r.need THEN Full ELSE Running]
                 ELSE r
CollectedBy(m, r) ==
  IF Runs(r) THEN Changed([m EXCEPT !.status = IF Collected(r).status = Full
                                               THEN Collectable ELSE Collecting])
             ELSE m

(* The database calls that a check makes.                                   *)
Owned == {g \in Gids : mech[g] # None}
Due(status) == {g \in Owned : mech[g].status = status /\ mech[g].endtime <= 0}
Calls ==
  {c \in {<<"instructor">>} : InstrCompletes}
    \cup {<<"build", g>> : g \in Due(Building)}
    \cup {<<"save", g>> : g \in Due(Building) \cup Due(Upgrading)}
    \cup {<<"load", g>> : g \in {h \in Owned : rec[h] = None}}

Check ==
  /\ online /\ checkIn = 0
  /\ \E bad \in SUBSET Calls, init \in Garbage, dirty \in BOOLEAN :
       /\ instrRow' = IF InstrCompletes /\ <<"instructor">> \notin bad
                      THEN Updated(instrRow, InstrChecked) ELSE instrRow
       /\ mechRow' = [g \in Gids |-> IF mech[g] = None THEN mechRow[g]
                                                       ELSE RowAdvanced(g, bad)]
       /\ recRow' = [g \in Gids |-> IF mech[g] = None THEN recRow[g]
                                    ELSE RecordRowAdvanced(g, bad, init)]
       /\ \/ /\ instr' = InstrChecked
             /\ mech' = [g \in Gids |->
                  IF mech[g] = None THEN None
                  ELSE CollectedBy(Advanced(g, bad), RecordAdvanced(g, bad, dirty))]
             /\ rec' = [g \in Gids |->
                  IF mech[g] = None THEN None
                  ELSE Collected(RecordAdvanced(g, bad, dirty))]
             /\ checkIn' = CheckTime
             /\ IF bad = {} THEN UNCHANGED faults ELSE Trouble
             /\ UNCHANGED <<online, wallet>>
          \/ Trouble /\ Lose
  /\ UNCHANGED account

(* ProcessMechineWriteDB: what is marked as unsaved is written; saved is    *)
(* the set of calls that reach the database.  isDirty of the instructor is  *)
(* never set, so its row is not written here.                               *)
(* A wrong loop: the records are left out.                                  *)
DirtyMachines == {<<"machine", g>> : g \in {h \in Gids : mech[h] # None /\ mech[h].dirty}}

DirtyRows == {<<"record", g>> : g \in {h \in Gids : rec[h] # None /\ rec[h].dirty}}
               \cup {<<"machine", g>> : g \in {h \in Gids : mech[h] # None /\ mech[h].dirty}}

WriteDB ==
  /\ online
  /\ \E saved \in SUBSET DirtyRows :
       /\ recRow' = [g \in Gids |-> IF <<"record", g>> \in saved
                                    THEN RecordRow(rec[g]) ELSE recRow[g]]
       /\ mechRow' = [g \in Gids |-> IF <<"machine", g>> \in saved
                                     THEN Updated(mechRow[g], mech[g]) ELSE mechRow[g]]
       /\ \/ /\ rec' = [g \in Gids |-> IF <<"record", g>> \in saved
                                       THEN [rec[g] EXCEPT !.dirty = FALSE] ELSE rec[g]]
             /\ mech' = [g \in Gids |-> IF <<"machine", g>> \in saved
                                        THEN [mech[g] EXCEPT !.dirty = FALSE] ELSE mech[g]]
             /\ IF saved = DirtyRows THEN UNCHANGED faults ELSE Trouble
             /\ UNCHANGED <<online, wallet, instr, checkIn>>
          \/ Trouble /\ Lose
  /\ UNCHANGED <<account, instrRow>>

(* Time passes; it does not while the check timer is due.                   *)
Later(t) == IF t > Ago THEN t - 1 ELSE t
LaterItem(item) == IF item = None THEN None ELSE [item EXCEPT !.endtime = Later(@)]
LaterRow(row) ==
  IF row = None THEN None
  ELSE [row EXCEPT !.endtime = Later(@), !.endtimer = Later(@)]

Pass ==
  /\ online => checkIn > 0
  /\ checkIn' = IF online THEN checkIn - 1 ELSE checkIn
  /\ instr' = LaterItem(instr)
  /\ instrRow' = LaterRow(instrRow)
  /\ mech' = [g \in Gids |-> LaterItem(mech[g])]
  /\ mechRow' = [g \in Gids |-> LaterRow(mechRow[g])]
  /\ UNCHANGED <<online, wallet, account, rec, recRow, faults>>

Next ==
  \/ Logon \/ Logout
  \/ UpInstructor \/ SpeedInstructor \/ ComforInstructor
  \/ \E g \in Gids :
       \/ Buy(g) \/ UpMachine(g) \/ SpeedMachine(g) \/ ComforMachine(g)
       \/ CollectSpeed(g) \/ CollectCoin(g)
  \/ Check \/ WriteDB \/ Pass

(* The clock runs, and the event loop runs the timers that are due.         *)
Fairness == WF_vars(Pass) /\ WF_vars(Check) /\ WF_vars(WriteDB)

Spec == Init /\ [][Next]_vars /\ Fairness

--------------------------------------------------------------------------------
(* The types of the variables, the levels and the end times in their ranges:*)
(* no level passes the last one by more than one (see ComforInstructor).    *)
TypeOK ==
  /\ online \in BOOLEAN
  /\ account \in Purses
  /\ wallet \in Purses \cup {None}
  /\ instrRow \in InstrRows
  /\ instr \in InstrItems \cup {None}
  /\ mech \in [Gids -> MechItems \cup {None}]
  /\ mechRow \in [Gids -> MechRows \cup {None}]
  /\ rec \in [Gids -> Records \cup {None}]
  /\ recRow \in [Gids -> RecordRows \cup {None}]
  /\ checkIn \in 0 .. CheckTime
  /\ faults \in 0 .. MaxFaults
  /\ online <=> wallet # None
  /\ online <=> instr # None

(* What a player who is online is told he owns is what the account holds,   *)
(* whatever database call failed in between: every handler writes the       *)
(* account first and the memory only when that has worked.                  *)
WalletCoherent == online => wallet = account

(* A machine or a record that is not marked as unsaved is what its row      *)
(* says: no handler changes the memory without marking it or writing the    *)
(* row, whichever of its calls fail.  The one exception is a machine just   *)
(* bought, Building2 in memory and Building in its row.                     *)
CleanRowsSaved ==
  \A g \in Gids :
    /\ mech[g] # None /\ ~mech[g].dirty =>
         /\ mechRow[g] # None
         /\ mech[g].level = mechRow[g].level
         /\ \/ mech[g].status = mechRow[g].status
            \/ mech[g].status = Building2 /\ mechRow[g].status = Building
    /\ rec[g] # None /\ ~rec[g].dirty => recRow[g] = RecordRow(rec[g])

(* Levels never fall, in memory during a session and in the tables over     *)
(* sessions, outages and crashes: no stale copy of a machine is ever        *)
(* written over a newer one.                                                *)
LevelsNeverFall ==
  [][/\ instrRow'.level >= instrRow.level
     /\ online /\ online' => instr'.level >= instr.level
     /\ \A g \in Gids :
          /\ mechRow[g] # None => mechRow'[g].level >= mechRow[g].level
          /\ mech[g] # None /\ mech'[g] # None => mech'[g].level >= mech[g].level]_vars

(* An upgrade is never had for nothing: a machine that was not upgrading is *)
(* upgrading, in memory or in its row, only in a step that takes coin from  *)
(* the account.                                                             *)
Begins(old, new) ==
  old # None /\ new # None /\ old.status # Upgrading /\ new.status = Upgrading

UpgradesArePaid ==
  [][ (\/ Begins(instr, instr') \/ Begins(instrRow, instrRow')
       \/ \E g \in Gids : Begins(mech[g], mech'[g]) \/ Begins(mechRow[g], mechRow'[g]))
      => account'.coin < account.coin]_vars

(* What is marked as unsaved does not stay so: it is written, if the player *)
(* stays, once the outages are over.                                        *)
DirtyWritten ==
  \A g \in Gids :
    /\ mech[g] # None /\ mech[g].dirty ~> mech[g] = None \/ ~mech[g].dirty
    /\ rec[g] # None /\ rec[g].dirty ~> rec[g] = None \/ ~rec[g].dirty

(* An upgrade of the instructor completes, if the player stays, through     *)
(* outages and whatever else he does; but each further request moves its    *)
(* end (GameServer.cpp:1750), and with coin from his collections he may     *)
(* make one for ever.                                                       *)
UpgradeCompletes ==
  \/ instr # None /\ instr.status = Upgrading ~> instr = None \/ instr.status = Upgraded
  \/ []<><<UpInstructor>>_vars

--------------------------------------------------------------------------------
(* What makes the properties inductive: an upgrade under way or waiting for *)
(* its confirmation leaves room for the levels it will still add ...        *)
Room(item, max) ==
  item # None => /\ item.status = Upgrading => item.level < max
                 /\ item.status = Upgraded  => item.level <= max

RoomToRise ==
  /\ Room(instr, MaxInstr) /\ Room(instrRow, MaxInstr)
  /\ \A g \in Gids : Room(mech[g], MaxLevel) /\ Room(mechRow[g], MaxLevel)

(* ... an upgrade in memory was written to its row before it started ...     *)
UpgradeInRow ==
  \A g \in Gids : mech[g] # None =>
    /\ mechRow[g] # None
    /\ mech[g].status = Upgrading => mechRow[g].status = Upgrading

(* ... no row is ahead of the memory ...                                    *)
RowsBehind ==
  /\ online => instrRow.level <= instr.level
  /\ \A g \in Gids : mech[g] # None => mechRow[g].level <= mech[g].level

(* ... and nothing is in memory of a player who is not online.              *)
OfflineEmpty == ~online => mech = Absent /\ rec = Absent

MachinesInv ==
  TypeOK /\ WalletCoherent /\ RoomToRise /\ UpgradeInRow /\ RowsBehind /\ OfflineEmpty
================================================================================
