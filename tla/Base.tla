-------------------------------- MODULE Base --------------------------------
(***************************************************************************)
(* The base of a user (CheckUserBase and UpdateUserBase in DBOperator.cpp, *)
(* Handle_User_Buy_Enlarge_Table and the part of OnLogon in GameServer.cpp *)
(* that loads it).  The UPDATE is given ten values for nine places: each   *)
(* goes to the next column, and the condition is the new height where the  *)
(* user should be.  It is modelled as it is.                               *)
(***************************************************************************)
EXTENDS Integers, Sequences, FiniteSets

CONSTANTS Users,                 \* mids
          Widths, Height,        \* BaseEnlargeTable: sizex, and sizey of each
          Price, BuildTime,      \* the same for each of its rows
          StartSize, StartWall,  \* config.xml: 7 and 3
          StartMoney,
          Offline,
          Times,                 \* what GetUnixTime returns
          MaxFailures            \* bound: statements that fail and crashes

ASSUME BaseAssumption ==
  /\ Users \subseteq Nat \ {0}
  /\ Widths \subseteq Nat /\ Height \in [Widths -> Nat \ {0}]
  /\ Price \in Nat \ {0} /\ BuildTime \in Nat /\ StartMoney \in Nat
  /\ StartSize \in Nat /\ StartWall \in Nat
  /\ Times \subseteq Nat /\ MaxFailures \in Nat

VARIABLES base,      \* UserBaseTable, by Gid
          money,     \* Player_Account, one currency
          player,    \* what a CPlayer keeps of it, or Offline
          failures

baseVars == <<base, money, player, failures>>

\* Size, walls, size after the enlargement under way.
BaseRow == [mid : Nat, x : Nat, y : Nat, status : Nat, endtimer : Nat,
            wallx : Nat, wally : Nat, ex : Nat, ey : Nat]

Loaded == [money : Nat, width : Nat]

BaseTypeOK ==
  /\ base \in Seq(BaseRow)
  /\ money \in [Users -> Nat]
  /\ player \in [Users -> Loaded \cup {Offline}]
  /\ failures \in 0..MaxFailures

BaseInit ==
  /\ base = <<>>
  /\ money = [u \in Users |-> StartMoney]
  /\ player = [u \in Users |-> Offline]
  /\ failures = 0

-----------------------------------------------------------------------------
(* The two statements.                                                     *)

NewBase(u) == [mid |-> u, x |-> StartSize, y |-> StartSize, status |-> 0, endtimer |-> 0,
               wallx |-> StartSize, wally |-> StartWall, ex |-> 0, ey |-> 0]

\* What is read from a result without rows.
NoBase == [mid |-> 0, x |-> 0, y |-> 0, status |-> 0, endtimer |-> 0,
           wallx |-> 0, wally |-> 0, ex |-> 0, ey |-> 0]

BasesOf(u) == {g \in DOMAIN base : base[g].mid = u}

\* A wrong CheckUserBase: without the UPDATE that gives the new row its user.
CheckedWithoutMid(u) ==
  IF BasesOf(u) = {} THEN [base |-> Append(base, NewBase(0)), info |-> NoBase]
  ELSE [base |-> base, info |-> base[CHOOSE g \in BasesOf(u) : \A h \in BasesOf(u) : g <= h]]

\* CheckUserBase.  Without a row it makes one and goes on to read the result,
\* which the INSERT and the UPDATE have cleared.
Checked(u) ==
  IF BasesOf(u) = {} THEN [base |-> Append(base, NewBase(u)), info |-> NoBase]
  ELSE [base |-> base, info |-> base[CHOOSE g \in BasesOf(u) : \A h \in BasesOf(u) : g <= h]]

\* CheckUserBase cut short.  INSERT and UPDATE are tried when there is no row,
\* or when the SELECT failed; then reading the result ends the process.
Unchecked(u) ==
  LET blind  == IF BasesOf(u) = {} THEN 0 ELSE 1
      nobody == Append(base, NewBase(0))
  IN  {[base |-> base,   dies |-> FALSE, cost |-> blind + 1],
       [base |-> nobody, dies |-> FALSE, cost |-> blind + 1],
       [base |-> base,   dies |-> TRUE,  cost |-> 1],
       [base |-> nobody, dies |-> TRUE,  cost |-> blind + 1],
       [base |-> Append(base, NewBase(u)), dies |-> TRUE, cost |-> 1]}

\* What UpdateUserBase writes into a row, column by column.
Shifted(row, u, info) ==
  [mid |-> row.mid, x |-> u, y |-> info.x, status |-> info.y, endtimer |-> info.status,
   wallx |-> info.endtimer, wally |-> info.wallx, ex |-> info.wally, ey |-> info.ex]

\* UpdateUserBase, which fails when no row changes.
Updated(rows, u, info) ==
  [g \in DOMAIN rows |-> IF rows[g].mid = info.ey THEN Shifted(rows[g], u, info) ELSE rows[g]]

-----------------------------------------------------------------------------
(* Handlers.                                                               *)

Failing(cost) == failures' = failures + cost /\ failures' <= MaxFailures

Everybody == [u \in Users |-> Offline]

\* OnLogon when CheckUserBase succeeds: an enlargement that is over is ended,
\* and if that cannot be written, is not.
LoadBase(u) ==
  \E now \in Times, failed \in BOOLEAN :
    LET info  == Checked(u).info
        over  == info.status = 1 /\ info.endtimer <= now
        ended == [info EXCEPT !.status = 0, !.endtimer = 0, !.x = info.ex, !.y = info.ey,
                              !.ex = 0, !.ey = 0, !.wallx = info.ex]
    IN  /\ failed => over
        /\ Failing(IF failed THEN 1 ELSE 0)
        /\ base' = IF over /\ ~failed THEN Updated(Checked(u).base, u, ended)
                   ELSE Checked(u).base
        /\ player' = [player EXCEPT ![u] =
             [money |-> money[u],
              width |-> IF base' = Checked(u).base THEN info.x ELSE info.ex]]
        /\ UNCHANGED money

\* OnLogon when it does not: the CPlayer keeps the width it has.
LoadNoBase(u) ==
  \E cut \in Unchecked(u) :
    /\ Failing(cut.cost)
    /\ base' = cut.base
    /\ player' = IF cut.dies THEN Everybody
                 ELSE [player EXCEPT ![u] =
                   [money |-> money[u],
                    width |-> IF player[u] = Offline THEN StartSize ELSE player[u].width]]
    /\ UNCHANGED money

Logout(u) ==
  /\ player[u] # Offline
  /\ player' = [player EXCEPT ![u] = Offline]
  /\ UNCHANGED <<base, money, failures>>

CanBuy(u) ==
  /\ player[u] # Offline
  /\ player[u].width + 1 \in Widths
  /\ player[u].money >= Price

\* What it asks UpdateUserBase to write.
Enlarged(u, now) ==
  LET width == player[u].width + 1
  IN  [Checked(u).info EXCEPT !.status = 1, !.endtimer = now + BuildTime,
                              !.ex = width, !.ey = Height[width]]

\* A wrong Handle_User_Buy_Enlarge_Table: takes the money first.
PayFirst(u) ==
  /\ CanBuy(u)
  /\ \E now \in Times :
       /\ base' = Updated(Checked(u).base, u, Enlarged(u, now))
       /\ money' = [money EXCEPT ![u] = @ - Price]
       /\ player' = [player EXCEPT ![u].money = @ - Price]
  /\ UNCHANGED failures

\* Another one: the copy in memory before the account.
CopyFirst(u) ==
  /\ CanBuy(u)
  /\ \E now \in Times : base' = Updated(Checked(u).base, u, Enlarged(u, now))
  /\ base' # base
  /\ player' = [player EXCEPT ![u].money = @ - Price]
  /\ \/ money' = [money EXCEPT ![u] = @ - Price] /\ UNCHANGED failures
     \/ UNCHANGED money /\ Failing(1)

\* Handle_User_Buy_Enlarge_Table: UpdateUserBase, then UpdateUserMoney, then
\* the copy in memory.
BuyEnlarge(u) ==
  /\ CanBuy(u)
  /\ \E now \in Times :
       LET rows    == Checked(u).base
           written == Updated(rows, u, Enlarged(u, now))
       IN  \/ /\ Checked(u).info.status # 1 /\ written # rows
              /\ base' = written
              /\ money' = [money EXCEPT ![u] = player[u].money - Price]
              /\ player' = [player EXCEPT ![u].money = @ - Price]
              /\ UNCHANGED failures
\* The money cannot be taken, and the base is written.
           \/ /\ Checked(u).info.status # 1 /\ written # rows
              /\ base' = written
              /\ Failing(1)
              /\ player' \in {player, Everybody}
              /\ UNCHANGED money
           \/ /\ Checked(u).info.status = 1 \/ written = rows
              /\ base' = rows
              /\ UNCHANGED <<money, player, failures>>

\* The same when CheckUserBase, or after it UpdateUserBase, fails.
BuyFails(u) ==
  /\ CanBuy(u)
  /\ \/ \E cut \in Unchecked(u) :
          /\ Failing(cut.cost)
          /\ base' = cut.base
          /\ player' = IF cut.dies THEN Everybody ELSE player
     \/ /\ Failing(1)
        /\ base' = Checked(u).base
        /\ player' \in {player, Everybody}
  /\ UNCHANGED money

BaseNext ==
  \E u \in Users : LoadBase(u) \/ LoadNoBase(u) \/ Logout(u) \/ BuyEnlarge(u) \/ BuyFails(u)

BaseSpec == BaseInit /\ [][BaseNext]_baseVars

-----------------------------------------------------------------------------
\* What an online user can spend is what his account has, whichever statement
\* of a purchase failed.
MoneyIsTheAccount ==
  \A u \in Users : player[u] # Offline => player[u].money = money[u]

\* Nobody pays when no base was written: of the two statements of a purchase
\* the one that takes the money is the second.
PaidIsWritten ==
  [][\A u \in Users : money'[u] < money[u] => /\ money'[u] = money[u] - Price
                                              /\ base' # base]_baseVars

\* A user has one row; each further one, and each that belongs to nobody, took
\* a statement that failed or a crash.
RowsAreCounted ==
  Len(base) <= Cardinality({u \in Users : BasesOf(u) # {}}) + failures

\* "user buy enlarge success enlarging": who is charged then has a base that is
\* being enlarged.  He has not: the condition of the UPDATE is the new height,
\* so that another row is written, and in that one the status is a size.
EnlargementArrives ==
  [][\A u \in Users : money'[u] < money[u] =>
       \E g \in DOMAIN base' : base'[g].mid = u /\ base'[g].status = 1]_baseVars
=============================================================================
