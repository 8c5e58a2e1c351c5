------------------------------ MODULE Accounts ------------------------------
(***************************************************************************)
(* The accounts and the ways to them (the login, registration, password    *)
(* and Facebook handlers of Server/GameServer.cpp, RegistSystem.cpp and    *)
(* their statements in DBOperator.cpp): four tables without a transaction  *)
(* around them.  A handler is a sequence of statements that commit one by  *)
(* one, any of which can fail.  A SELECT that fails is taken for one that  *)
(* found nothing.                                                          *)
(***************************************************************************)
EXTENDS Integers, Sequences, FiniteSets

CONSTANTS Names,      \* user names, which are nicknames, too
          Passwords, Macs, FbIds,
          NoName,     \* the nickname of a fresh row
          Unbound,    \* the FacebookID of a row that has none
          MaxMids,    \* bound: accounts
          MaxFaults   \* bound: statements that fail and crashes

ASSUME AccountsAssumption ==
  /\ NoName \notin Names /\ Unbound \notin FbIds
  /\ MaxMids \in Nat /\ MaxFaults \in Nat

VARIABLES nickName,      \* Player_Account: mid, counted from 1 -> nickName
          regist,        \* UserRegistTable
          passTable,     \* UserPassTable; mid, not a column, tells rows apart
          iphones,       \* IphoneRegistTable
          faults

accountVars == <<nickName, regist, passTable, iphones, faults>>

Mids == 1..MaxMids

TypeOK ==
  /\ nickName \in Seq(Names \cup {NoName}) /\ Len(nickName) \in 0..MaxMids
  /\ regist \subseteq [mid : Mids, name : Names, pass : Passwords,
                       fb : FbIds \cup {Unbound}]
  /\ passTable \subseteq [mid : Mids, name : Names, pass : Passwords]
  /\ iphones \subseteq [mid : Mids, mac : Macs]
  /\ faults \in 0..MaxFaults

Init ==
  /\ nickName = <<>>
  /\ regist = {} /\ passTable = {} /\ iphones = {}
  /\ faults = 0

-----------------------------------------------------------------------------
(* Statements that fail.                                                   *)

\* n statements in a row, of which those in done had their effect.  Stopping
\* after one of them, at a failure the handler returns from or because the
\* process dies, is one fault; otherwise each failed statement is.
Cost(n, done) ==
  CASE done = 1..n                      -> 0
    [] \E k \in 0..n - 1 : done = 1..k  -> 1
    [] OTHER                            -> n - Cardinality(done)

Fails(cost) == faults' = faults + cost /\ faults' <= MaxFaults

\* A SELECT whose handler goes on when there are no rows: blind costs a fault.
Blind(rows, blind) == rows = {} \/ blind

-----------------------------------------------------------------------------
(* Rows.                                                                   *)

RowsOf(table, n) == {r \in table : r.name = n}

NewMid == Len(nickName) + 1      \* AUTO_INCREMENT

\* A wrong GetUSerGid: takes the first of several.
GetUSerGidFirst(n) == {i \in 1..Len(nickName) :
  nickName[i] = n /\ \A j \in 1..i - 1 : nickName[j] # n}

\* The account of a nickname, if it is unique.
GetUSerGid(n) == {i \in 1..Len(nickName) :
  /\ nickName[i] = n
  /\ \A j \in 1..Len(nickName) : nickName[j] = n => j = i}

CheckUser(n, p) ==
  LET rows == {r \in regist : r.name = n /\ r.pass = p} IN Cardinality(rows) = 1

\* Handle_User_Login: the account this name and password lead to, if any.
LoginMid(n, p) == IF CheckUser(n, p) THEN GetUSerGid(n) ELSE {}

\* CheckFBUser: the rows of a Facebook id.
FbRows(f) == {r \in regist : r.fb = f}

\* CheckAndAddUser looks for the rows of the mac.
MacRows(mac) == {r \in iphones : r.mac = mac}

-----------------------------------------------------------------------------
(* The handlers that change a table.                                       *)

Named(done, call, n) == IF call \in done THEN n ELSE NoName

\* CheckAndAddUser: account, row of the mac, nickname.  Nothing is written
\* for a mac that is known; without the account nothing is, either.
IphoneLogin(mac, n) ==
  \E done \in SUBSET (1..3), blind \in BOOLEAN :
    /\ Len(nickName) < MaxMids
    /\ Blind(MacRows(mac), blind)
    /\ 1 \in done
    /\ Fails(Cost(3, done) + (IF blind THEN 1 ELSE 0))
    /\ nickName' = Append(nickName, Named(done, 3, n))
    /\ iphones' = IF 2 \in done THEN iphones \cup {[mid |-> NewMid, mac |-> mac]}
                  ELSE iphones
    /\ UNCHANGED <<regist, passTable>>

\* Handle_Regist_User: account, nickname, UserRegistTable, UserPassTable.  The
\* failure of the second and of the third goes unnoticed.
RegistUser(n, p) ==
  \E done \in SUBSET (1..4), blind \in BOOLEAN :
    /\ Len(nickName) < MaxMids
    /\ Blind(RowsOf(regist, n), blind)
    /\ 1 \in done
    /\ Fails(Cost(4, done) + (IF blind THEN 1 ELSE 0))
    /\ nickName' = Append(nickName, Named(done, 2, n))
    /\ regist' = IF 3 \in done
                 THEN regist \cup {[mid |-> NewMid, name |-> n, pass |-> p, fb |-> Unbound]}
                 ELSE regist
    /\ passTable' = IF 4 \in done
                    THEN passTable \cup {[mid |-> NewMid, name |-> n, pass |-> p]}
                    ELSE passTable
    /\ UNCHANGED iphones

\* UPDATE ... SET PassWord WHERE name, in either table.
PassSet(table, n, p) == {IF r.name = n THEN [r EXCEPT !.pass = p] ELSE r : r \in table}

\* A wrong ChangeUserPassword: the second table only gets the new password
\* when the first did not change.
ChangePassWordOnce(n, old, new) ==
  /\ CheckUser(n, old)
  /\ regist' = PassSet(regist, n, new)
  /\ passTable' = IF regist' = regist THEN PassSet(passTable, n, new) ELSE passTable
  /\ UNCHANGED <<nickName, iphones, faults>>

\* Handle_User_ChangePassWord.  An UPDATE that changes no row ends it with a
\* failure; one that fails itself does not.
ChangePassWord(n, old, new) ==
  /\ CheckUser(n, old)
  /\ \E done \in SUBSET (1..2) :
       /\ Fails(Cost(2, done))
       /\ regist' = IF 1 \in done THEN PassSet(regist, n, new) ELSE regist
       /\ passTable' = IF 2 \in done /\ (1 \in done => regist' # regist)
                       THEN PassSet(passTable, n, new) ELSE passTable
  /\ UNCHANGED <<nickName, iphones>>

\* BindFBuser: for every row of the name.
FbSet(n, f) == {IF r.name = n THEN [r EXCEPT !.fb = f] ELSE r : r \in regist}

\* A wrong FBBINGDING: does not look whether the id is bound already.
BindFbAgain(f, n, p) ==
  /\ \E r \in RowsOf(regist, n) : r.pass = p
  /\ regist' = FbSet(n, f)
  /\ UNCHANGED <<nickName, passTable, iphones, faults>>

\* Handle_User_FBBINGDING: an id that is bound is refused.  With several rows
\* of the name the password is that of the first, which may be any.
BindFb(f, n, p) ==
  \E blind \in BOOLEAN :
    /\ Blind(FbRows(f), blind)
    /\ Fails(IF blind THEN 1 ELSE 0)
    /\ \E r \in RowsOf(regist, n) : r.pass = p
    /\ regist' = FbSet(n, f)
    /\ UNCHANGED <<nickName, passTable, iphones>>

\* The same with flag 2.
UnbindFb(f, n, p) ==
  /\ \E r \in FbRows(f) : r.name = n /\ r.pass = p
  /\ regist' = FbSet(n, Unbound)
  /\ UNCHANGED <<nickName, passTable, iphones, faults>>

AccountsNext ==
  \E n \in Names :
    \/ \E mac \in Macs : IphoneLogin(mac, n)
    \/ \E p \in Passwords :
         \/ RegistUser(n, p)
         \/ \E q \in Passwords : ChangePassWord(n, p, q)
         \/ \E f \in FbIds : BindFb(f, n, p) \/ UnbindFb(f, n, p)

-----------------------------------------------------------------------------
\* The phones whose accounts have this nickname.
PhonesNamed(n) == {r \in iphones : nickName[r.mid] = n}

\* A registered user is let in where he does not belong, or kept out though no
\* phone has his name.
LoginGoesAstray(n) == \E r \in RowsOf(regist, n) :
  LoginMid(n, r.pass) # (IF PhonesNamed(n) = {} THEN {r.mid} ELSE {})

\* Handle_User_Login drops the mid it checked the password with and takes that
\* of the nickname, which phones may have, too, before or after.  Still the
\* right password leads to the account registered with it; a phone of the same
\* name can lock the user out, but never puts him into its account.  Each name
\* of which this is not true has cost a failed statement or a crash.
StrayLoginsCostAFailure == Cardinality({n \in Names : LoginGoesAstray(n)}) <= faults

PassesIn(table, n) == {r.pass : r \in RowsOf(table, n)}

\* The two tables with the password of a name agree ("two table change",
\* GameServer.cpp:351), but for one name per failed statement or crash; later
\* changes never make it worse.
PasswordsAgree ==
  Cardinality({n \in Names : PassesIn(regist, n) # PassesIn(passTable, n)}) <= faults

\* A phone with two rows is refused for ever, a name with two rows cannot be
\* befriended, a Facebook id with two names cannot log on: each of these
\* costs a SELECT that has failed.
AmbiguityCostsAFailure ==
  /\ Cardinality({mac \in Macs : Cardinality(MacRows(mac)) > 1})
       + Cardinality({n \in Names : Cardinality(RowsOf(regist, n)) > 1})
       + Cardinality({f \in FbIds : Cardinality({r.name : r \in FbRows(f)}) > 1})
     <= faults
=============================================================================
