------------------------------ MODULE Friends ------------------------------
(***************************************************************************)
(* Friends (Handle_User_Add_FriendAccept, Handle_User_Delete_Friend and    *)
(* Handle_User_Get_Friend_List in Server/GameServer.cpp with their         *)
(* statements in DBOperator.cpp) on top of Accounts.  A friendship is two  *)
(* rows of MemberShip, written and deleted by two statements; the table    *)
(* has no key, so a row can be there twice.                                *)
(***************************************************************************)
EXTENDS Accounts

CONSTANT PageSize      \* pageConst

ASSUME FriendsAssumption == Names \subseteq Nat /\ PageSize \in Nat \ {0}

VARIABLE memberShip    \* <<UserName, FriendName>> -> how many rows

vars == <<accountVars, memberShip>>

FriendsTypeOK == TypeOK /\ memberShip \in [Names \X Names -> Nat]

FriendsInit == Init /\ memberShip = [pair \in Names \X Names |-> 0]

IsAFriend(me, f) == memberShip[<<me, f>>] > 0

Inserted(table, me, f) == [table EXCEPT ![<<me, f>>] = @ + 1]
Deleted(table, me, f)  == [table EXCEPT ![<<me, f>>] = 0]

\* CheckAddFriend wants exactly one user of the name; of the two checks for
\* a friendship one that fails is enough to go on.  AddFriend goes on to its
\* second INSERT when the first fails.
AcceptFriend(me, f) ==
  /\ RowsOf(regist, me) # {} /\ Cardinality(RowsOf(regist, f)) = 1
  /\ \E done \in SUBSET (1..2), blind \in BOOLEAN :
       /\ ~IsAFriend(me, f) \/ blind
       /\ Fails(Cost(2, done) + (IF blind THEN 1 ELSE 0))
       /\ LET first == IF 1 \in done THEN Inserted(memberShip, me, f) ELSE memberShip
          IN  memberShip' = IF 2 \in done THEN Inserted(first, f, me) ELSE first
  /\ UNCHANGED <<nickName, regist, passTable, iphones>>

\* A wrong DeleteFriend: only the row of the one who asks.
DeleteFriendHalf(me, f) ==
  /\ memberShip' = Deleted(memberShip, me, f)
  /\ UNCHANGED accountVars

\* DelFriend && DelFriend: when the first deletes nothing, or fails, the row
\* of the other side stays.
DeleteFriend(me, f) ==
  /\ RowsOf(regist, me) # {} /\ IsAFriend(me, f)
  /\ \E k \in 1..2 :
       /\ Fails(Cost(2, 1..k))
       /\ LET first == Deleted(memberShip, me, f)
          IN  memberShip' = IF k = 2 THEN Deleted(first, f, me) ELSE first
  /\ UNCHANGED <<nickName, regist, passTable, iphones>>

FriendsNext ==
  \/ AccountsNext /\ UNCHANGED memberShip
  \/ \E me, f \in Names : AcceptFriend(me, f) \/ DeleteFriend(me, f)

FriendsSpec == FriendsInit /\ [][FriendsNext]_vars

-----------------------------------------------------------------------------
(* What Handle_User_Get_Friend_List answers.                               *)

\* The rows of a user, as many of a friend as there are of the pair.
FriendRows(me) == UNION {{f} \X (1..memberShip[<<me, f>>]) : f \in Names}

\* The rows that a sorted list has before this one.
Before(rows, row) ==
  {r \in rows : r[1] < row[1] \/ (r[1] = row[1] /\ r[2] < row[2])}

\* m_sfriends, sorted: a friend once per row.
FriendList(me) ==
  LET rows == FriendRows(me)
  IN  [i \in 1..Cardinality(rows) |->
         (CHOOSE row \in rows : Cardinality(Before(rows, row)) = i - 1)[1]]

\* A wrong PageNums: the last page must be full.
FullPages(n) == n \div PageSize

PageNums(n) == n \div PageSize + (IF n % PageSize = 0 THEN 0 ELSE 1)

Smaller(a, b) == IF a < b THEN a ELSE b

\* The loop copies from the first entry of the page and stops after the last
\* entry of the list.
Page(list, index) ==
  IF index \in 1..PageNums(Len(list))
  THEN SubSeq(list, PageSize * (index - 1) + 1, Smaller(PageSize * index, Len(list)))
  ELSE <<>>

\* What a client has seen that asked for page after page until one was empty.
Seen(list) ==
  LET last == PageNums(Len(list))
      seen[i \in 0..last] == IF i = 0 THEN <<>> ELSE seen[i - 1] \o Page(list, i)
  IN  seen[last]

-----------------------------------------------------------------------------
\* Either two users are friends of each other or not at all, and once, but
\* for one pair of them per failed statement or crash between the two rows.
FriendsMutual ==
  /\ Cardinality({pair \in Names \X Names :
        /\ pair[1] < pair[2]
        /\ memberShip[pair] # memberShip[<<pair[2], pair[1]>>]}) <= faults
  /\ \A a, b \in Names : a # b => memberShip[<<a, b>>] <= 1 + faults

\* A client that asks for page after page until one is empty has seen every
\* friend, once per row and in order.
PagesCover ==
  \A me \in Names :
    LET list == FriendList(me)
    IN  /\ Seen(list) = list
        /\ \A i \in 1..PageNums(Len(list)) : Page(list, i) # <<>>
        /\ \A i \in 1..Len(list) - 1 : list[i] <= list[i + 1]
        /\ \A f \in Names : IsAFriend(me, f) <=> \E i \in 1..Len(list) : list[i] = f
=============================================================================
