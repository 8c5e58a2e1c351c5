----------------------------- MODULE Messages -----------------------------
(***************************************************************************)
(* Messages of users to each other (Handle_User_Add_FriendMessage,         *)
(* Handle_User_Send_Message_To_APN, Handle_User_Change_Message_State and   *)
(* Handle_User_Get_Message_List in Server/GameServer.cpp with their        *)
(* statements in DBOperator.cpp) on top of Friends, and the app of a user  *)
(* that reads them page after page, a request for each, while others send  *)
(* and the user deletes.                                                   *)
(***************************************************************************)
EXTENDS Friends

CONSTANTS Readers,      \* users whose app reads
          Flags,        \* what an app may ask UpdateMessage for
          MaxMessages   \* bound: messages ever sent

ASSUME MessagesAssumption ==
  Readers \subseteq Names /\ Flags \subseteq Nat /\ MaxMessages \in Nat

Unread == 2

VARIABLES userMessage,  \* UserMessageTable
          lastId,       \* its AUTO_INCREMENT
          reading       \* external: where the app of a user is

messageVars == <<userMessage, lastId, reading>>
allVars == <<vars, messageVars>>

MessageRow == [messageid : 1..MaxMessages, recename : Names, sendername : Names,
               state : {Unread} \cup (Flags \ {0})]

\* The page to ask for next, what was shown, what was there when the first
\* page was, how many were deleted since, and whether a page was empty.
Reading == [page : Nat \ {0}, shown : Seq(1..MaxMessages),
            there : SUBSET (1..MaxMessages), removed : Nat, over : BOOLEAN]

MessagesTypeOK ==
  /\ FriendsTypeOK
  /\ userMessage \subseteq MessageRow
  /\ \A r, s \in userMessage : r.messageid = s.messageid => r = s
  /\ lastId \in 0..MaxMessages /\ \A r \in userMessage : r.messageid <= lastId
  /\ reading \in [Names -> Reading]

FirstPage(there) ==
  [page |-> 1, shown |-> <<>>, there |-> there, removed |-> 0, over |-> FALSE]

MessagesInit ==
  /\ FriendsInit
  /\ userMessage = {} /\ lastId = 0
  /\ reading = [me \in Names |-> [FirstPage({}) EXCEPT !.over = TRUE]]

-----------------------------------------------------------------------------
(* The messages of a user, by their ids.                                   *)

MessagesOf(me) == {r \in userMessage : r.recename = me}

IdsOf(rows) == {r.messageid : r \in rows}

Below(ids, id) == {i \in ids : i < id}

\* A wrong myfunction: the newest first.
NewestFirst(me) ==
  LET ids == IdsOf(MessagesOf(me))
  IN  [k \in 1..Cardinality(ids) |->
         CHOOSE id \in ids : Cardinality(Below(ids, id)) = Cardinality(ids) - k]

\* GetMessageInfoList, sorted with myfunction.
MessageList(me) ==
  LET ids == IdsOf(MessagesOf(me))
  IN  [k \in 1..Cardinality(ids) |->
         CHOOSE id \in ids : Cardinality(Below(ids, id)) = k - 1]

-----------------------------------------------------------------------------
\* INSERT INTO UserMessageTable.
AddMessage(to, from) ==
  /\ lastId < MaxMessages
  /\ lastId' = lastId + 1
  /\ userMessage' = userMessage \cup
       {[messageid |-> lastId + 1, recename |-> to, sendername |-> from, state |-> Unread]}
  /\ UNCHANGED <<nickName, regist, passTable, iphones, memberShip, reading>>

\* Handle_User_Add_FriendMessage: friends are refused, and names that are
\* not exactly one user's.  A CheckIsAFriend that fails has found no friend.
AddFriendMessage(me, f) ==
  /\ RowsOf(regist, me) # {} /\ Cardinality(RowsOf(regist, f)) = 1
  /\ \E blind \in BOOLEAN :
       /\ ~IsAFriend(me, f) \/ blind
       /\ Fails(IF blind THEN 1 ELSE 0)
  /\ AddMessage(f, me)

\* Handle_User_Send_Message_To_APN: to anyone.
SendMessage(me, to) ==
  /\ RowsOf(regist, me) # {}
  /\ AddMessage(to, me)
  /\ UNCHANGED faults

Between(me, f) == {r \in userMessage : r.recename = me /\ r.sendername = f}

\* Handle_User_Change_Message_State, UpdateMessage: all that me has of f, also
\* those me has never seen.
ChangeMessageState(me, f, flag) ==
  LET rows == Between(me, f)
  IN  /\ RowsOf(regist, me) # {}
      /\ userMessage' = (userMessage \ rows) \cup
           (IF flag = 0 THEN {} ELSE {[r EXCEPT !.state = flag] : r \in rows})
      /\ reading' = IF flag = 0 /\ ~reading[me].over
                    THEN [reading EXCEPT ![me].removed = @ + Cardinality(rows)]
                    ELSE reading
      /\ UNCHANGED <<vars, lastId>>

\* Handle_User_Get_Message_List for the first page, or the next of a reading.
GetMessageList(me, index) ==
  /\ RowsOf(regist, me) # {}
  /\ index = 1 \/ (index = reading[me].page /\ ~reading[me].over)
  /\ LET was == IF index = 1 THEN FirstPage(IdsOf(MessagesOf(me))) ELSE reading[me]
         list == MessageList(me)
     IN  reading' = [reading EXCEPT ![me] =
           IF index > PageNums(Len(list)) THEN [was EXCEPT !.over = TRUE]
           ELSE [was EXCEPT !.page = index + 1, !.shown = @ \o Page(list, index)]]
  /\ UNCHANGED <<vars, userMessage, lastId>>

\* The same when the SELECT fails: RowCount of a null result ends the process,
\* and the app asks again.
GetMessageListFails ==
  /\ Fails(1)
  /\ UNCHANGED <<nickName, regist, passTable, iphones, memberShip, messageVars>>

MessagesNext ==
  \/ FriendsNext /\ UNCHANGED messageVars
  \/ \E me, f \in Names :
       \/ AddFriendMessage(me, f)
       \/ SendMessage(me, f)
       \/ \E flag \in Flags : ChangeMessageState(me, f, flag)
  \/ \E me \in Readers : \E index \in {1, reading[me].page} : GetMessageList(me, index)
  \/ GetMessageListFails

MessagesSpec == MessagesInit /\ [][MessagesNext]_allVars

-----------------------------------------------------------------------------
\* An app never shows a message twice, nor an older one after a newer, whatever
\* is sent or deleted between its pages.
ShownInOrder ==
  \A me \in Names : LET shown == reading[me].shown
                    IN  \A i, j \in 1..Len(shown) : i < j => shown[i] < shown[j]

UnreadOf(me) == {r \in MessagesOf(me) : r.state = Unread}

\* No unread message is lost between two pages: an app that has asked until a
\* page was empty has shown every message that was there at its first page and
\* is still there, unread, but for at most as many as were deleted meanwhile.
\* What arrives pushes none off a page, nor does marking messages as read.
\* Whether those that are marked belong in the list, too, is left open.
MissedAreCounted ==
  \A me \in Names : LET app == reading[me]
                    IN  app.over =>
    Cardinality({id \in IdsOf(UnreadOf(me)) \cap app.there :
                   \A k \in 1..Len(app.shown) : app.shown[k] # id}) <= app.removed
=============================================================================
