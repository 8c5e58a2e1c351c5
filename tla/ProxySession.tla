---------------------------- MODULE ProxySession ----------------------------
(***************************************************************************)
(* The players of the one connection to the hall (Server/CentServer.cpp,   *)
(* CentHandler.cpp, PlayerMgr.cpp and the session part of GameServer.cpp). *)
(* The hall tells its clients apart by a proxy id.  The id of the packet   *)
(* under way is kept in the handler, m_proxyList maps an id to a pointer   *)
(* to a CPlayer, and PlayerMgr maps a user to the same pointer.            *)
(*                                                                         *)
(* A CPlayer is a cell of the heap.  A freed cell keeps its contents until *)
(* it is allocated again: what a pointer to it yields is one outcome of    *)
(* using freed memory, Crash is the other one.                             *)
(***************************************************************************)
EXTENDS Integers

CONSTANTS Users,      \* user ids
          Proxies,    \* proxy ids the hall uses
          Addr,       \* addresses a CPlayer can have
          NoUser, Absent, Null

ASSUME SessionAssumption ==
  /\ Proxies \subseteq Nat
  /\ NoUser \notin Users
  /\ Absent \notin Addr /\ Null \notin Addr /\ Absent # Null

NoProxy   == -1
MaxLoads  == 2      \* bound: filled twice stands for more often

VARIABLES connected,   \* m_bIsConnect
          m_proxyList, \* proxy id -> pointer, Null, or Absent
          m_players,   \* user -> pointer or Absent
          heap,        \* address -> the CPlayer that lives or lived there
          m_proxyId,   \* the proxy id of the last packet
          session,     \* whom the hall has logged on at each proxy id
          clean        \* the hall has used each user and id as it should

vars == <<connected, m_proxyList, m_players, heap, m_proxyId, session, clean>>

CPlayerType == [user : Users \cup {NoUser}, live : BOOLEAN, loads : 0..MaxLoads]

TypeOK ==
  /\ connected \in BOOLEAN /\ clean \in BOOLEAN
  /\ m_proxyList \in [Proxies -> Addr \cup {Absent, Null}]
  /\ m_players \in [Users -> Addr \cup {Absent}]
  /\ heap \in [Addr -> CPlayerType]
  /\ m_proxyId \in Proxies \cup {NoProxy}
  /\ session \in [Proxies -> Users \cup {NoUser}]

Init ==
  /\ connected = FALSE
  /\ m_proxyList = [p \in Proxies |-> Absent]
  /\ m_players = [u \in Users |-> Absent]
  /\ heap = [a \in Addr |-> [user |-> NoUser, live |-> FALSE, loads |-> 0]]
  /\ m_proxyId = NoProxy
  /\ session = [p \in Proxies |-> NoUser]
  /\ clean = TRUE

-----------------------------------------------------------------------------
(* Lookups and the steps that close a session.                             *)

GetUserData(p) == IF m_proxyList[p] = Absent THEN Null ELSE m_proxyList[p]

\* A wrong DelPlayer: the user who logs out stays in the map.
DelPlayerForgotten(table, u) == table

DelPlayer(table, u) == [table EXCEPT ![u] = Absent]

Freed(cells, a) == [cells EXCEPT ![a].live = FALSE]

\* A wrong ProcessClose: the session ends, the CPlayer stays.
ProcessCloseKeeps(p) == [table |-> m_players, cells |-> heap]

\* A wrong ProcessClose: OnLogout, but no delete.
ProcessCloseLeaks(p) ==
  [table |-> IF GetUserData(p) = Null THEN m_players
             ELSE DelPlayer(m_players, heap[GetUserData(p)].user),
   cells |-> heap]

\* The tables after ProcessClose for the session of proxy p, if it has one.
\* For a pointer that dangles, the user is what the freed cell still holds.
ProcessClose(p) ==
  LET a == GetUserData(p)
  IN  IF a = Null
      THEN [table |-> m_players, cells |-> heap]
      ELSE [table |-> DelPlayer(m_players, heap[a].user), cells |-> Freed(heap, a)]

\* 0 is no proxy id: OnProxyConnect enters nothing for it.
OnProxyConnect(p) == IF p = 0 THEN m_proxyList ELSE [m_proxyList EXCEPT ![p] = Null]

SetUserData(list, p, a) == IF list[p] = Absent THEN list ELSE [list EXCEPT ![p] = a]

-----------------------------------------------------------------------------
(* Logging on.                                                             *)

\* GetUserGameInfo finds no such account: a refusal, and a proxy entry
\* without a player.
LogonRefused(p, closed) ==
  /\ m_proxyList' = OnProxyConnect(p)
  /\ m_players' = closed.table
  /\ heap' = closed.cells
  /\ session' = [session EXCEPT ![p] = NoUser]
  /\ UNCHANGED clean

\* What a successful logon leaves, with the CPlayer at address a.
LoggedOn(p, u, a) ==
  /\ m_proxyList' = SetUserData(OnProxyConnect(p), p, a)
  /\ session' = [session EXCEPT ![p] = u]
  /\ clean' = (clean /\ p # 0 /\ \A q \in Proxies \ {p} : session[q] # u)

AlreadyOn(u, closed) == closed.table[u] # Absent

\* addPlayer returns the CPlayer that exists; OnLogon fills its lists again.
LogonShared(p, u, closed) ==
  /\ AlreadyOn(u, closed)
  /\ LET a == closed.table[u] IN
       /\ LoggedOn(p, u, a)
       /\ heap' = [closed.cells EXCEPT
                     ![a].loads = IF @ = MaxLoads THEN @ ELSE @ + 1]
       /\ m_players' = closed.table

\* addPlayer makes one, anywhere in free memory.
LogonNew(p, u, a, closed) ==
  /\ ~AlreadyOn(u, closed)
  /\ ~closed.cells[a].live
  /\ LoggedOn(p, u, a)
  /\ heap' = [closed.cells EXCEPT ![a] = [user |-> u, live |-> TRUE, loads |-> 1]]
  /\ m_players' = [closed.table EXCEPT ![u] = a]

\* COMMAND_USER_LOGIN and its two siblings: a proxy that is known is logged
\* out first, then Handle_Logon finds no user data.
HandleProxyLogin(p, u) ==
  /\ connected
  /\ m_proxyId' = p
  /\ LET closed == ProcessClose(p) IN
       \/ LogonRefused(p, closed)
       \/ LogonShared(p, u, closed)
       \/ \E a \in Addr : LogonNew(p, u, a, closed)
  /\ UNCHANGED connected

HandleProxyLogout(p) ==
  /\ connected
  /\ m_proxyId' = p
  /\ LET closed == ProcessClose(p) IN
       /\ m_players' = closed.table
       /\ heap' = closed.cells
  /\ m_proxyList' = [m_proxyList EXCEPT ![p] = Absent]
  /\ session' = [session EXCEPT ![p] = NoUser]
  /\ UNCHANGED <<connected, clean>>

-----------------------------------------------------------------------------
(* The other packets and the timers.                                       *)

\* Every other command of a client, and CENTER_USER_MSG, which the hall has
\* for a user: SetProxy keeps the proxy id of the packet.  Whose request it
\* is says GetUserData; the handlers refuse without one.
Request(p) ==
  /\ connected
  /\ m_proxyId' = p
  /\ UNCHANGED <<connected, m_proxyList, m_players, heap, session, clean>>

\* A packet whose command is outside the fences, such as the heartbeat.
SetProxyNone ==
  /\ connected
  /\ m_proxyId' = NoProxy
  /\ UNCHANGED <<connected, m_proxyList, m_players, heap, session, clean>>

\* What CPlayer::SendMsg does for the player at a at this moment, in a
\* request or in a timer: the handler puts the last proxy id into the packet.
SendMsg(a) == [for |-> heap[a].user, to |-> m_proxyId]

-----------------------------------------------------------------------------
(* The connection.                                                         *)

OnConnect ==
  /\ ~connected
  /\ connected' = TRUE
  /\ UNCHANGED <<m_proxyList, m_players, heap, m_proxyId, session, clean>>

Registered == {m_players[u] : u \in Users}

\* PlayerMgr::ShutDown walks the map while DelPlayer erases from it: either
\* it gets through, as here, or it ends in Crash.
OnDisconnect ==
  /\ connected
  /\ connected' = FALSE
  /\ heap' = [a \in Addr |->
                IF a \in Registered THEN [heap[a] EXCEPT !.live = FALSE] ELSE heap[a]]
  /\ m_players' = [u \in Users |-> Absent]
  /\ m_proxyList' = [p \in Proxies |-> Absent]
  /\ session' = [p \in Proxies |-> NoUser]
  /\ UNCHANGED <<m_proxyId, clean>>

\* The process dies, of what it does with freed memory or otherwise, and is
\* started again.
Crash ==
  /\ connected' = FALSE
  /\ m_proxyList' = [p \in Proxies |-> Absent]
  /\ m_players' = [u \in Users |-> Absent]
  /\ heap' = [a \in Addr |-> [user |-> NoUser, live |-> FALSE, loads |-> 0]]
  /\ m_proxyId' = NoProxy
  /\ session' = [p \in Proxies |-> NoUser]
  /\ clean' = TRUE

Next ==
  \/ OnConnect \/ OnDisconnect \/ Crash \/ SetProxyNone
  \/ \E p \in Proxies :
       \/ HandleProxyLogout(p) \/ Request(p)
       \/ \E u \in Users : HandleProxyLogin(p, u)

Spec == Init /\ [][Next]_vars

-----------------------------------------------------------------------------
\* What PlayerMgr hands out (GetPlayer, SendMsgToAll) is never freed memory
\* and is the player it is asked for, whatever the hall does: sessions that
\* share a player, pointers that dangle and cells that are used again.
RegisteredAlive ==
  \A u \in Users : m_players[u] # Absent =>
    heap[m_players[u]].live /\ heap[m_players[u]].user = u

\* As long as the hall logs a user on at one proxy at a time, a session
\* points to the living, registered player of its own user, whose lists were
\* filled once; without a logon it points to nobody.
SessionsOwn ==
  clean => \A p \in Proxies :
    /\ session[p] = NoUser => GetUserData(p) = Null
    /\ session[p] # NoUser =>
         /\ GetUserData(p) # Null
         /\ m_players[session[p]] = GetUserData(p)
         /\ heap[GetUserData(p)] = [user |-> session[p], live |-> TRUE, loads |-> 1]

\* Under the same condition no CPlayer outlives its session (its timers
\* would go on): each living one belongs to exactly one proxy.
NoOrphan ==
  clean => \A a \in Addr : heap[a].live =>
    \E p \in Proxies : \A q \in Proxies : m_proxyList[q] = a <=> q = p

\* When the check timer of a player completes something, which may be at any
\* moment, what it says reaches him ("complete the upgrade, send on our own
\* account", Player.cpp:179).  It does not: it goes to the last proxy.
TimerReachesUser ==
  clean => \A a \in Addr : heap[a].live =>
    LET m == SendMsg(a) IN m.to \in Proxies /\ session[m.to] = m.for
=============================================================================
