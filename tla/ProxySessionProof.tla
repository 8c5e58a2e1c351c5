------------------------- MODULE ProxySessionProof -------------------------
(***************************************************************************)
(* What ProxySession promises, for any users, proxy ids and addresses.     *)
(* RegisteredAlive is inductive with the types.  SessionsOwn and NoOrphan  *)
(* need Own, which says the same of all four tables at once, so that it    *)
(* can be stated of the tables in the middle of a logon, too.              *)
(***************************************************************************)
EXTENDS ProxySession, TLAPS

Tables(l, t, c, s) ==
  /\ l \in [Proxies -> Addr \cup {Absent, Null}]
  /\ t \in [Users -> Addr \cup {Absent}]
  /\ c \in [Addr -> CPlayerType]
  /\ s \in [Proxies -> Users \cup {NoUser}]

Alive(t, c) == \A u \in Users : t[u] # Absent => c[t[u]].live /\ c[t[u]].user = u

Own(l, t, c, s) ==
  /\ \A p \in Proxies : s[p] = NoUser => l[p] \in {Absent, Null}
  /\ \A p \in Proxies : s[p] # NoUser =>
       /\ l[p] \in Addr
       /\ t[s[p]] = l[p]
       /\ c[l[p]] = [user |-> s[p], live |-> TRUE, loads |-> 1]
  /\ \A p, q \in Proxies : s[p] = s[q] /\ s[p] # NoUser => p = q
  /\ \A u \in Users : t[u] # Absent => \E p \in Proxies : s[p] = u
  /\ \A a \in Addr : c[a].live => \E u \in Users : t[u] = a

\* The proxy id 0 never has an entry.
NoZero == 0 \in Proxies => m_proxyList[0] = Absent

Inv ==
  /\ TypeOK
  /\ NoZero
  /\ Alive(m_players, heap)
  /\ clean => Own(m_proxyList, m_players, heap, session)

-----------------------------------------------------------------------------
(* ProcessClose: the tables after a session has ended.                     *)

LEMMA CloseTables ==
  ASSUME Inv, NEW p \in Proxies
  PROVE  /\ ProcessClose(p).table \in [Users -> Addr \cup {Absent}]
         /\ ProcessClose(p).cells \in [Addr -> CPlayerType]
         /\ Alive(ProcessClose(p).table, ProcessClose(p).cells)
<1> USE SessionAssumption
<1> DEFINE a == GetUserData(p)
<1>1. a \in Addr \cup {Null}
  BY DEF Inv, TypeOK, GetUserData
<1>2. CASE a = Null
  BY <1>2 DEF Inv, TypeOK, ProcessClose
<1>3. CASE a \in Addr
  <2>1. /\ ProcessClose(p).table = DelPlayer(m_players, heap[a].user)
        /\ ProcessClose(p).cells = Freed(heap, a)
    BY <1>3 DEF ProcessClose
  <2>2. DelPlayer(m_players, heap[a].user) \in [Users -> Addr \cup {Absent}]
    BY DEF Inv, TypeOK, DelPlayer
  <2>3. heap \in [Addr -> CPlayerType]
    BY DEF Inv, TypeOK
  <2>4. Freed(heap, a) \in [Addr -> CPlayerType]
    BY <1>3, <2>3 DEF Freed, CPlayerType
  <2>5. Alive(DelPlayer(m_players, heap[a].user), Freed(heap, a))
    <3> SUFFICES ASSUME NEW u \in Users, DelPlayer(m_players, heap[a].user)[u] # Absent
                 PROVE  LET m == DelPlayer(m_players, heap[a].user)[u]
                        IN  Freed(heap, a)[m].live /\ Freed(heap, a)[m].user = u
      BY DEF Alive
    <3>1. m_players \in [Users -> Addr \cup {Absent}]
      BY DEF Inv, TypeOK
    <3>2. u # heap[a].user /\ DelPlayer(m_players, heap[a].user)[u] = m_players[u]
      BY <3>1 DEF DelPlayer
    <3>3. m_players[u] # Absent /\ heap[m_players[u]].live /\ heap[m_players[u]].user = u
      BY <3>2 DEF Inv, Alive
    <3>4. m_players[u] # a /\ m_players[u] \in Addr
      BY <3>1, <3>2, <3>3
    <3>5. Freed(heap, a)[m_players[u]] = heap[m_players[u]]
      BY <2>3, <3>4 DEF Freed
    <3> QED BY <3>2, <3>3, <3>5
  <2> QED BY <2>1, <2>2, <2>4, <2>5
<1> QED BY <1>1, <1>2, <1>3

\* Whoever was logged on at p is gone, and everybody else is as before.
LEMMA CloseOwn ==
  ASSUME Inv, clean, NEW p \in Proxies, NEW e \in {Absent, Null}
  PROVE  Own([m_proxyList EXCEPT ![p] = e], ProcessClose(p).table,
             ProcessClose(p).cells, [session EXCEPT ![p] = NoUser])
<1> USE SessionAssumption
<1> DEFINE a == GetUserData(p)
           l == [m_proxyList EXCEPT ![p] = e]
           s == [session EXCEPT ![p] = NoUser]
           t == ProcessClose(p).table
           c == ProcessClose(p).cells
<1>1. Tables(m_proxyList, m_players, heap, session)
  BY DEF Inv, TypeOK, Tables
<1>2. Own(m_proxyList, m_players, heap, session)
  BY DEF Inv
<1>3. CASE session[p] = NoUser
  <2>1. a = Null
    BY <1>2, <1>3, <1>1 DEF Own, GetUserData, Tables
  <2>2. t = m_players /\ c = heap
    BY <2>1 DEF ProcessClose
  <2>3. s = session
    BY <1>1, <1>3 DEF Tables
  <2> QED BY <1>1, <1>2, <2>2, <2>3, <1>3 DEF Own, Tables
<1>4. CASE session[p] # NoUser
  <2> DEFINE v == session[p]
  <2>1. /\ v \in Users /\ a \in Addr /\ a = m_proxyList[p]
        /\ heap[a].user = v /\ heap[a].live /\ m_players[v] = a
    <3>1. session[p] \in Users
      BY <1>1, <1>4 DEF Tables
    <3>2. /\ m_proxyList[p] \in Addr /\ m_players[session[p]] = m_proxyList[p]
          /\ heap[m_proxyList[p]] = [user |-> session[p], live |-> TRUE, loads |-> 1]
      BY <1>2, <1>4 DEF Own
    <3>3. heap[m_proxyList[p]].user = session[p] /\ heap[m_proxyList[p]].live
      BY <3>2
    <3>4. a = m_proxyList[p]
      BY <3>2 DEF GetUserData
    <3> QED BY <3>1, <3>2, <3>3, <3>4
  <2>2. t = [m_players EXCEPT ![v] = Absent] /\ c = [heap EXCEPT ![a].live = FALSE]
    BY <2>1 DEF ProcessClose, DelPlayer, Freed
  <2> HIDE DEF v, a, t, c
  <2>3. ASSUME NEW q \in Proxies, s[q] = NoUser
        PROVE  l[q] \in {Absent, Null}
    <3>1. CASE q = p
      BY <1>1, <3>1 DEF Tables
    <3>2. CASE q # p
      BY <1>1, <1>2, <2>3, <3>2 DEF Own, Tables
    <3> QED BY <3>1, <3>2
  <2>4. ASSUME NEW q \in Proxies, s[q] # NoUser
        PROVE  /\ q # p /\ s[q] = session[q] /\ session[q] # v
               /\ l[q] \in Addr /\ l[q] = m_proxyList[q] /\ l[q] # a
               /\ t[s[q]] = l[q]
               /\ c[l[q]] = [user |-> s[q], live |-> TRUE, loads |-> 1]
    <3>1. q # p /\ s[q] = session[q] /\ l[q] = m_proxyList[q]
      BY <1>1, <2>4 DEF Tables
    <3>2. session[q] # v
      BY <1>2, <2>4, <3>1, <1>4 DEF Own, v
    <3>3. /\ m_proxyList[q] \in Addr /\ m_players[session[q]] = m_proxyList[q]
          /\ heap[m_proxyList[q]] = [user |-> session[q], live |-> TRUE, loads |-> 1]
          /\ session[q] \in Users
      BY <1>1, <1>2, <2>4, <3>1 DEF Own, Tables
    <3>4. heap[m_proxyList[q]].user = session[q]
      BY <3>3
    <3>5. m_proxyList[q] # a
      BY <2>1, <3>2, <3>4
    <3>6. t[session[q]] = m_players[session[q]]
      BY <1>1, <2>1, <2>2, <3>2, <3>3 DEF Tables
    <3>7. c[m_proxyList[q]] = heap[m_proxyList[q]]
      BY <1>1, <2>1, <2>2, <3>3, <3>5 DEF Tables
    <3> QED BY <3>1, <3>2, <3>3, <3>5, <3>6, <3>7
  <2>5. \A q, r \in Proxies : s[q] = s[r] /\ s[q] # NoUser => q = r
    BY <1>2, <2>4 DEF Own
  <2>6. ASSUME NEW u \in Users, t[u] # Absent
        PROVE  \E q \in Proxies : s[q] = u
    <3>1. u # v /\ m_players[u] # Absent
      BY <1>1, <2>1, <2>2, <2>6 DEF Tables
    <3>2. PICK q \in Proxies : session[q] = u
      BY <1>2, <3>1 DEF Own
    <3> QED BY <1>1, <3>1, <3>2 DEF v, Tables
  <2>7. ASSUME NEW b \in Addr, c[b].live
        PROVE  \E u \in Users : t[u] = b
    <3>1. b # a /\ heap[b].live
      BY <1>1, <2>1, <2>2, <2>7 DEF Tables, CPlayerType
    <3>2. PICK u \in Users : m_players[u] = b
      BY <1>2, <3>1 DEF Own
    <3> QED BY <1>1, <2>1, <2>2, <3>1, <3>2 DEF Tables
  <2> QED BY <2>3, <2>4, <2>5, <2>6, <2>7 DEF Own, t, c
<1> QED BY <1>3, <1>4

-----------------------------------------------------------------------------
(* Logging on, in the tables that are left when the proxy has been closed. *)

LEMMA LogonTables ==
  ASSUME Inv, NEW p \in Proxies, NEW a \in Addr
  PROVE  /\ OnProxyConnect(p) \in [Proxies -> Addr \cup {Absent, Null}]
         /\ SetUserData(OnProxyConnect(p), p, a) \in [Proxies -> Addr \cup {Absent, Null}]
         /\ 0 \in Proxies => OnProxyConnect(p)[0] = Absent
         /\ 0 \in Proxies => SetUserData(OnProxyConnect(p), p, a)[0] = Absent
         /\ p # 0 => SetUserData(OnProxyConnect(p), p, a) = [m_proxyList EXCEPT ![p] = a]
<1>1. m_proxyList \in [Proxies -> Addr \cup {Absent, Null}]
  BY DEF Inv, TypeOK
<1>2. 0 \in Proxies => m_proxyList[0] = Absent
  BY DEF Inv, NoZero
<1>3. CASE p = 0
  BY <1>1, <1>2, <1>3 DEF OnProxyConnect, SetUserData
<1>4. CASE p # 0
  <2>1. OnProxyConnect(p) = [m_proxyList EXCEPT ![p] = Null]
    BY <1>4 DEF OnProxyConnect
  <2>2. OnProxyConnect(p)[p] = Null /\ Null # Absent
    BY <1>1, <2>1, SessionAssumption
  <2>3. SetUserData(OnProxyConnect(p), p, a) = [m_proxyList EXCEPT ![p] = a]
    BY <1>1, <2>1, <2>2 DEF SetUserData
  <2> QED BY <1>1, <1>2, <1>4, <2>1, <2>3
<1> QED BY <1>3, <1>4

\* A new CPlayer for a user whom no proxy has.
LEMMA NewOwn ==
  ASSUME NEW l, NEW t, NEW c, NEW s, Tables(l, t, c, s), Own(l, t, c, s),
         NEW p \in Proxies, NEW u \in Users, NEW a \in Addr,
         s[p] = NoUser, \A q \in Proxies : s[q] # u, ~c[a].live
  PROVE  Own([l EXCEPT ![p] = a], [t EXCEPT ![u] = a],
             [c EXCEPT ![a] = [user |-> u, live |-> TRUE, loads |-> 1]],
             [s EXCEPT ![p] = u])
<1> USE SessionAssumption
<1> DEFINE ll == [l EXCEPT ![p] = a]
           tt == [t EXCEPT ![u] = a]
           cc == [c EXCEPT ![a] = [user |-> u, live |-> TRUE, loads |-> 1]]
           ss == [s EXCEPT ![p] = u]
<1>1. \A q \in Proxies : ss[q] = NoUser => ll[q] \in {Absent, Null}
  BY DEF Own, Tables
<1>2. ASSUME NEW q \in Proxies, ss[q] # NoUser
      PROVE  /\ ll[q] \in Addr
             /\ tt[ss[q]] = ll[q]
             /\ cc[ll[q]] = [user |-> ss[q], live |-> TRUE, loads |-> 1]
  <2>1. CASE q = p
    BY <2>1 DEF Tables
  <2>2. CASE q # p
    <3>1. ss[q] = s[q] /\ ll[q] = l[q] /\ s[q] # u /\ s[q] \in Users
      BY <1>2, <2>2 DEF Tables
    <3>2. /\ l[q] \in Addr /\ t[s[q]] = l[q]
          /\ c[l[q]] = [user |-> s[q], live |-> TRUE, loads |-> 1]
      BY <1>2, <3>1 DEF Own
    <3>3. l[q] # a
      BY <3>2
    <3> QED BY <3>1, <3>2, <3>3 DEF Tables
  <2> QED BY <2>1, <2>2
<1>3. \A q, r \in Proxies : ss[q] = ss[r] /\ ss[q] # NoUser => q = r
  BY DEF Own, Tables
<1>4. ASSUME NEW w \in Users, tt[w] # Absent
      PROVE  \E q \in Proxies : ss[q] = w
  <2>1. CASE w = u
    BY <2>1 DEF Tables
  <2>2. CASE w # u
    <3>1. PICK q \in Proxies : s[q] = w
      BY <1>4, <2>2 DEF Own, Tables
    <3> QED BY <2>2, <3>1 DEF Tables
  <2> QED BY <2>1, <2>2
<1>5. ASSUME NEW b \in Addr, cc[b].live
      PROVE  \E w \in Users : tt[w] = b
  <2>1. CASE b = a
    BY <2>1 DEF Tables
  <2>2. CASE b # a
    <3>1. c[b].live
      BY <1>5, <2>2 DEF Tables
    <3>2. PICK w \in Users : t[w] = b
      BY <3>1 DEF Own
    <3>3. w # u
      BY <3>2, SessionAssumption DEF Own, Tables
    <3> QED BY <3>2, <3>3 DEF Tables
  <2> QED BY <2>1, <2>2
<1> HIDE DEF ll, tt, cc, ss
<1>6. Own(ll, tt, cc, ss)
  BY <1>1, <1>2, <1>3, <1>4, <1>5 DEF Own
<1> QED BY <1>6 DEF ll, tt, cc, ss

-----------------------------------------------------------------------------
(* Init and the steps.                                                     *)

LEMMA FreshCell == [user |-> NoUser, live |-> FALSE, loads |-> 0] \in CPlayerType
  BY DEF CPlayerType, MaxLoads

LEMMA InvInit == Init => Inv
<1> SUFFICES ASSUME Init PROVE Inv
  OBVIOUS
<1> USE SessionAssumption DEF Init
<1>1. TypeOK
  BY FreshCell DEF TypeOK
<1>2. NoZero /\ Alive(m_players, heap)
  BY DEF NoZero, Alive
<1>3. Own(m_proxyList, m_players, heap, session)
  BY DEF Own
<1> QED BY <1>1, <1>2, <1>3 DEF Inv

\* A session that has ended: the end of its connection or its own logout, and
\* a logon that is refused.
LEMMA InvClosed ==
  ASSUME Inv, NEW p \in Proxies, NEW e \in {Absent, Null},
         e = Null => p # 0,
         m_proxyId' = p, UNCHANGED <<connected, clean>>,
         m_players' = ProcessClose(p).table, heap' = ProcessClose(p).cells,
         m_proxyList' = [m_proxyList EXCEPT ![p] = e],
         session' = [session EXCEPT ![p] = NoUser]
  PROVE  Inv'
<1>1. TypeOK'
  BY CloseTables, SessionAssumption DEF Inv, TypeOK, NoProxy
<1>2. NoZero'
  BY SessionAssumption DEF Inv, NoZero, TypeOK
<1>3. Alive(m_players, heap)'
  BY CloseTables DEF Alive
<1>4. ASSUME clean' PROVE Own(m_proxyList, m_players, heap, session)'
  <2>1. clean
    BY <1>4
  <2>2. Own([m_proxyList EXCEPT ![p] = e], ProcessClose(p).table,
            ProcessClose(p).cells, [session EXCEPT ![p] = NoUser])
    BY CloseOwn, <2>1
  <2> QED BY <2>2 DEF Own
<1> QED BY <1>1, <1>2, <1>3, <1>4 DEF Inv

LEMMA InvLogin ==
  ASSUME Inv, NEW p \in Proxies, NEW u \in Users, HandleProxyLogin(p, u)
  PROVE  Inv'
<1> USE SessionAssumption
<1> DEFINE closed == ProcessClose(p)
<1>0. /\ closed.table \in [Users -> Addr \cup {Absent}]
      /\ closed.cells \in [Addr -> CPlayerType]
      /\ Alive(closed.table, closed.cells)
  BY CloseTables
<1>00. m_proxyId' = p /\ connected' = connected /\ connected \in BOOLEAN
       /\ session \in [Proxies -> Users \cup {NoUser}]
       /\ m_proxyList \in [Proxies -> Addr \cup {Absent, Null}]
       /\ clean \in BOOLEAN
  BY DEF HandleProxyLogin, Inv, TypeOK
<1> DEFINE start == [session EXCEPT ![p] = NoUser]
           list == [m_proxyList EXCEPT ![p] = Absent]
<1>c. clean => Own(list, closed.table, closed.cells, start)
  BY CloseOwn
<1>t. Tables(list, closed.table, closed.cells, start)
  BY <1>0, <1>00 DEF Tables
<1>1. CASE LogonRefused(p, closed)
  <2>1. /\ m_proxyList' = OnProxyConnect(p)
        /\ m_players' = closed.table /\ heap' = closed.cells
        /\ session' = start /\ clean' = clean
    BY <1>1 DEF LogonRefused
  <2>2. CASE p = 0
    <3>1. m_proxyList' = [m_proxyList EXCEPT ![p] = Absent]
      BY <2>1, <2>2, <1>00 DEF OnProxyConnect, Inv, NoZero
    <3> QED BY <1>00, <2>1, <2>2, <3>1, InvClosed
  <2>3. CASE p # 0
    <3>1. m_proxyList' = [m_proxyList EXCEPT ![p] = Null]
      BY <2>1, <2>3 DEF OnProxyConnect
    <3> QED BY <1>00, <2>1, <2>3, <3>1, InvClosed
  <2> QED BY <2>2, <2>3
<1>2. ASSUME NEW a \in Addr, LoggedOn(p, u, a) PROVE
        /\ m_proxyList' \in [Proxies -> Addr \cup {Absent, Null}]
        /\ NoZero'
        /\ session' = [start EXCEPT ![p] = u]
        /\ session' \in [Proxies -> Users \cup {NoUser}]
        /\ clean' \in BOOLEAN
        /\ clean' => /\ clean
                     /\ m_proxyList' = [list EXCEPT ![p] = a]
                     /\ \A q \in Proxies : start[q] # u
  <2>1. /\ m_proxyList' = SetUserData(OnProxyConnect(p), p, a)
        /\ session' = [session EXCEPT ![p] = u]
        /\ clean' = (clean /\ p # 0 /\ \A q \in Proxies \ {p} : session[q] # u)
    BY <1>2 DEF LoggedOn
  <2>2. clean' => \A q \in Proxies : start[q] # u
    BY <2>1, <1>00
  <2>3. NoZero'
    BY <2>1, LogonTables DEF NoZero
  <2>4. p # 0 => m_proxyList' = [m_proxyList EXCEPT ![p] = a]
    BY <2>1, LogonTables
  <2>5. session' = [start EXCEPT ![p] = u]
    BY <2>1, <1>00
  <2> QED BY <2>1, <2>2, <2>3, <2>4, <2>5, <1>00, LogonTables
<1>3. CASE LogonShared(p, u, closed)
  <2> DEFINE a == closed.table[u]
             more == IF closed.cells[a].loads = MaxLoads THEN MaxLoads
                     ELSE closed.cells[a].loads + 1
  <2>1. /\ a # Absent /\ LoggedOn(p, u, a) /\ m_players' = closed.table
        /\ heap' = [closed.cells EXCEPT ![a].loads = more]
    BY <1>3 DEF LogonShared, AlreadyOn
  <2>2. a \in Addr
    BY <1>0, <2>1
  <2>3. more \in 0..MaxLoads
    BY <1>0, <2>2 DEF CPlayerType, MaxLoads
  <2> HIDE DEF closed, more, start, list
  <2>4. heap' \in [Addr -> CPlayerType]
    BY <1>0, <2>1, <2>2, <2>3 DEF CPlayerType
  <2>5. \A b \in Addr : heap'[b].user = closed.cells[b].user
                         /\ heap'[b].live = closed.cells[b].live
    BY <1>0, <2>1, <2>2, <2>4 DEF CPlayerType
  <2>6. Alive(m_players, heap)'
    <3> SUFFICES ASSUME NEW w \in Users, closed.table[w] # Absent
                 PROVE  heap'[closed.table[w]].live /\ heap'[closed.table[w]].user = w
      BY <2>1 DEF Alive
    <3>1. closed.table[w] \in Addr /\ closed.cells[closed.table[w]].live
          /\ closed.cells[closed.table[w]].user = w
      BY <1>0 DEF Alive
    <3> QED BY <2>5, <3>1
  <2>7. ~clean'
    BY <1>2, <1>c, <2>1, <2>2 DEF Own, a
  <2>8. TypeOK'
    BY <1>0, <1>00, <1>2, <2>1, <2>2, <2>4 DEF TypeOK
  <2> QED BY <1>2, <2>1, <2>2, <2>6, <2>7, <2>8 DEF Inv
<1>4. ASSUME NEW a \in Addr, LogonNew(p, u, a, closed)
      PROVE  Inv'
  <2>1. /\ closed.table[u] = Absent /\ ~closed.cells[a].live /\ LoggedOn(p, u, a)
        /\ heap' = [closed.cells EXCEPT ![a] = [user |-> u, live |-> TRUE, loads |-> 1]]
        /\ m_players' = [closed.table EXCEPT ![u] = a]
    BY <1>4 DEF LogonNew, AlreadyOn
  <2> HIDE DEF closed, start, list
  <2>2. m_players' \in [Users -> Addr \cup {Absent}] /\ heap' \in [Addr -> CPlayerType]
    BY <1>0, <2>1 DEF CPlayerType, MaxLoads
  <2>3. Alive(m_players, heap)'
    <3> SUFFICES ASSUME NEW w \in Users, m_players'[w] # Absent
                 PROVE  heap'[m_players'[w]].live /\ heap'[m_players'[w]].user = w
      BY DEF Alive
    <3>1. CASE w = u
      BY <1>0, <2>1, <3>1
    <3>2. CASE w # u
      <4>1. m_players'[w] = closed.table[w] /\ closed.table[w] \in Addr
        BY <1>0, <2>1, <3>2
      <4>2. closed.cells[closed.table[w]].live /\ closed.cells[closed.table[w]].user = w
        BY <1>0, <4>1 DEF Alive
      <4>3. closed.table[w] # a
        BY <2>1, <4>2
      <4> QED BY <1>0, <2>1, <4>1, <4>2, <4>3
    <3> QED BY <3>1, <3>2
  <2>4. ASSUME clean' PROVE Own(m_proxyList, m_players, heap, session)'
    <3>1. start[p] = NoUser
      BY <1>00 DEF start
    <3>2. Own([list EXCEPT ![p] = a], [closed.table EXCEPT ![u] = a],
              [closed.cells EXCEPT ![a] = [user |-> u, live |-> TRUE, loads |-> 1]],
              [start EXCEPT ![p] = u])
      BY NewOwn, <1>c, <1>t, <1>2, <2>1, <2>4, <3>1
    <3> QED BY <3>2, <1>2, <2>1, <2>4 DEF Own
  <2>5. TypeOK'
    BY <1>00, <1>2, <2>1, <2>2 DEF TypeOK
  <2> QED BY <1>2, <2>1, <2>3, <2>4, <2>5 DEF Inv
<1> QED BY <1>1, <1>3, <1>4 DEF HandleProxyLogin

\* The hall's connection ends: PlayerMgr and m_proxyList are emptied.
LEMMA InvDisconnect == ASSUME Inv, OnDisconnect PROVE Inv'
<1> USE SessionAssumption DEF OnDisconnect
<1>1. TypeOK'
  <2>1. heap' \in [Addr -> CPlayerType]
    BY DEF Inv, TypeOK, CPlayerType
  <2> QED BY <2>1 DEF Inv, TypeOK
<1>2. NoZero' /\ Alive(m_players, heap)'
  BY DEF NoZero, Alive
<1>3. ASSUME clean' PROVE Own(m_proxyList, m_players, heap, session)'
  <2>1. Own(m_proxyList, m_players, heap, session)
    BY <1>3 DEF Inv
  <2>2. \A a \in Addr : ~heap'[a].live
    <3> SUFFICES ASSUME NEW a \in Addr PROVE ~heap'[a].live
      OBVIOUS
    <3>1. CASE a \in Registered
      BY <3>1 DEF Inv, TypeOK, CPlayerType
    <3>2. CASE a \notin Registered
      BY <2>1, <3>2 DEF Own, Registered
    <3> QED BY <3>1, <3>2
  <2> QED BY <2>2 DEF Own
<1> QED BY <1>1, <1>2, <1>3 DEF Inv

LEMMA InvNext == Inv /\ [Next]_vars => Inv'
<1> SUFFICES ASSUME Inv, [Next]_vars PROVE Inv'
  OBVIOUS
<1> USE SessionAssumption
<1>1. CASE OnConnect
  BY <1>1 DEF OnConnect, Inv, TypeOK, NoZero, Alive, Own
<1>2. CASE OnDisconnect
  BY <1>2, InvDisconnect
<1>3. CASE Crash
  <2>2. TypeOK'
    BY <1>3, FreshCell DEF Crash, TypeOK
  <2>3. NoZero' /\ Alive(m_players, heap)'
    BY <1>3 DEF Crash, NoZero, Alive
  <2>4. Own(m_proxyList, m_players, heap, session)'
    BY <1>3 DEF Crash, Own
  <2> QED BY <2>2, <2>3, <2>4 DEF Inv
<1>4. CASE SetProxyNone
  BY <1>4 DEF SetProxyNone, Inv, TypeOK, NoZero, Alive, Own, NoProxy
<1>5. ASSUME NEW p \in Proxies, HandleProxyLogout(p)
      PROVE  Inv'
  <2>1. /\ m_proxyId' = p /\ UNCHANGED <<connected, clean>>
        /\ m_players' = ProcessClose(p).table /\ heap' = ProcessClose(p).cells
        /\ m_proxyList' = [m_proxyList EXCEPT ![p] = Absent]
        /\ session' = [session EXCEPT ![p] = NoUser]
    BY <1>5 DEF HandleProxyLogout
  <2> QED BY <2>1, InvClosed
<1>6. ASSUME NEW p \in Proxies, Request(p)
      PROVE  Inv'
  BY <1>6 DEF Request, Inv, TypeOK, NoZero, Alive, Own
<1>7. ASSUME NEW p \in Proxies, NEW u \in Users, HandleProxyLogin(p, u)
      PROVE  Inv'
  BY <1>7, InvLogin
<1>8. CASE UNCHANGED vars
  BY <1>8 DEF vars, Inv, TypeOK, NoZero, Alive, Own
<1> QED BY <1>1, <1>2, <1>3, <1>4, <1>5, <1>6, <1>7, <1>8 DEF Next

-----------------------------------------------------------------------------
\* For every set of users, proxies and addresses, and whatever the hall sends:
\* the variables keep their types.
THEOREM SessionTypes == Spec => []TypeOK
<1>1. Inv => TypeOK
  BY DEF Inv
<1> QED BY InvInit, InvNext, <1>1, PTL DEF Spec

\* PlayerMgr never hands out a CPlayer that was deleted or is somebody else's.
THEOREM RegisteredPlayersLive == Spec => []RegisteredAlive
<1>1. Inv => RegisteredAlive
  BY DEF Inv, Alive, RegisteredAlive
<1> QED BY InvInit, InvNext, <1>1, PTL DEF Spec

\* A session is its user's own, as long as the hall logs nobody on twice.
THEOREM SessionsAreOwn == Spec => []SessionsOwn
<1>1. Inv => SessionsOwn
  BY SessionAssumption DEF Inv, Own, SessionsOwn, GetUserData
<1> QED BY InvInit, InvNext, <1>1, PTL DEF Spec

\* Under the same condition every living CPlayer has one session.
THEOREM NoCPlayerIsOrphan == Spec => []NoOrphan
<1>1. ASSUME Inv, clean, NEW a \in Addr, heap[a].live
      PROVE  \E p \in Proxies : \A q \in Proxies : m_proxyList[q] = a <=> q = p
  <2>1. Own(m_proxyList, m_players, heap, session)
    BY <1>1 DEF Inv
  <2>2. PICK u \in Users : m_players[u] = a
    BY <1>1, <2>1 DEF Own
  <2>3. PICK p \in Proxies : session[p] = u
    BY <2>1, <2>2, SessionAssumption DEF Own
  <2>4. session[p] # NoUser /\ m_proxyList[p] = a
    BY <2>1, <2>2, <2>3, SessionAssumption DEF Own
  <2>5. ASSUME NEW q \in Proxies, m_proxyList[q] = a
        PROVE  q = p
    <3>1. session[q] # NoUser
      BY <2>1, <2>5, SessionAssumption DEF Own
    <3>2. heap[a] = [user |-> session[q], live |-> TRUE, loads |-> 1]
      BY <2>1, <2>5, <3>1 DEF Own
    <3>3. heap[a] = [user |-> session[p], live |-> TRUE, loads |-> 1]
      BY <2>1, <2>4 DEF Own
    <3>4. session[q] = session[p]
      BY <3>2, <3>3
    <3> QED BY <2>1, <3>1, <3>4 DEF Own
  <2> QED BY <2>4, <2>5
<1>2. Inv => NoOrphan
  BY <1>1 DEF NoOrphan
<1> QED BY InvInit, InvNext, <1>2, PTL DEF Spec
=============================================================================
