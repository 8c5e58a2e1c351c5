---------------------------- MODULE EventLoopProof ----------------------------
(***************************************************************************)
(* The event loop keeps its connections apart and watches for what it has  *)
(* to send, for any number of descriptors, connections and units and any   *)
(* batch.  LoopInv is the inductive invariant: the types, that connections *)
(* are numbered in the order in which they were accepted, so that an event *)
(* of an earlier owner of a descriptor never carries the number of a later *)
(* one, and what the events of the batch and the timers stand for.         *)
(***************************************************************************)
EXTENDS EventLoop, FunctionTheorems, FiniteSetTheorems, TLAPS

\* Connections are numbered as they are accepted, in descriptors and in events.
Numbered ==
  /\ pending + m_fd_index <= MaxConns
  /\ \A fd \in Fd : fds[fd] <= m_fd_index
  /\ \A i \in DOMAIN m_epev_arr :
       m_epev_arr[i] # Listen => m_epev_arr[i].index <= m_fd_index

\* A hangup that is not stale is of a client that has left.
HangupsMeanGone ==
  \A i \in DOMAIN m_epev_arr :
    m_epev_arr[i].kind = "HUP" /\ fds[m_epev_arr[i].fd] = m_epev_arr[i].index
      => client[m_epev_arr[i].index].gone

\* The timer of a connection runs until the first message only.
TimerUntilHeard ==
  \A c \in Conns : handler[c].timer # "off" => ~ handler[c].heard

HandlerType ==
  [heard : BOOLEAN, timer : {"off", "on", "due"}, ring : 0..Cap, bfull : BOOLEAN,
   watch : {"IN", "OUT"}]

LoopInv ==
  /\ TypeOK /\ Numbered /\ HangupsMeanGone /\ TimerUntilHeard
  /\ turn = "wait" => m_epev_arr = <<>>
  /\ KeptIsWatched /\ PendingHasEdge

-----------------------------------------------------------------------------
(* Events.                                                                 *)

LEMMA EventFields ==
  ASSUME NEW e \in Event, e # Listen
  PROVE  e.fd \in Fd /\ e.index \in Conns /\ e.kind \in {"HUP", "IN", "OUT"} /\ e.fd # Listen.fd
BY LoopAssumption DEF Event, Listen

\* What epoll reports of a descriptor is about its owner of that moment.
LEMMA ReadyEvents ==
  ASSUME LoopInv, NEW e \in Ready
  PROVE  /\ e \in Event
         /\ e # Listen => /\ e.fd \in Fd /\ fds[e.fd] = e.index
                          /\ e.kind = "HUP" => client[e.index].gone
<1>1. CASE e = Listen
  BY <1>1 DEF Event
<1>2. CASE e # Listen
  <2>1. PICK fd \in Fd : e \in Reports(fd)
    BY <1>2 DEF Ready
  <2>2. fds[fd] # NoConn /\ fds[fd] \in Conns
    BY <2>1 DEF Reports, LoopInv, TypeOK
  <2>3. /\ e.fd = fd /\ e.index = fds[fd] /\ e.kind \in {"HUP", "IN", "OUT"}
        /\ e.kind = "HUP" => client[fds[fd]].gone
        /\ e = [fd |-> fd, index |-> fds[fd], kind |-> e.kind]
    BY <2>1, <2>2 DEF Reports
  <2>4. e \in Event
    BY <2>2, <2>3 DEF Event
  <2>5. QED BY <1>2, <2>3, <2>4
<1>3. QED BY <1>1, <1>2

\* A batch is a sequence of ready events, and with an edge the listening socket is
\* in it.
LEMMA BatchProperties ==
  ASSUME LoopInv, NEW b \in Batches
  PROVE  /\ b \in Seq(Event)
         /\ \A i \in DOMAIN b : b[i] \in Ready
         /\ edge => \E i \in DOMAIN b : b[i] = Listen
<1>1. PICK S \in SUBSET Ready :
        /\ b \in SetToSeqs(S)
        /\ \A d, e \in S : d.fd = e.fd => d = e
        /\ MustReport \cup (IF edge THEN {Listen.fd} ELSE {}) \subseteq {e.fd : e \in S}
  BY DEF Batches
<1> DEFINE fdOf == [e \in S |-> e.fd]
<1>2. \A e \in S : e.fd \in Fd \cup {Listen.fd}
  BY ReadyEvents
<1>3. fdOf \in Injection(S, Fd \cup {Listen.fd})
  BY <1>1, <1>2 DEF Injection, IsInjective
<1>4. IsFiniteSet(Fd \cup {Listen.fd})
  BY LoopAssumption, FS_AddElement
<1>5. IsFiniteSet(S) /\ Cardinality(S) \in Nat
  <2> HIDE DEF fdOf
  <2>1. IsFiniteSet(S)
    BY <1>3, <1>4, FS_Injection
  <2>2. QED BY <2>1, FS_CardinalityType
<1> DEFINE n == Cardinality(S)
<1>6. b \in [1..n -> S] /\ \A i, j \in 1..n : i # j => b[i] # b[j]
  BY <1>1 DEF SetToSeqs
<1>7. b \in Injection(1..n, S)
  BY <1>6 DEF Injection, IsInjective
<1>8. IsFiniteSet(1..n) /\ Cardinality(1..n) = n
  BY <1>5, FS_Interval
<1>9. b \in Surjection(1..n, S)
  BY <1>5, <1>7, <1>8, FS_Injection
<1>10. \A e \in S : \E i \in 1..n : b[i] = e
  BY <1>9 DEF Surjection
<1>11. b \in Seq(Event)
  <2>1. \A i \in 1..n : b[i] \in Event
    BY <1>6, ReadyEvents
  <2>2. QED BY <1>5, <1>6, <2>1
<1>12. edge => Listen \in S
  <2>1. SUFFICES ASSUME edge PROVE Listen \in S
    OBVIOUS
  <2>2. PICK e \in S : e.fd = Listen.fd
    BY <1>1, <2>1
  <2>3. e = Listen
    BY <2>2, ReadyEvents, EventFields
  <2>4. QED BY <2>3
<1>13. QED BY <1>6, <1>10, <1>11, <1>12

\* Taking the first event leaves the others.
LEMMA TailOfBatch ==
  ASSUME LoopInv, m_epev_arr # <<>>, NextEvent
  PROVE  /\ m_epev_arr' \in Seq(Event)
         /\ \A i \in DOMAIN m_epev_arr' :
              i + 1 \in DOMAIN m_epev_arr /\ m_epev_arr'[i] = m_epev_arr[i + 1]
         /\ Event1 \in Event /\ 1 \in DOMAIN m_epev_arr
         /\ \A i \in DOMAIN m_epev_arr :
              i = 1 \/ (i - 1 \in DOMAIN m_epev_arr' /\ m_epev_arr'[i - 1] = m_epev_arr[i])
<1>1. m_epev_arr \in Seq(Event)
  BY DEF LoopInv, TypeOK
<1>2. /\ m_epev_arr' \in Seq(Event) /\ Len(m_epev_arr') = Len(m_epev_arr) - 1
      /\ Len(m_epev_arr) \in Nat /\ Len(m_epev_arr) > 0
      /\ \A i \in 1..Len(m_epev_arr') : m_epev_arr'[i] = m_epev_arr[i + 1]
  BY <1>1 DEF NextEvent
<1>3. DOMAIN m_epev_arr = 1..Len(m_epev_arr) /\ DOMAIN m_epev_arr' = 1..Len(m_epev_arr')
  BY <1>1, <1>2
<1>4. QED BY <1>1, <1>2, <1>3 DEF Event1

\* What the batch means is kept when nothing but the batch moves on, by an event
\* that is not the listening socket's.
LEMMA NextEventKeeps ==
  ASSUME LoopInv, m_epev_arr # <<>>, NextEvent, Event1 # Listen,
         UNCHANGED <<pending, edge, m_fd_index, refused>>
  PROVE  /\ m_epev_arr' \in Seq(Event)
         /\ \A i \in DOMAIN m_epev_arr' :
              m_epev_arr'[i] # Listen => m_epev_arr'[i].index <= m_fd_index
         /\ \A i \in DOMAIN m_epev_arr' :
              m_epev_arr'[i].kind = "HUP" /\ fds[m_epev_arr'[i].fd] = m_epev_arr'[i].index
                => client[m_epev_arr'[i].index].gone
         /\ PendingHasEdge'
<1>1. \A i \in DOMAIN m_epev_arr' :
        i + 1 \in DOMAIN m_epev_arr /\ m_epev_arr'[i] = m_epev_arr[i + 1]
  BY TailOfBatch
<1>2. PendingHasEdge'
  <2>1. ASSUME NEW i \in DOMAIN m_epev_arr, m_epev_arr[i] = Listen
        PROVE  i - 1 \in DOMAIN m_epev_arr' /\ m_epev_arr'[i - 1] = Listen
    BY <2>1, TailOfBatch DEF Event1
  <2>2. QED BY <2>1 DEF LoopInv, PendingHasEdge
<1>3. m_epev_arr' \in Seq(Event)
  BY TailOfBatch
<1>4. QED BY <1>1, <1>2, <1>3 DEF LoopInv, Numbered, HangupsMeanGone

-----------------------------------------------------------------------------
(* Connections.                                                            *)

\* A close takes one connection away and nothing from the others.
LEMMA ClosedKeeps ==
  ASSUME LoopInv, NEW c \in Conns, Closed(c)
  PROVE  /\ fds' \in [Fd -> Conns \cup {NoConn}]
         /\ \A fd \in Fd : fds'[fd] = NoConn \/ (fds'[fd] = fds[fd] /\ fds[fd] # c)
         /\ \A fd \in Fd : fds[fd] = c \/ fds'[fd] = fds[fd]
         /\ \A fd \in Fd : fds'[fd] <= m_fd_index
         /\ \A f, g \in Fd : fds'[f] = fds'[g] /\ fds'[f] # NoConn => f = g
         /\ handler' \in [Conns -> HandlerType]
         /\ client' \in [Conns -> [sends : BOOLEAN, gone : BOOLEAN]]
         /\ \A d \in Conns : d = c \/ client'[d] = client[d]
         /\ TimerUntilHeard' /\ KeptIsWatched'
<1>1. /\ fds \in [Fd -> Conns \cup {NoConn}]
      /\ \A fd \in Fd : fds[fd] <= m_fd_index
      /\ \A f, g \in Fd : fds[f] = fds[g] /\ fds[f] # NoConn => f = g
      /\ m_fd_index \in Nat /\ MaxConns \in Nat /\ Cap \in Nat
  BY LoopAssumption DEF LoopInv, TypeOK, Numbered
<1>2. \A fd \in Fd : fds'[fd] = IF fds[fd] = c THEN NoConn ELSE fds[fd]
  BY DEF Closed
<1>3. fds' \in [Fd -> Conns \cup {NoConn}]
  BY <1>1 DEF Closed
<1>4. \A fd \in Fd : fds'[fd] <= m_fd_index
  BY <1>1, <1>2 DEF NoConn
<1>5. NewHandler \in HandlerType
      /\ NewHandler.ring = 0 /\ NewHandler.timer = "off"
  BY <1>1 DEF NewHandler, HandlerType
<1>6. NewClient \in [sends : BOOLEAN, gone : BOOLEAN]
  BY DEF NewClient
<1>7. \A d \in Conns : handler'[d] = IF d = c THEN NewHandler ELSE handler[d]
  BY DEF Closed, LoopInv, TypeOK
<1>8. \A d \in Conns : client'[d] = IF d = c THEN NewClient ELSE client[d]
  BY DEF Closed, LoopInv, TypeOK
<1>9. /\ handler' \in [Conns -> HandlerType]
      /\ client' \in [Conns -> [sends : BOOLEAN, gone : BOOLEAN]]
  BY <1>5, <1>6 DEF Closed, LoopInv, TypeOK, HandlerType
<1>10. TimerUntilHeard' /\ KeptIsWatched'
  BY <1>5, <1>7 DEF LoopInv, TimerUntilHeard, KeptIsWatched
<1>11. QED BY <1>1, <1>2, <1>3, <1>4, <1>8, <1>9, <1>10

\* Closing the handler of the event at hand, or of a timer while the batch waits.
LEMMA CloseAndNext ==
  ASSUME LoopInv, NEW c \in Conns, Closed(c), turn # "wait",
         UNCHANGED <<turn, loop_times, pending, edge, m_fd_index, refused>>,
         \/ UNCHANGED m_epev_arr
         \/ m_epev_arr # <<>> /\ Event1 # Listen /\ NextEvent
  PROVE  LoopInv'
<1>1. /\ m_epev_arr' \in Seq(Event)
      /\ \A i \in DOMAIN m_epev_arr' :
           m_epev_arr'[i] # Listen => m_epev_arr'[i].index <= m_fd_index
      /\ \A i \in DOMAIN m_epev_arr' :
           m_epev_arr'[i].kind = "HUP" /\ fds[m_epev_arr'[i].fd] = m_epev_arr'[i].index
             => client[m_epev_arr'[i].index].gone
      /\ PendingHasEdge'
  <2>1. CASE UNCHANGED m_epev_arr
    BY <2>1 DEF LoopInv, TypeOK, Numbered, HangupsMeanGone, PendingHasEdge
  <2>2. CASE m_epev_arr # <<>> /\ Event1 # Listen /\ NextEvent
    BY <2>2, NextEventKeeps
  <2>3. QED BY <2>1, <2>2
<1>2. HangupsMeanGone'
  <2>1. ASSUME NEW i \in DOMAIN m_epev_arr', m_epev_arr'[i].kind = "HUP",
               fds'[m_epev_arr'[i].fd] = m_epev_arr'[i].index
        PROVE  client'[m_epev_arr'[i].index].gone
    <3> DEFINE e == m_epev_arr'[i]
    <3>1. e \in Event /\ e # Listen
      BY <1>1, <2>1 DEF Listen
    <3>2. e.fd \in Fd /\ e.index \in Conns /\ e.index # NoConn
      BY <3>1, EventFields DEF Conns, NoConn
    <3>3. fds'[e.fd] = fds[e.fd] /\ fds[e.fd] # c
      BY <2>1, <3>2, ClosedKeeps
    <3>4. client[e.index].gone
      BY <1>1, <2>1, <3>3
    <3>5. QED BY <2>1, <3>2, <3>3, <3>4, ClosedKeeps
  <2>2. QED BY <2>1 DEF HangupsMeanGone
<1>3. Numbered'
  BY <1>1, ClosedKeeps DEF LoopInv, Numbered
<1>4. TypeOK'
  BY <1>1, ClosedKeeps DEF LoopInv, TypeOK, HandlerType
<1>5. QED BY <1>1, <1>2, <1>3, <1>4, ClosedKeeps DEF LoopInv

-----------------------------------------------------------------------------
(* The actions.                                                            *)

LEMMA InitLoopInv == Init => LoopInv
<1> SUFFICES ASSUME Init PROVE LoopInv
  OBVIOUS
<1>1. /\ m_epev_arr \in Seq(Event) /\ DOMAIN m_epev_arr = {}
      /\ MaxConns \in Nat /\ Cap \in Nat /\ CheckPoint \in Nat
  BY LoopAssumption DEF Init
<1>2. \A c \in Conns : handler[c] = NewHandler
  BY DEF Init
<1>3. /\ NewHandler \in HandlerType /\ NewHandler.ring = 0 /\ NewHandler.timer = "off"
  BY <1>1 DEF NewHandler, HandlerType
<1>4. /\ handler \in [Conns -> HandlerType]
      /\ client \in [Conns -> [sends : BOOLEAN, gone : BOOLEAN]]
      /\ fds \in [Fd -> Conns \cup {NoConn}]
  BY <1>3 DEF Init, NewClient
<1>5. TypeOK
  <2>1. \A f, g \in Fd : fds[f] = fds[g] /\ fds[f] # NoConn => f = g
    BY DEF Init
  <2>2. loop_times \in 0..CheckPoint /\ pending \in 0..MaxConns /\ m_fd_index \in 0..MaxConns
    BY <1>1 DEF Init
  <2>3. turn \in {"wait", "timers", "batch"} /\ edge \in BOOLEAN /\ refused \in BOOLEAN
    BY DEF Init
  <2>4. QED BY <1>1, <1>4, <2>1, <2>2, <2>3 DEF TypeOK, HandlerType
<1>6. Numbered /\ HangupsMeanGone /\ PendingHasEdge
  BY <1>1 DEF Init, Numbered, HangupsMeanGone, PendingHasEdge, NoConn
<1>7. TimerUntilHeard /\ KeptIsWatched
  BY <1>2, <1>3 DEF TimerUntilHeard, KeptIsWatched
<1>8. QED BY <1>1, <1>5, <1>6, <1>7 DEF Init, LoopInv

LEMMA OutsideKeeps ==
  ASSUME LoopInv,
         Arrive \/ \E c \in Conns : ClientSends(c) \/ ClientLeaves(c) \/ TimePasses(c)
  PROVE  LoopInv'
<1>1. m_epev_arr = <<>> /\ m_epev_arr' = <<>>
  BY DEF Arrive, ClientSends, ClientLeaves, TimePasses, LoopInv
<1>2. CASE Arrive
  <2>1. pending \in Nat /\ m_fd_index \in Nat /\ MaxConns \in Nat
    BY LoopAssumption DEF LoopInv, TypeOK
  <2>2. TypeOK' /\ Numbered'
    <3>1. pending' = pending + 1 /\ pending' + m_fd_index <= MaxConns
      BY <1>2, <2>1 DEF Arrive
    <3>2. pending' \in 0..MaxConns
      BY <2>1, <3>1
    <3>3. UNCHANGED <<turn, m_epev_arr, loop_times, m_fd_index, fds, handler, client>>
          /\ edge' \in BOOLEAN /\ refused' \in BOOLEAN
      BY <1>2 DEF Arrive
    <3>4. QED BY <3>1, <3>2, <3>3 DEF LoopInv, TypeOK, Numbered
  <2>3. HangupsMeanGone' /\ TimerUntilHeard' /\ KeptIsWatched' /\ PendingHasEdge'
    BY <1>1, <1>2
    DEF Arrive, LoopInv, HangupsMeanGone, TimerUntilHeard, KeptIsWatched, PendingHasEdge
  <2>4. QED BY <1>1, <2>2, <2>3 DEF LoopInv
<1>3. ASSUME NEW c \in Conns, ClientSends(c) \/ ClientLeaves(c)
      PROVE  LoopInv'
  <2>1. TypeOK'
    <3>1. client' \in [Conns -> [sends : BOOLEAN, gone : BOOLEAN]]
      <4>1. client \in [Conns -> [sends : BOOLEAN, gone : BOOLEAN]]
        BY DEF LoopInv, TypeOK
      <4>2. QED BY <1>3, <4>1 DEF ClientSends, ClientLeaves
    <3>2. UNCHANGED <<turn, m_epev_arr, loop_times, pending, edge, m_fd_index, fds, handler, refused>>
      BY <1>3 DEF ClientSends, ClientLeaves
    <3>3. QED BY <3>1, <3>2 DEF LoopInv, TypeOK
  <2>2. Numbered' /\ HangupsMeanGone' /\ TimerUntilHeard' /\ KeptIsWatched' /\ PendingHasEdge'
    BY <1>1, <1>3
    DEF ClientSends, ClientLeaves, LoopInv, Numbered, HangupsMeanGone, TimerUntilHeard,
        KeptIsWatched, PendingHasEdge
  <2>3. QED BY <1>1, <2>1, <2>2 DEF LoopInv
<1>4. ASSUME NEW c \in Conns, TimePasses(c)
      PROVE  LoopInv'
  <2>1. TypeOK'
    <3>1. handler \in [Conns -> HandlerType]
      BY DEF LoopInv, TypeOK, HandlerType
    <3>2. [handler[c] EXCEPT !.timer = "due"] \in HandlerType
      BY <3>1 DEF HandlerType
    <3>3. handler' = [handler EXCEPT ![c] = [handler[c] EXCEPT !.timer = "due"]]
      BY <1>4 DEF TimePasses
    <3>4. handler' \in [Conns -> HandlerType]
      BY <3>1, <3>2, <3>3
    <3>5. QED BY <1>4, <3>4 DEF TimePasses, LoopInv, TypeOK, HandlerType
  <2>2. TimerUntilHeard' /\ KeptIsWatched'
    BY <1>4 DEF TimePasses, LoopInv, TypeOK, TimerUntilHeard, KeptIsWatched
  <2>3. Numbered' /\ HangupsMeanGone' /\ PendingHasEdge'
    BY <1>1, <1>4 DEF TimePasses, LoopInv, Numbered, HangupsMeanGone, PendingHasEdge
  <2>4. QED BY <1>1, <2>1, <2>2, <2>3 DEF LoopInv
<1>5. QED BY <1>2, <1>3, <1>4

LEMMA WaitKeeps ==
  ASSUME LoopInv, Wait
  PROVE  LoopInv'
<1>1. PICK b \in Batches : m_epev_arr' = b
  BY DEF Wait
<1>2. /\ m_epev_arr' \in Seq(Event)
      /\ \A i \in DOMAIN m_epev_arr' : m_epev_arr'[i] \in Ready
      /\ edge => \E i \in DOMAIN m_epev_arr' : m_epev_arr'[i] = Listen
  BY <1>1, BatchProperties
<1>3. ASSUME NEW i \in DOMAIN m_epev_arr', m_epev_arr'[i] # Listen
      PROVE  /\ m_epev_arr'[i].fd \in Fd
             /\ fds[m_epev_arr'[i].fd] = m_epev_arr'[i].index
             /\ m_epev_arr'[i].kind = "HUP" => client[m_epev_arr'[i].index].gone
  BY <1>2, <1>3, ReadyEvents
<1>4. Numbered'
  BY <1>3 DEF Wait, LoopInv, Numbered
<1>5. HangupsMeanGone'
  <2>1. Listen.kind # "HUP"
    BY DEF Listen
  <2>2. fds' = fds /\ client' = client
    BY DEF Wait
  <2>3. ASSUME NEW i \in DOMAIN m_epev_arr', m_epev_arr'[i].kind = "HUP"
        PROVE  client'[m_epev_arr'[i].index].gone
    BY <1>3, <2>1, <2>2, <2>3
  <2>4. QED BY <2>3 DEF HangupsMeanGone
<1>6. loop_times' \in 0..CheckPoint /\ turn' \in {"timers", "batch"}
  BY LoopAssumption DEF Wait, Turns, LoopInv, TypeOK
<1>7. TypeOK'
  BY <1>2, <1>6 DEF Wait, LoopInv, TypeOK
<1>8. PendingHasEdge'
  BY <1>2 DEF Wait, LoopInv, PendingHasEdge
<1>9. TimerUntilHeard' /\ KeptIsWatched'
  BY DEF Wait, LoopInv, TimerUntilHeard, KeptIsWatched
<1>10. QED BY <1>4, <1>5, <1>6, <1>7, <1>8, <1>9 DEF LoopInv

LEMMA TurnKeeps ==
  ASSUME LoopInv, WaitTimesOut \/ TimersDone \/ BatchDone
  PROVE  LoopInv'
<1>1. /\ UNCHANGED <<m_epev_arr, pending, edge, m_fd_index, fds, handler, client, refused>>
      /\ loop_times' = loop_times \/ loop_times' = 0
      /\ turn' \in {"wait", "timers", "batch"}
      /\ turn' = "wait" => m_epev_arr' = <<>>
  BY DEF WaitTimesOut, TimersDone, BatchDone
<1>2. TypeOK'
  BY <1>1, LoopAssumption DEF LoopInv, TypeOK
<1>3. QED BY <1>1, <1>2
          DEF LoopInv, Numbered, HangupsMeanGone, TimerUntilHeard, KeptIsWatched, PendingHasEdge

\* accept: the numbers of the new connections are new, and different.
LEMMA AcceptNumbers ==
  ASSUME LoopInv
  PROVE  /\ Accepts \in Nat /\ Accepts <= pending
         /\ Accepts = pending \/ pending > Free
         /\ \A fd \in Fd : FreeBefore(fd) \in Nat
         /\ \A f, g \in Fd : fds[f] = NoConn /\ f < g => FreeBefore(f) < FreeBefore(g)
<1> DEFINE Before(fd) == {f \in Fd : f < fd /\ fds[f] = NoConn}
<1>1. IsFiniteSet(Fd) /\ Fd \subseteq Nat
  BY LoopAssumption
<1>2. IsFiniteSet({fd \in Fd : fds[fd] = NoConn})
  BY <1>1, FS_Subset
<1>3. Free \in Nat
  BY <1>2, FS_CardinalityType DEF Free
<1>4. pending \in Nat
  BY LoopAssumption DEF LoopInv, TypeOK
<1>5. Accepts \in Nat /\ Accepts <= pending /\ (Accepts = pending \/ pending > Free)
  BY <1>3, <1>4 DEF Accepts, Lesser
<1>6. ASSUME NEW fd \in Fd
      PROVE  IsFiniteSet(Before(fd)) /\ FreeBefore(fd) \in Nat
  <2>1. IsFiniteSet(Before(fd))
    BY <1>1, FS_Subset
  <2>2. QED BY <2>1, FS_CardinalityType DEF FreeBefore
<1>7. ASSUME NEW f \in Fd, NEW g \in Fd, fds[f] = NoConn, f < g
      PROVE  FreeBefore(f) < FreeBefore(g)
  <2>1. f \in Before(g) /\ f \notin Before(f)
    BY <1>1, <1>7
  <2>2. Before(f) \subseteq Before(g)
    <3>1. ASSUME NEW h \in Before(f) PROVE h \in Before(g)
      <4>1. h \in Nat /\ f \in Nat /\ g \in Nat /\ h < f /\ f < g
        BY <1>1, <1>7
      <4>2. h < g
        BY <4>1
      <4>3. QED BY <4>2
    <3>2. QED BY <3>1
  <2> HIDE DEF Before
  <2>3. IsFiniteSet(Before(g)) /\ Before(f) # Before(g)
    BY <1>6, <2>1
  <2>4. Cardinality(Before(f)) <= Cardinality(Before(g))
        /\ Cardinality(Before(f)) # Cardinality(Before(g))
    BY <2>2, <2>3, FS_Subset
  <2>5. FreeBefore(f) = Cardinality(Before(f)) /\ FreeBefore(g) = Cardinality(Before(g))
    BY DEF FreeBefore, Before
  <2>6. QED BY <1>6, <2>4, <2>5
<1>8. QED BY <1>5, <1>6, <1>7

LEMMA AcceptKeeps ==
  ASSUME LoopInv, handle_accept
  PROVE  LoopInv'
<1>1. /\ m_epev_arr # <<>> /\ NextEvent /\ turn # "wait" /\ Event1 = Listen
      /\ UNCHANGED <<turn, loop_times, edge, client>>
  BY DEF handle_accept
<1>2. /\ Accepts \in Nat /\ Accepts <= pending /\ (Accepts = pending \/ pending > Free)
      /\ \A fd \in Fd : FreeBefore(fd) \in Nat
      /\ \A f, g \in Fd : fds[f] = NoConn /\ f < g => FreeBefore(f) < FreeBefore(g)
  BY AcceptNumbers
<1>3. /\ pending \in Nat /\ m_fd_index \in Nat /\ MaxConns \in Nat /\ Cap \in Nat
      /\ pending + m_fd_index <= MaxConns
      /\ Fd \subseteq Nat
  BY LoopAssumption DEF LoopInv, TypeOK, Numbered
<1>4. /\ pending' = pending - Accepts /\ m_fd_index' = m_fd_index + Accepts
      /\ pending' \in 0..MaxConns /\ m_fd_index' \in 0..MaxConns
      /\ pending' + m_fd_index' <= MaxConns
  BY <1>2, <1>3 DEF handle_accept
<1>5. /\ fds \in [Fd -> Conns \cup {NoConn}]
      /\ \A fd \in Fd : fds[fd] <= m_fd_index
      /\ \A f, g \in Fd : fds[f] = fds[g] /\ fds[f] # NoConn => f = g
  BY DEF LoopInv, TypeOK, Numbered
<1>6. \A fd \in Fd : fds'[fd] = IF fds[fd] = NoConn /\ FreeBefore(fd) < Accepts
                                THEN m_fd_index + 1 + FreeBefore(fd) ELSE fds[fd]
  BY DEF handle_accept
<1>7. \A fd \in Fd : /\ fds'[fd] \in Conns \cup {NoConn}
                     /\ fds'[fd] <= m_fd_index'
                     /\ fds[fd] = NoConn => fds'[fd] = NoConn \/ fds'[fd] > m_fd_index
  BY <1>2, <1>3, <1>4, <1>5, <1>6 DEF Conns, NoConn
<1>8. fds' \in [Fd -> Conns \cup {NoConn}]
  <2>1. fds' = [fd \in Fd |-> fds'[fd]]
    BY DEF handle_accept
  <2>2. QED BY <1>7, <2>1
<1>9. ASSUME NEW f \in Fd, NEW g \in Fd, fds'[f] = fds'[g], fds'[f] # NoConn
      PROVE  f = g
  <2>1. CASE fds[f] = NoConn /\ fds[g] = NoConn
    <3>1. FreeBefore(f) = FreeBefore(g)
      BY <1>2, <1>3, <1>6, <1>9, <2>1
    <3>2. ~ (f < g) /\ ~ (g < f)
      BY <1>2, <2>1, <3>1
    <3>3. QED BY <1>3, <3>2
  <2>2. CASE fds[f] # NoConn /\ fds[g] # NoConn
    BY <1>5, <1>6, <1>9, <2>2
  <2>3. CASE (fds[f] = NoConn) # (fds[g] = NoConn)
    <3>1. ASSUME NEW a \in Fd, NEW b \in Fd, fds[a] = NoConn, fds[b] # NoConn,
                 fds'[a] = fds'[b], fds'[a] # NoConn
          PROVE  FALSE
      <4>1. fds'[a] > m_fd_index
        BY <1>7, <3>1
      <4>2. fds'[b] = fds[b] /\ fds[b] <= m_fd_index /\ fds[b] \in Nat
        BY <1>5, <1>6, <3>1 DEF Conns, NoConn
      <4>3. QED BY <1>3, <3>1, <4>1, <4>2
    <3>2. QED BY <1>9, <2>3, <3>1
  <2>4. QED BY <2>1, <2>2, <2>3
<1>10. \A c \in Conns : handler'[c] = handler[c] \/ handler'[c] = Connected
  BY DEF handle_accept
<1>11. /\ Connected \in HandlerType
       /\ ~ Connected.heard /\ Connected.ring = 0
  <2>1. NewHandler \in HandlerType /\ ~ NewHandler.heard /\ NewHandler.ring = 0
    BY <1>3 DEF NewHandler, HandlerType
  <2>2. QED BY <2>1 DEF Connected, HandlerType
<1>12. /\ handler' \in [Conns -> HandlerType]
       /\ TimerUntilHeard' /\ KeptIsWatched'
  <2>1. handler' = [c \in Conns |-> handler'[c]]
    BY DEF handle_accept
  <2>2. handler \in [Conns -> HandlerType]
    BY DEF LoopInv, TypeOK, HandlerType
  <2>3. \A c \in Conns : handler'[c] \in HandlerType
    BY <1>10, <1>11, <2>2
  <2>4. handler' \in [Conns -> HandlerType]
    BY <2>1, <2>3
  <2>5. TimerUntilHeard' /\ KeptIsWatched'
    <3>1. ~ (Connected.ring > 0)
      BY <1>11
    <3>2. QED BY <1>10, <1>11, <3>1 DEF LoopInv, TimerUntilHeard, KeptIsWatched
  <2>6. QED BY <2>4, <2>5
<1>13. /\ m_epev_arr' \in Seq(Event)
       /\ \A i \in DOMAIN m_epev_arr' :
            i + 1 \in DOMAIN m_epev_arr /\ m_epev_arr'[i] = m_epev_arr[i + 1]
  BY <1>1, TailOfBatch
<1>14. \A i \in DOMAIN m_epev_arr' :
         m_epev_arr'[i] # Listen => /\ m_epev_arr'[i].fd \in Fd
                                    /\ m_epev_arr'[i].index \in Conns
                                    /\ m_epev_arr'[i].index <= m_fd_index
  <2>1. ASSUME NEW i \in DOMAIN m_epev_arr', m_epev_arr'[i] # Listen
        PROVE  /\ m_epev_arr'[i].fd \in Fd
               /\ m_epev_arr'[i].index \in Conns
               /\ m_epev_arr'[i].index <= m_fd_index
    <3>1. m_epev_arr'[i] \in Event
      BY <1>13
    <3>2. QED BY <1>13, <2>1, <3>1, EventFields DEF LoopInv, Numbered
  <2>2. QED BY <2>1
<1>15. Numbered'
  BY <1>2, <1>3, <1>4, <1>7, <1>14 DEF Numbered, Conns
<1>16. HangupsMeanGone'
  <2>1. ASSUME NEW i \in DOMAIN m_epev_arr', m_epev_arr'[i].kind = "HUP",
               fds'[m_epev_arr'[i].fd] = m_epev_arr'[i].index
        PROVE  client'[m_epev_arr'[i].index].gone
    <3> DEFINE e == m_epev_arr'[i]
    <3>1. e # Listen
      BY <2>1 DEF Listen
    <3>2. e.fd \in Fd /\ e.index \in Conns /\ e.index <= m_fd_index
      BY <1>14, <3>1
    <3>3. fds[e.fd] # NoConn
      <4>1. SUFFICES ASSUME fds[e.fd] = NoConn PROVE FALSE
        OBVIOUS
      <4>2. e.index \in Nat /\ e.index # NoConn
        BY <1>3, <3>2 DEF Conns, NoConn
      <4>3. fds'[e.fd] = e.index
        BY <2>1
      <4>4. fds'[e.fd] = NoConn \/ fds'[e.fd] > m_fd_index
        BY <1>7, <3>2, <4>1
      <4>5. QED BY <1>3, <3>2, <4>2, <4>3, <4>4
    <3>4. fds[e.fd] = e.index
      BY <1>6, <2>1, <3>2, <3>3
    <3>5. client[e.index].gone
      BY <1>13, <2>1, <3>4 DEF LoopInv, HangupsMeanGone
    <3>6. QED BY <1>1, <3>5
  <2>2. QED BY <2>1 DEF HangupsMeanGone
<1>17. PendingHasEdge'
  <2>1. pending' > 0 => pending > Free
    BY <1>2, <1>3, <1>4
  <2>2. refused' = (pending > Free)
    BY DEF handle_accept
  <2>3. pending' > 0 => refused'
    BY <2>1, <2>2
  <2>4. QED BY <2>3 DEF PendingHasEdge
<1>18. TypeOK'
  BY <1>1, <1>4, <1>8, <1>9, <1>12, <1>13 DEF handle_accept, LoopInv, TypeOK, HandlerType
<1>19. QED BY <1>1, <1>12, <1>15, <1>16, <1>17, <1>18 DEF LoopInv

\* The event at hand is of a connection that is there.
LEMMA EventOwner ==
  ASSUME LoopInv, NEW kind \in {"HUP", "IN", "OUT"}, Works(kind)
  PROVE  /\ m_epev_arr # <<>> /\ Event1 # Listen /\ NextEvent /\ turn # "wait"
         /\ UNCHANGED <<turn, loop_times, pending, edge, m_fd_index, refused>>
         /\ Event1.fd \in Fd
         /\ fds[Event1.fd] \in Conns /\ fds[Event1.fd] = Event1.index
         /\ kind = "HUP" => client[fds[Event1.fd]].gone
<1>1. /\ m_epev_arr # <<>> /\ NextEvent /\ turn # "wait" /\ Event1.kind = kind
      /\ UNCHANGED <<turn, loop_times, pending, edge, m_fd_index, refused>>
      /\ fds[Event1.fd] # NoConn /\ fds[Event1.fd] = Event1.index
  BY DEF Works, ForItsHandler
<1>2. Event1 # Listen
  BY <1>1 DEF Listen
<1>3. Event1 \in Event /\ 1 \in DOMAIN m_epev_arr /\ Event1 = m_epev_arr[1]
  BY <1>1, TailOfBatch DEF Event1
<1>4. Event1.fd \in Fd /\ fds[Event1.fd] \in Conns
  BY <1>1, <1>2, <1>3, EventFields DEF LoopInv, TypeOK
<1>5. kind = "HUP" => client[fds[Event1.fd]].gone
  BY <1>1, <1>3 DEF LoopInv, HangupsMeanGone
<1>6. QED BY <1>1, <1>2, <1>4, <1>5

LEMMA ClosesKeep ==
  ASSUME LoopInv, Hangup \/ ReadFails \/ OutputFails \/ \E c \in Conns : RunTimer(c)
  PROVE  LoopInv'
<1>1. ASSUME NEW kind \in {"HUP", "IN", "OUT"}, Works(kind), Closed(fds[Event1.fd])
      PROVE  LoopInv'
  BY <1>1, EventOwner, CloseAndNext
<1>2. ASSUME NEW c \in Conns, RunTimer(c)
      PROVE  LoopInv'
  <2>1. /\ Closed(c) /\ turn # "wait" /\ UNCHANGED m_epev_arr
        /\ UNCHANGED <<turn, loop_times, pending, edge, m_fd_index, refused>>
    BY <1>2 DEF RunTimer
  <2>2. QED BY <2>1, CloseAndNext
<1>3. QED BY <1>1, <1>2 DEF Hangup, ReadFails, OutputFails

\* What a handler looks like after an event that does not close it.
LEMMA WorkKeeps ==
  ASSUME LoopInv, NEW kind \in {"IN", "OUT"}, Works(kind), NEW h \in HandlerType,
         handler' = [handler EXCEPT ![fds[Event1.fd]] = h],
         h.timer # "off" => ~ h.heard,
         h.ring > 0 => h.watch = "OUT",
         UNCHANGED fds,
         client' \in [Conns -> [sends : BOOLEAN, gone : BOOLEAN]],
         \A d \in Conns : client'[d].gone = client[d].gone
  PROVE  LoopInv'
<1>1. /\ m_epev_arr # <<>> /\ Event1 # Listen /\ NextEvent /\ turn # "wait"
      /\ UNCHANGED <<turn, loop_times, pending, edge, m_fd_index, refused>>
      /\ fds[Event1.fd] \in Conns
  BY EventOwner
<1>2. /\ m_epev_arr' \in Seq(Event)
      /\ \A i \in DOMAIN m_epev_arr' :
           m_epev_arr'[i] # Listen => m_epev_arr'[i].index <= m_fd_index
      /\ \A i \in DOMAIN m_epev_arr' :
           m_epev_arr'[i].kind = "HUP" /\ fds[m_epev_arr'[i].fd] = m_epev_arr'[i].index
             => client[m_epev_arr'[i].index].gone
      /\ PendingHasEdge'
  BY <1>1, NextEventKeeps
<1>3. handler \in [Conns -> HandlerType]
  BY DEF LoopInv, TypeOK, HandlerType
<1>4. /\ handler' \in [Conns -> HandlerType]
      /\ \A c \in Conns : handler'[c] = IF c = fds[Event1.fd] THEN h ELSE handler[c]
  BY <1>1, <1>3
<1>5. TimerUntilHeard' /\ KeptIsWatched'
  BY <1>4 DEF LoopInv, TimerUntilHeard, KeptIsWatched
<1>6. TypeOK'
  BY <1>1, <1>2, <1>4 DEF LoopInv, TypeOK, HandlerType
<1>7. Numbered'
  BY <1>1, <1>2 DEF LoopInv, Numbered
<1>8. HangupsMeanGone'
  <2>1. ASSUME NEW i \in DOMAIN m_epev_arr', m_epev_arr'[i].kind = "HUP",
               fds'[m_epev_arr'[i].fd] = m_epev_arr'[i].index
        PROVE  client'[m_epev_arr'[i].index].gone
    <3>1. m_epev_arr'[i] \in Event /\ m_epev_arr'[i] # Listen
      BY <1>2, <2>1 DEF Listen
    <3>2. QED BY <1>2, <2>1, <3>1, EventFields
  <2>2. QED BY <2>1 DEF HangupsMeanGone
<1>9. QED BY <1>1, <1>2, <1>5, <1>6, <1>7, <1>8 DEF LoopInv

\* Answers go into the ring as far as they fit, and what stays there is watched for.
LEMMA AnsweredType ==
  ASSUME NEW h \in HandlerType, NEW n \in Nat, NEW left \in 0..Cap,
         h.ring > 0 => h.watch = "OUT", h.timer = "off"
  PROVE  /\ Answered(h, n, left) \in HandlerType
         /\ Answered(h, n, left).timer = "off"
         /\ Answered(h, n, left).ring > 0 => Answered(h, n, left).watch = "OUT"
<1> DEFINE sent == IF h.ring + n > Cap THEN [h EXCEPT !.bfull = TRUE] ELSE [h EXCEPT !.ring = left]
<1>1. Cap \in Nat /\ h.ring \in 0..Cap
  BY LoopAssumption DEF HandlerType
<1>2. sent \in HandlerType /\ sent.timer = "off"
  <2>1. CASE h.ring + n > Cap
    BY <2>1 DEF HandlerType
  <2>2. CASE ~ (h.ring + n > Cap)
    <3>1. [h EXCEPT !.ring = left] \in HandlerType /\ [h EXCEPT !.ring = left].timer = "off"
      BY DEF HandlerType
    <3>2. QED BY <2>2, <3>1
  <2>3. QED BY <2>1, <2>2
<1>3. Answered(h, n, left) = [sent EXCEPT !.watch = IF sent.ring > 0 THEN "OUT" ELSE @]
  BY DEF Answered
<1> HIDE DEF sent
<1>4. QED BY <1>2, <1>3 DEF HandlerType

LEMMA ReadKeeps ==
  ASSUME LoopInv, NEW first \in 0..MaxReplies, NEW second \in 0..MaxReplies,
         NEW left1 \in 0..Cap, NEW left2 \in 0..Cap, Read(first, left1, second, left2)
  PROVE  LoopInv'
<1> DEFINE c == fds[Event1.fd]
           h0 == Heard(handler[c])
           h1 == Answered(h0, first, left1)
           h2 == Answered(h1, second, left2)
<1>1. /\ Works("IN")
      /\ handler' = [handler EXCEPT ![c] = h2]
      /\ client' = [client EXCEPT ![c].sends = FALSE]
      /\ UNCHANGED fds
      /\ left1 <= handler[c].ring + first
  BY DEF Read
<1>2. c \in Conns /\ handler[c] \in HandlerType /\ client[c] \in [sends : BOOLEAN, gone : BOOLEAN]
  BY <1>1, EventOwner DEF LoopInv, TypeOK, HandlerType
<1>3. /\ h0 \in HandlerType /\ h0.timer = "off" /\ h0.ring = handler[c].ring
      /\ h0.ring > 0 => h0.watch = "OUT"
  BY <1>2 DEF Heard, HandlerType, LoopInv, KeptIsWatched
<1>4. first \in Nat /\ second \in Nat
  BY LoopAssumption
<1> HIDE DEF c, h0
<1>5. /\ h1 \in HandlerType /\ h1.timer = "off"
      /\ h1.ring > 0 => h1.watch = "OUT"
  BY <1>3, <1>4, AnsweredType
<1> HIDE DEF h1
<1>6. /\ h2 \in HandlerType /\ h2.timer = "off"
      /\ h2.ring > 0 => h2.watch = "OUT"
  BY <1>4, <1>5, AnsweredType
<1> HIDE DEF h2
<1>7. /\ client' \in [Conns -> [sends : BOOLEAN, gone : BOOLEAN]]
      /\ \A d \in Conns : client'[d].gone = client[d].gone
  BY <1>1, <1>2 DEF LoopInv, TypeOK
<1>8. QED BY <1>1, <1>6, <1>7, WorkKeeps DEF c

LEMMA OutputKeeps ==
  ASSUME LoopInv, NEW left \in 0..Cap, Output(left)
  PROVE  LoopInv'
<1> DEFINE c == fds[Event1.fd]
           h == [handler[c] EXCEPT !.ring = left, !.watch = IF left = 0 THEN "IN" ELSE "OUT"]
<1>1. /\ Works("OUT") /\ UNCHANGED <<fds, client>>
      /\ handler' = [handler EXCEPT ![c].ring = left,
                                    ![c].watch = IF left = 0 THEN "IN" ELSE "OUT"]
  BY DEF Output
<1>2. c \in Conns /\ handler \in [Conns -> HandlerType]
  BY <1>1, EventOwner DEF LoopInv, TypeOK, HandlerType
<1>3. handler' = [handler EXCEPT ![c] = h]
  BY <1>1, <1>2 DEF HandlerType
<1>4. /\ h \in HandlerType
      /\ h.timer # "off" => ~ h.heard
      /\ h.ring > 0 => h.watch = "OUT"
  <2>1. /\ handler[c] \in HandlerType
        /\ handler[c].timer # "off" => ~ handler[c].heard
    BY <1>2 DEF LoopInv, TimerUntilHeard
  <2>2. h \in HandlerType
    BY <2>1 DEF HandlerType
  <2>3. h.timer = handler[c].timer /\ h.heard = handler[c].heard
        /\ h.ring = left /\ h.watch = IF left = 0 THEN "IN" ELSE "OUT"
    BY <2>1 DEF HandlerType
  <2>4. QED BY <2>1, <2>2, <2>3
<1>5. client' \in [Conns -> [sends : BOOLEAN, gone : BOOLEAN]]
  BY <1>1 DEF LoopInv, TypeOK
<1> HIDE DEF h
<1>6. QED BY <1>1, <1>3, <1>4, <1>5, WorkKeeps DEF c

LEMMA StaleKeeps ==
  ASSUME LoopInv, StaleEvent
  PROVE  LoopInv'
<1>1. /\ m_epev_arr # <<>> /\ Event1 # Listen /\ NextEvent /\ turn # "wait"
      /\ UNCHANGED <<turn, loop_times, pending, edge, m_fd_index, fds, handler, client, refused>>
  BY DEF StaleEvent
<1>2. /\ m_epev_arr' \in Seq(Event)
      /\ \A i \in DOMAIN m_epev_arr' :
           m_epev_arr'[i] # Listen => m_epev_arr'[i].index <= m_fd_index
      /\ \A i \in DOMAIN m_epev_arr' :
           m_epev_arr'[i].kind = "HUP" /\ fds[m_epev_arr'[i].fd] = m_epev_arr'[i].index
             => client[m_epev_arr'[i].index].gone
      /\ PendingHasEdge'
  BY <1>1, NextEventKeeps
<1>3. TypeOK'
  BY <1>1, <1>2 DEF LoopInv, TypeOK
<1>4. QED BY <1>1, <1>2, <1>3
          DEF LoopInv, Numbered, HangupsMeanGone, TimerUntilHeard, KeptIsWatched

-----------------------------------------------------------------------------
LEMMA NextLoopInv == LoopInv /\ [Next]_vars => LoopInv'
<1> SUFFICES ASSUME LoopInv, [Next]_vars PROVE LoopInv'
  OBVIOUS
<1>1. CASE Arrive \/ \E c \in Conns : ClientSends(c) \/ ClientLeaves(c) \/ TimePasses(c)
  BY <1>1, OutsideKeeps
<1>2. CASE Wait \/ WaitTimesOut \/ TimersDone \/ BatchDone
  BY <1>2, WaitKeeps, TurnKeeps
<1>3. CASE handle_accept \/ StaleEvent
  BY <1>3, AcceptKeeps, StaleKeeps
<1>4. CASE Hangup \/ ReadFails \/ OutputFails \/ \E c \in Conns : RunTimer(c)
  BY <1>4, ClosesKeep
<1>5. CASE \/ \E first, second \in 0..MaxReplies, left1, left2 \in 0..Cap :
                Read(first, left1, second, left2)
           \/ \E left \in 0..Cap : Output(left)
  BY <1>5, ReadKeeps, OutputKeeps
<1>6. CASE UNCHANGED vars
  BY <1>6 DEF vars, LoopInv, TypeOK, Numbered, HangupsMeanGone, TimerUntilHeard,
              KeptIsWatched, PendingHasEdge, Event1
<1>7. QED BY <1>1, <1>2, <1>3, <1>4, <1>5, <1>6 DEF Next, Loop

LEMMA LoopInvariant == Spec => []LoopInv
BY InitLoopInv, NextLoopInv, PTL DEF Spec

\* No descriptor has two connections, and what the ring of a handler holds fits.
THEOREM LoopTypes == Spec => []TypeOK
<1>1. LoopInv => TypeOK
  BY DEF LoopInv
<1>2. QED BY <1>1, LoopInvariant, PTL

\* TcpHandler never keeps bytes for a client without watching its socket for
\* writing, however many answers, short writes and closes come in between.
THEOREM WhatIsKeptIsWatched == Spec => []KeptIsWatched
<1>1. LoopInv => KeptIsWatched
  BY DEF LoopInv
<1>2. QED BY <1>1, LoopInvariant, PTL

\* The edge of the listening socket is never lost: a connection waits without one
\* only because accept failed for want of a descriptor.
THEOREM EdgesAreNotLost == Spec => []PendingHasEdge
<1>1. LoopInv => PendingHasEdge
  BY DEF LoopInv
<1>2. QED BY <1>1, LoopInvariant, PTL

\* An event is worked off for the connection it was reported of only, although its
\* descriptor may serve another one by then: nobody is closed for what happened to
\* the one who had the descriptor before.
THEOREM NobodyIsClosedForAnother == Spec => ClosedForAReason
<1> DEFINE Reason(c) == \/ client[c].gone \/ client[c].sends \/ handler[c].bfull
                        \/ handler[c].timer = "due" /\ ~ handler[c].heard
<1>1. ASSUME LoopInv, Next, NEW c \in Conns, Open(c), ~ Open(c)'
      PROVE  Reason(c)
  <2>1. PICK fd \in Fd : fds[fd] = c /\ fds'[fd] # c
    BY <1>1 DEF Open
  <2>2. c # NoConn
    BY DEF Conns, NoConn
  <2>3. ASSUME NEW d \in Conns, Closed(d)
        PROVE  c = d
    BY <1>1, <2>1, <2>3, ClosedKeeps
  <2>4. CASE \E d \in Conns : RunTimer(d)
    <3>1. PICK d \in Conns : RunTimer(d)
      BY <2>4
    <3>2. Closed(d) /\ handler[d].timer = "due"
      BY <3>1 DEF RunTimer
    <3>3. handler[d].timer # "off"
      BY <3>2
    <3>4. ~ handler[d].heard
      BY <1>1, <3>3 DEF LoopInv, TimerUntilHeard
    <3>5. QED BY <2>3, <3>2, <3>4
  <2>5. CASE Hangup
    BY <1>1, <2>3, <2>5, EventOwner DEF Hangup
  <2>6. CASE ReadFails
    BY <1>1, <2>3, <2>6, EventOwner DEF ReadFails
  <2>7. CASE OutputFails
    BY <1>1, <2>3, <2>7, EventOwner DEF OutputFails
  <2>8. fds' = fds => FALSE
    BY <2>1
  <2>9. CASE handle_accept
    <3>1. fds'[fd] = fds[fd]
      BY <2>1, <2>2, <2>9 DEF handle_accept
    <3>2. QED BY <2>1, <3>1
  <2>10. QED
    BY <1>1, <2>4, <2>5, <2>6, <2>7, <2>8, <2>9
    DEF Next, Loop, Arrive, ClientSends, ClientLeaves, TimePasses, Wait, WaitTimesOut,
        TimersDone, BatchDone, StaleEvent, Read, Output
<1>2. LoopInv /\ [Next]_vars
        => [\A c \in Conns : Open(c) /\ ~ Open(c)' => Reason(c)]_vars
  BY <1>1
<1>3. QED BY <1>2, LoopInvariant, PTL DEF Spec, ClosedForAReason
=============================================================================
