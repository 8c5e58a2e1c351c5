------------------------------ MODULE EventLoop ------------------------------
(***************************************************************************)
(* The event loop and the connections of clients (GameLib/TcpServer.cpp,   *)
(* TcpHandler.cpp, SocketHandler.cpp, SocketServer.cpp).  epoll_wait       *)
(* returns a batch of events; timers run before the batch is worked off,   *)
(* so an event may be for a connection that is closed by then and whose    *)
(* descriptor serves another one.  Descriptors run out, the listening      *)
(* socket is watched for edges only, and a socket is watched either for    *)
(* reading or for writing.                                                 *)
(*                                                                         *)
(* A connection is known by the value of m_fd_index it was given; what the *)
(* ring holds is counted.  Clients send, leave and read as they like.      *)
(***************************************************************************)
EXTENDS Integers, Sequences, FiniteSets, SequencesExt

CONSTANTS Fd,          \* descriptors the process may have for clients
          MaxConns,    \* bound: the connections that arrive
          Cap,         \* the units the ring of a handler holds
          MaxReplies,  \* bound: the units answered to the packets of one read
          CheckPoint   \* timer_check_point

ASSUME LoopAssumption ==
  /\ Fd \subseteq Nat \ {0} /\ IsFiniteSet(Fd)
  /\ MaxConns \in Nat /\ Cap \in Nat /\ MaxReplies \in Nat
  /\ CheckPoint \in Nat \ {0}

Conns  == 1..MaxConns
NoConn == 0
Listen == [fd |-> 0, index |-> 0, kind |-> "LISTEN"]
Event  == [fd : Fd, index : Conns, kind : {"HUP", "IN", "OUT"}] \cup {Listen}

VARIABLES turn,       \* the loop waits, runs the timers, or works off the batch
          m_epev_arr, \* the events of the batch not yet worked off
          loop_times,
          pending,    \* connections in the queue of the listening socket
          edge,       \* its edge, not yet returned by epoll_wait
          m_fd_index, \* how many connections were added
          fds,        \* descriptor -> the handler's connection, or NoConn
          handler,    \* connection -> its handler
          client,     \* connection -> what its client does
          refused     \* accept has failed since the last connection arrived

vars == <<turn, m_epev_arr, loop_times, pending, edge, m_fd_index, fds,
          handler, client, refused>>

NewHandler == [heard |-> FALSE, timer |-> "off", ring |-> 0, bfull |-> FALSE, watch |-> "IN"]
NewClient  == [sends |-> FALSE, gone |-> FALSE]

Open(c) == \E fd \in Fd : fds[fd] = c

TypeOK ==
  /\ turn \in {"wait", "timers", "batch"}
  /\ m_epev_arr \in Seq(Event)
  /\ loop_times \in 0..CheckPoint
  /\ pending \in 0..MaxConns /\ m_fd_index \in 0..MaxConns
  /\ edge \in BOOLEAN /\ refused \in BOOLEAN
  /\ fds \in [Fd -> Conns \cup {NoConn}]
  /\ handler \in [Conns -> [heard : BOOLEAN, timer : {"off", "on", "due"},
                            ring : 0..Cap, bfull : BOOLEAN, watch : {"IN", "OUT"}]]
  /\ client \in [Conns -> [sends : BOOLEAN, gone : BOOLEAN]]
  /\ \A f, g \in Fd : fds[f] = fds[g] /\ fds[f] # NoConn => f = g

Init ==
  /\ turn = "wait" /\ m_epev_arr = <<>> /\ loop_times = 0
  /\ pending = 0 /\ edge = FALSE /\ m_fd_index = 0 /\ refused = FALSE
  /\ fds = [fd \in Fd |-> NoConn]
  /\ handler = [c \in Conns |-> NewHandler]
  /\ client = [c \in Conns |-> NewClient]

-----------------------------------------------------------------------------
(* The clients, the network and time.  What happens during a turn of the   *)
(* loop is what the next turn finds.                                       *)

Arrive ==
  /\ turn = "wait"
  /\ pending + m_fd_index < MaxConns
  /\ pending' = pending + 1
  /\ edge' = TRUE /\ refused' = FALSE
  /\ UNCHANGED <<turn, m_epev_arr, loop_times, m_fd_index, fds, handler, client>>

ClientSends(c) ==
  /\ turn = "wait"
  /\ Open(c) /\ ~ client[c].gone /\ ~ client[c].sends
  /\ client' = [client EXCEPT ![c].sends = TRUE]
  /\ UNCHANGED <<turn, m_epev_arr, loop_times, pending, edge, m_fd_index, fds, handler, refused>>

ClientLeaves(c) ==
  /\ turn = "wait"
  /\ Open(c) /\ ~ client[c].gone
  /\ client' = [client EXCEPT ![c].gone = TRUE]
  /\ UNCHANGED <<turn, m_epev_arr, loop_times, pending, edge, m_fd_index, fds, handler, refused>>

\* s_DisNoMsgTime seconds have passed.
TimePasses(c) ==
  /\ turn = "wait"
  /\ Open(c) /\ handler[c].timer = "on"
  /\ handler' = [handler EXCEPT ![c].timer = "due"]
  /\ UNCHANGED <<turn, m_epev_arr, loop_times, pending, edge, m_fd_index, fds, client, refused>>

-----------------------------------------------------------------------------
(* epoll_wait and the timers.                                              *)

\* What epoll may report of a descriptor: a client that has left is seen as a
\* hangup, by a read, or by a write.
Reports(fd) ==
  LET c == fds[fd] IN
  IF c = NoConn THEN {}
  ELSE {[fd |-> fd, index |-> c, kind |-> kind] : kind \in
          (IF client[c].gone THEN {"HUP"} ELSE {})
          \cup (IF handler[c].watch = "OUT" THEN {"OUT"} ELSE {})
          \cup (IF handler[c].watch = "IN" /\ (client[c].sends \/ client[c].gone)
                THEN {"IN"} ELSE {})}

\* Nothing but a socket watched for writing need not be ready.
MustReport ==
  {fd \in Fd : \E e \in Reports(fd) : e.kind # "OUT" \/ client[e.index].gone}

Ready == (UNION {Reports(fd) : fd \in Fd}) \cup (IF edge THEN {Listen} ELSE {})

\* The batches: one event of each descriptor that is ready, in any order.
Batches ==
  UNION {SetToSeqs(S) : S \in {S \in SUBSET Ready :
     /\ \A d, e \in S : d.fd = e.fd => d = e
     /\ MustReport \cup (IF edge THEN {Listen.fd} ELSE {}) \subseteq {e.fd : e \in S}}}

\* A wrong count of turns, which starts anew with every batch.
TurnsAnew(n) == 1

Turns(n) == n + 1

\* Events: the timers are run in every CheckPoint-th turn only.
Wait ==
  /\ turn = "wait"
  /\ \E b \in Batches : b # <<>> /\ m_epev_arr' = b
  /\ edge' = FALSE
  /\ IF Turns(loop_times) >= CheckPoint
     THEN turn' = "timers" /\ loop_times' = 0
     ELSE turn' = "batch" /\ loop_times' = Turns(loop_times)
  /\ UNCHANGED <<pending, m_fd_index, fds, handler, client, refused>>

\* epoll_wait times out: only the timers are run.
WaitTimesOut ==
  /\ turn = "wait"
  /\ MustReport = {} /\ ~ edge
  /\ turn' = "timers" /\ loop_times' = 0
  /\ UNCHANGED <<m_epev_arr, pending, edge, m_fd_index, fds, handler, client, refused>>

\* handle_close: StopTimer, OnClose, RemoveSocket and the end of the handler.
Closed(c) ==
  /\ fds' = [fd \in Fd |-> IF fds[fd] = c THEN NoConn ELSE fds[fd]]
  /\ handler' = [handler EXCEPT ![c] = NewHandler]
  /\ client' = [client EXCEPT ![c] = NewClient]

\* run_timer: ProcessOnTimerOut of one timer that is due disconnects the client.
RunTimer(c) ==
  /\ turn = "timers"
  /\ Open(c) /\ handler[c].timer = "due"
  /\ Closed(c)
  /\ UNCHANGED <<turn, m_epev_arr, loop_times, pending, edge, m_fd_index, refused>>

TimersDone ==
  /\ turn = "timers"
  /\ \A c \in Conns : Open(c) => handler[c].timer # "due"
  /\ turn' = "batch"
  /\ UNCHANGED <<m_epev_arr, loop_times, pending, edge, m_fd_index, fds, handler, client, refused>>

-----------------------------------------------------------------------------
(* The events of the batch.                                                *)

Lesser(a, b) == IF a <= b THEN a ELSE b

Event1 == m_epev_arr[1]
NextEvent == m_epev_arr' = Tail(m_epev_arr)

BatchDone ==
  /\ turn = "batch" /\ m_epev_arr = <<>>
  /\ turn' = "wait"
  /\ UNCHANGED <<m_epev_arr, loop_times, pending, edge, m_fd_index, fds, handler, client, refused>>

Free == Cardinality({fd \in Fd : fds[fd] = NoConn})

\* A wrong handle_accept, which takes one connection and no more.
AcceptsOne == Lesser(1, Lesser(pending, Free))

Accepts == Lesser(pending, Free)

\* The lowest descriptor that is free is taken first.
FreeBefore(fd) == Cardinality({f \in Fd : f < fd /\ fds[f] = NoConn})

Connected == [NewHandler EXCEPT !.timer = "on"]

\* handle_accept goes on until accept fails: nobody is waiting any more, or there
\* is no descriptor left.  AddSocket and OnConnected are done for each.
handle_accept ==
  /\ turn = "batch" /\ m_epev_arr # <<>> /\ Event1 = Listen
  /\ NextEvent
  /\ pending' = pending - Accepts
  /\ refused' = (pending > Free)
  /\ m_fd_index' = m_fd_index + Accepts
  /\ fds' = [fd \in Fd |-> IF fds[fd] = NoConn /\ FreeBefore(fd) < Accepts
                           THEN m_fd_index + 1 + FreeBefore(fd) ELSE fds[fd]]
  /\ handler' = [c \in Conns |-> IF c \in (m_fd_index + 1)..(m_fd_index + Accepts)
                                 THEN Connected ELSE handler[c]]
  /\ UNCHANGED <<turn, loop_times, edge, client>>

\* A wrong loop, which looks for a handler of the descriptor only.
ForAnyHandler(e) == fds[e.fd] # NoConn

ForItsHandler(e) == fds[e.fd] # NoConn /\ fds[e.fd] = e.index

StaleEvent ==
  /\ turn = "batch" /\ m_epev_arr # <<>> /\ Event1 # Listen
  /\ ~ ForItsHandler(Event1)
  /\ NextEvent
  /\ UNCHANGED <<turn, loop_times, pending, edge, m_fd_index, fds, handler, client, refused>>

Works(kind) ==
  /\ turn = "batch" /\ m_epev_arr # <<>> /\ Event1.kind = kind
  /\ ForItsHandler(Event1)
  /\ NextEvent
  /\ UNCHANGED <<turn, loop_times, pending, edge, m_fd_index, refused>>

Hangup == Works("HUP") /\ Closed(fds[Event1.fd])

\* handle_read of an overfull handler, of a client that left, or of bytes the
\* parser or the server refuses (also a policy file that was answered).
ReadFails ==
  /\ Works("IN")
  /\ LET c == fds[Event1.fd] IN
     /\ handler[c].bfull \/ client[c].gone \/ client[c].sends
     /\ Closed(c)

Heard(h) == [h EXCEPT !.heard = TRUE, !.timer = "off"]

\* A wrong Send, which does not watch for writing what the socket did not take.
AnsweredUnwatched(h, n, left) ==
  IF h.ring + n > Cap THEN [h EXCEPT !.bfull = TRUE] ELSE [h EXCEPT !.ring = left]

\* The handler after n units more to send, `left' of which remain.  When they do
\* not fit, what is there stays and the handler is overfull.
Answered(h, n, left) ==
  LET sent == IF h.ring + n > Cap THEN [h EXCEPT !.bfull = TRUE] ELSE [h EXCEPT !.ring = left]
  IN [sent EXCEPT !.watch = IF sent.ring > 0 THEN "OUT" ELSE @]

\* handle_read: OnParser stops the timer; the packets have one answer or two.
Read(first, left1, second, left2) ==
  /\ Works("IN")
  /\ LET c == fds[Event1.fd] IN
     /\ client[c].sends /\ ~ handler[c].bfull
     /\ left1 <= handler[c].ring + first /\ left1 <= Cap
     /\ left2 <= left1 + second
     /\ handler' = [handler EXCEPT ![c] = Answered(Answered(Heard(@), first, left1), second, left2)]
     /\ client' = [client EXCEPT ![c].sends = FALSE]
     /\ UNCHANGED fds

OutputFails ==
  /\ Works("OUT")
  /\ LET c == fds[Event1.fd] IN
     /\ handler[c].ring > 0
     /\ handler[c].bfull \/ client[c].gone
     /\ Closed(c)

\* handle_output: something is sent, and reading goes on when all of it is.
Output(left) ==
  /\ Works("OUT")
  /\ LET c == fds[Event1.fd] IN
     /\ ~ handler[c].bfull \/ handler[c].ring = 0
     /\ left = 0 \/ left < handler[c].ring
     /\ handler' = [handler EXCEPT ![c].ring = left,
                                   ![c].watch = IF left = 0 THEN "IN" ELSE "OUT"]
     /\ UNCHANGED <<fds, client>>

-----------------------------------------------------------------------------

Loop ==
  \/ Wait \/ WaitTimesOut \/ TimersDone \/ BatchDone
  \/ handle_accept \/ StaleEvent \/ Hangup \/ ReadFails \/ OutputFails
  \/ \E c \in Conns : RunTimer(c)
  \/ \E first, second \in 0..MaxReplies, left1, left2 \in 0..Cap :
        Read(first, left1, second, left2)
  \/ \E left \in 0..Cap : Output(left)

Next ==
  \/ Arrive \/ Loop
  \/ \E c \in Conns : ClientSends(c) \/ ClientLeaves(c) \/ TimePasses(c)

Spec == Init /\ [][Next]_vars

\* Clients read what is sent to them: each socket watched for writing is ready.
AllReport == Wait /\ Len(m_epev_arr') >= Cardinality({fd \in Fd : Reports(fd) # {}})

\* The loop runs on for ever, clients read in the end, and time passes (SF of the union is
\* enough, for each of the connections lets its time pass once).
Fairness ==
  /\ []<><<Loop>>_vars
  /\ SF_vars(\E c \in Conns : TimePasses(c))
  /\ SF_vars(AllReport)

FairSpec == Spec /\ Fairness

-----------------------------------------------------------------------------
(* Properties.                                                             *)

\* A connection is closed for a reason of its own: its client has left, its timer
\* ran out before it was heard, it is overfull, or what it sent is refused.  An
\* event for the connection that had the descriptor before does nothing to it.
ClosedForAReason ==
  [][\A c \in Conns : Open(c) /\ ~ Open(c)' =>
       \/ client[c].gone \/ client[c].sends \/ handler[c].bfull
       \/ handler[c].timer = "due" /\ ~ handler[c].heard]_vars

\* What is kept for a client is watched for: it is never left to the next answer.
KeptIsWatched ==
  \A c \in Conns : handler[c].ring > 0 => handler[c].watch = "OUT"

\* A connection waits to be accepted only with an edge still to come or to be
\* worked off, unless accept has failed for want of a descriptor since it came.
PendingHasEdge ==
  pending > 0 =>
    edge \/ refused \/ \E i \in DOMAIN m_epev_arr : m_epev_arr[i] = Listen

\* Neither a client that says nothing nor an overfull handler stays: the one is
\* disconnected, however busy the loop is, and the other is given up.
SilentAndOverfullEnd ==
  \A c \in Conns :
    (Open(c) /\ (~ handler[c].heard \/ handler[c].bfull))
      ~> (Open(c) => handler[c].heard /\ ~ handler[c].bfull)
=============================================================================
