------------------------------ MODULE HallLink ------------------------------
(***************************************************************************)
(* The connection to the hall (Server/CentHandler.cpp, CentServer.cpp with *)
(* GameLib/TcpHandler.cpp, Connector.cpp and the event loop of             *)
(* TcpServer.cpp).  One handler serves one connection after the other: its *)
(* ring, its overfull flag and its parser (PacketParser) live on.  The     *)
(* ring is the queue that LoopBuffer is shown to implement.                *)
(*                                                                         *)
(* The thread of the loop does one event or timer at a time.  The socket   *)
(* may break, the hall may send at any time and read as slowly as it       *)
(* likes; what it has read is judged by an automaton.                      *)
(***************************************************************************)
EXTENDS PacketParser

CONSTANTS Parts,       \* the units of a message the server sends
          Cap,         \* the units the ring can hold
          RecvMax,     \* RECV_BUFFER_SIZE
          PolicyLen,   \* 23: "<policy-file-request/>" and a NUL
          MaxPackets,  \* bound: the packets of the hall on one connection
          MaxBreaks    \* bound: how often a connection breaks

ASSUME LinkAssumption ==
  /\ Parts \in Nat \ {0} /\ Cap \in Nat /\ Parts <= Cap
  /\ RecvMax \in Nat \ {0} /\ PolicyLen \in Nat \ {0}
  /\ MaxPackets \in Nat /\ MaxBreaks \in Nat

VARIABLES m_bIsConnect,
          ring,      \* m_pSendLoopBuffer
          m_bfull,
          interest,  \* what epoll watches: "IN", "OUT" or nothing
          m_TcpTimer,\* the reconnect timer runs
          reading,   \* handle_read is under way; the last recv filled the buffer,
                     \* or not, or was taken for a policy request
          wire,      \* bytes the hall has sent and nobody received
          sent,      \* the packets the hall has sent on this connection
          broken,    \* the socket is of no use any more
          breaks,
          hall,      \* what the hall makes of the units it received
          fresh      \* how this connection began: with an empty parser, an empty ring

linkVars == <<m_bIsConnect, ring, m_bfull, interest, m_TcpTimer, reading,
              wire, sent, broken, breaks, hall, fresh>>
vars == <<parserVars, linkVars>>

Message(kind) == [part \in 1..Parts |-> [kind |-> kind, part |-> part]]

\* The hall expects whole messages, first of all the registration.
NewHall == [registered |-> FALSE, kind |-> "none", next |-> 1, ok |-> TRUE]

Hears(h, unit) ==
  IF h.ok /\ unit.part = h.next
          /\ (unit.part = 1 => h.registered \/ unit.kind = "REGIST")
          /\ (unit.part > 1 => unit.kind = h.kind)
  THEN [registered |-> h.registered \/ unit.part = Parts,
        kind |-> IF unit.part = Parts THEN "none" ELSE unit.kind,
        next |-> IF unit.part = Parts THEN 1 ELSE unit.part + 1, ok |-> TRUE]
  ELSE [NewHall EXCEPT !.ok = FALSE]

\* What it makes of the first n of the units.
Heard(h, units, n) ==
  LET after[k \in 0..n] == IF k = 0 THEN h ELSE Hears(after[k - 1], units[k])
  IN  after[n]

TypeOK ==
  /\ ParserTypeOK
  /\ m_bIsConnect \in BOOLEAN /\ m_bfull \in BOOLEAN /\ m_TcpTimer \in BOOLEAN
  /\ ring \in Seq([kind : {"REGIST", "MSG", "POLICY"}, part : 1..Parts])
  /\ Len(ring) <= Cap
  /\ interest \in {"IN", "OUT", "NONE"}
  /\ reading \in {"no", "more", "last", "policy"}
  /\ wire \in Seq(Bytes) /\ sent \in 0..MaxPackets
  /\ broken \in BOOLEAN /\ breaks \in 0..MaxBreaks
  /\ hall \in [registered : BOOLEAN, kind : {"REGIST", "MSG", "POLICY", "none"},
               next : 1..Parts, ok : BOOLEAN]
  /\ fresh \in [parser : BOOLEAN, ring : BOOLEAN]

\* InitConnect failed and Reconnection has started the timer.
Init ==
  /\ ParserInit
  /\ m_bIsConnect = FALSE /\ ring = <<>> /\ m_bfull = FALSE
  /\ interest = "NONE" /\ m_TcpTimer = TRUE /\ reading = "no"
  /\ wire = <<>> /\ sent = 0 /\ broken = FALSE /\ breaks = 0
  /\ hall = NewHall /\ fresh = [parser |-> TRUE, ring |-> TRUE]

-----------------------------------------------------------------------------
(* TcpHandler: sending.                                                    *)

Dropped(units, n) == SubSeq(units, n + 1, Len(units))

\* A wrong handle_output, which erases what it peeked and not what was sent.
SentAndPeeked(units, h, n) ==
  [ring |-> Dropped(units, IF n = 0 THEN 0 ELSE Lesser(n + 1, Len(units))),
   hall |-> Heard(h, units, n)]

Sent(units, h, n) ==
  [ring |-> Dropped(units, n), hall |-> Heard(h, units, n)]

\* What handle_output may leave: the socket takes as much as it likes, and the
\* rest stays.  A broken socket swallows some, or fails, and what was peeked for
\* the failed send is erased as well.  An overfull handler sends nothing.
Output(units, h) ==
  IF m_bfull THEN {[ring |-> units, hall |-> h]}
  ELSE IF broken THEN {[ring |-> Dropped(units, n), hall |-> h] : n \in 0..Len(units)}
  ELSE {Sent(units, h, n) : n \in 0..Len(units)}

\* A wrong Send, which leaves what the socket did not take to the next message.
SendAndForget(kind, h, watched) ==
  LET units == ring \o Message(kind) IN
  IF Len(units) > Cap
  THEN m_bfull' = TRUE /\ hall' = h /\ interest' = watched /\ UNCHANGED ring
  ELSE /\ \E o \in Output(units, h) : ring' = o.ring /\ hall' = o.hall
       /\ interest' = watched
       /\ UNCHANGED m_bfull

\* TcpHandler::Send of a whole message, with the socket watched for `watched'.
Send(kind, h, watched) ==
  LET units == ring \o Message(kind) IN
  IF Len(units) > Cap
  THEN m_bfull' = TRUE /\ hall' = h /\ interest' = watched /\ UNCHANGED ring
  ELSE /\ \E o \in Output(units, h) :
            /\ ring' = o.ring /\ hall' = o.hall
            /\ interest' = IF o.ring # <<>> THEN "OUT" ELSE watched
       /\ UNCHANGED m_bfull

-----------------------------------------------------------------------------
(* Closing and connecting.                                                 *)

\* Bytes that stay in the parser are of an earlier connection from now on.
Old(bytes) == [i \in DOMAIN bytes |-> [bytes[i] EXCEPT !.pkt = 0]]

\* A wrong handle_close, which stops the timer after OnClose has started it.
StoppedAfterStart == FALSE

TimerAfterClose == TRUE

\* TcpServer::handle_close of a handler that is not deleted: StopTimer, OnClose,
\* which starts the timer and tells the server, RemoveSocket.
handle_close ==
  /\ m_bIsConnect' = FALSE
  /\ m_TcpTimer' = TimerAfterClose
  /\ interest' = "NONE"
  /\ reading' = "no"
  /\ wire' = <<>> /\ data' = <<>> /\ call' = "idle" /\ broken' = FALSE
  /\ m_Packet' = Old(m_Packet)
  /\ UNCHANGED <<m_nStatus, m_nTotal, delivered, ring, m_bfull, sent, breaks, hall, fresh>>

\* ProcessOnTimerOut when Connect succeeds: AddSocket, OnConnected, which stops
\* the timer and sends the registration.  When it fails the timer starts again.
Reconnect ==
  /\ ~ m_bIsConnect /\ m_TcpTimer
  /\ m_bIsConnect' = TRUE
  /\ m_TcpTimer' = FALSE
  /\ wire' = <<>> /\ sent' = 0 /\ delivered' = <<>>
  /\ fresh' = [parser |-> m_nStatus = "REQUEST" /\ m_Packet = <<>>,
               ring |-> ring = <<>>]
  /\ Send("REGIST", NewHall, "IN")
  /\ UNCHANGED <<m_nStatus, m_Packet, m_nTotal, data, call, reading, broken, breaks>>

-----------------------------------------------------------------------------
(* The hall and the network.                                               *)

Idle == call = "idle" /\ reading = "no"

HallSends(n) ==
  /\ m_bIsConnect /\ ~ broken /\ Idle
  /\ sent < MaxPackets
  /\ sent' = sent + 1
  /\ wire' = wire \o [i \in 1..n |-> [pkt |-> sent + 1, len |-> n, at |-> i]]
  /\ UNCHANGED <<parserVars, m_bIsConnect, ring, m_bfull, interest, m_TcpTimer,
                 reading, broken, breaks, hall, fresh>>

Break ==
  /\ m_bIsConnect /\ ~ broken /\ Idle
  /\ breaks < MaxBreaks
  /\ broken' = TRUE /\ breaks' = breaks + 1
  /\ UNCHANGED <<parserVars, m_bIsConnect, ring, m_bfull, interest, m_TcpTimer,
                 reading, wire, sent, hall, fresh>>

-----------------------------------------------------------------------------
(* One event of the loop.                                                  *)

\* EPOLLHUP, EPOLLERR, or a read or a write that finds the socket broken.
Hangup ==
  /\ m_bIsConnect /\ broken /\ Idle
  /\ handle_close

\* EPOLLIN or EPOLLOUT with m_bfull: the handler is closed.
Overfull ==
  /\ m_bIsConnect /\ m_bfull /\ Idle
  /\ \/ interest = "IN" /\ wire # <<>>
     \/ interest = "OUT" /\ ring # <<>>
  /\ handle_close

\* One recv of handle_read and the call of the parser with what it returned.
Recv ==
  /\ \E n \in 1..Lesser(Len(wire), RecvMax) :
       /\ ParsePacket(SubSeq(wire, 1, n))
       /\ wire' = Dropped(wire, n)
       /\ reading' = IF n = RecvMax THEN "more" ELSE "last"
  /\ UNCHANGED <<m_bIsConnect, ring, m_bfull, interest, m_TcpTimer,
                 sent, broken, breaks, hall, fresh>>

\* OnParser, where a recv of exactly 23 bytes that begin with "<p" is taken for a
\* request of a Flash player: s_policystr is sent if all of them fit, the parser is
\* not called, and -1 ends the connection.  What a packet holds is left open, but
\* it does not begin so: as a length "<p" is too large, and "BY" follows.
PolicyRequest ==
  /\ PolicyLen <= Lesser(Len(wire), RecvMax)
  /\ wire[1].at > LenField
  /\ wire' = Dropped(wire, PolicyLen)
  /\ reading' = "policy" /\ call' = "fail"
  /\ \/ Send("POLICY", hall, interest)
     \/ UNCHANGED <<ring, m_bfull, hall, interest>>
  /\ UNCHANGED <<m_nStatus, m_Packet, m_nTotal, data, delivered, m_bIsConnect,
                 m_TcpTimer, sent, broken, breaks, fresh>>

HandleRead ==
  /\ m_bIsConnect /\ interest = "IN" /\ Idle /\ ~ m_bfull
  /\ wire # <<>>
  /\ Recv \/ PolicyRequest

\* A step of the loop of the parser.
Parse == ParseStep /\ UNCHANGED linkVars

\* A packet is complete: ProcessPacket may answer it.
Process ==
  /\ PacketComplete
  /\ \/ UNCHANGED linkVars
     \/ /\ Send("MSG", hall, interest)
        /\ UNCHANGED <<m_bIsConnect, m_TcpTimer, reading, wire, sent, broken, breaks, fresh>>

\* The parser returned 0 and the buffer was full: recv again.
RecvMore ==
  /\ \E n \in 1..Lesser(Len(wire), RecvMax) :
       /\ data' = SubSeq(wire, 1, n)
       /\ wire' = Dropped(wire, n)
       /\ reading' = IF n = RecvMax THEN "more" ELSE "last"
  /\ call' = "parsing"
  /\ UNCHANGED <<m_nStatus, m_Packet, m_nTotal, delivered, m_bIsConnect, ring,
                 m_bfull, interest, m_TcpTimer, sent, broken, breaks, hall, fresh>>

ReadMore ==
  /\ call = "ok" /\ reading = "more" /\ wire # <<>>
  /\ RecvMore \/ PolicyRequest

\* handle_read returns 0, for the buffer was not full or nothing has arrived yet.
ReadEnds ==
  /\ call = "ok"
  /\ call' = "idle" /\ reading' = "no"
  /\ interest' = IF ring # <<>> THEN "OUT" ELSE interest
  /\ UNCHANGED <<m_nStatus, m_Packet, m_nTotal, data, delivered, m_bIsConnect, ring,
                 m_bfull, m_TcpTimer, wire, sent, broken, breaks, hall, fresh>>

ReadFails == call = "fail" /\ handle_close

\* A wrong loop, which goes on watching for writing when nothing is left.
StillWatched(units) == "OUT"

WatchedAfter(units) == IF units = <<>> THEN "IN" ELSE "OUT"

\* EPOLLOUT: the socket takes something, unless it is broken.
HandleOutput ==
  /\ m_bIsConnect /\ interest = "OUT" /\ Idle /\ ~ m_bfull
  /\ \E o \in Output(ring, hall) :
       /\ ring # <<>> => Len(o.ring) < Len(ring)
       /\ ring' = o.ring /\ hall' = o.hall
       /\ interest' = WatchedAfter(o.ring)
  /\ UNCHANGED <<parserVars, m_bIsConnect, m_bfull, m_TcpTimer, reading,
                 wire, sent, broken, breaks, fresh>>

\* The timer of a player, whom the hall has logged on by then.
PlayerTimer ==
  /\ m_bIsConnect /\ Idle
  /\ delivered # <<>>
  /\ Send("MSG", hall, interest)
  /\ UNCHANGED <<parserVars, m_bIsConnect, m_TcpTimer, reading, wire, sent, broken, breaks, fresh>>

Step == Parse \/ Process \/ ReadMore \/ ReadEnds \/ ReadFails

Next ==
  \/ Reconnect \/ Break \/ Hangup \/ Overfull
  \/ HandleRead \/ HandleOutput \/ PlayerTimer
  \/ Step
  \/ \E n \in Lens : HallSends(n)

Spec == Init /\ [][Next]_vars

\* The socket takes all there is.
Drain == HandleOutput /\ ring' = <<>>

\* The loop runs on and the hall can be reached.  Timers are seconds apart: they
\* neither keep a readable socket from being read for ever nor fill the ring as
\* fast as a hall that reads can empty it.
Fairness ==
  /\ WF_vars(Reconnect) /\ WF_vars(Step)
  /\ SF_vars(HandleRead) /\ SF_vars(Drain)
  /\ WF_vars(Hangup) /\ WF_vars(Overfull)

FairSpec == Spec /\ Fairness

-----------------------------------------------------------------------------
(* Properties.                                                             *)

\* On a connection that began with an empty parser the packets of the hall are
\* processed whole, each once and in order, however recv cuts the stream.  One cut
\* makes the reading fail, so that the connection is closed in mid-packet: the one
\* that is taken for a policy request (CentHandler.cpp:53).  No other does.
PacketsWhole ==
  fresh.parser /\ m_bIsConnect =>
    /\ delivered = [i \in DOMAIN delivered |-> i]
    /\ m_nStatus # "ERROR"
    /\ call = "fail" => reading = "policy"

\* On a connection that began with an empty ring the hall receives the
\* registration first, and whole messages only, of which an s_policystr counts as
\* one.
StreamToHall == fresh.ring => hall.ok

\* Between two events, what is kept in the ring is watched for, unless nothing
\* is sent any more: otherwise it stays until the next message.
WatchedForWriting ==
  m_bIsConnect /\ Idle /\ ring # <<>> /\ ~ m_bfull => interest = "OUT"

\* A packet that the hall has sent is processed, however much is sent to the hall
\* meanwhile, or the connection is given up.
PacketsProcessed ==
  \A n \in 1..MaxPackets :
    (m_bIsConnect /\ fresh.parser /\ sent >= n) ~> (Len(delivered) >= n \/ ~ m_bIsConnect)

\* A lost connection is made again.
Reconnects == ~ m_bIsConnect ~> m_bIsConnect
=============================================================================
