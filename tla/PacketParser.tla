---------------------------- MODULE PacketParser ----------------------------
(***************************************************************************)
(* CPacketParser (GameLib/PacketParser.cpp): it is handed what each recv   *)
(* returned and cuts the stream into packets.  The length of a packet is   *)
(* in its first bytes, a header has Header bytes, and a packet is never    *)
(* shorter than its header.                                                *)
(*                                                                         *)
(* A byte is [pkt, len, at]: the at-th byte of packet pkt, which has len   *)
(* bytes.  What a header says that is put together from two packets, and   *)
(* whether the check code of such a mixture fits, is left open.  Packet 0  *)
(* stands for every packet of an earlier connection, and for a mixture.    *)
(***************************************************************************)
EXTENDS Integers, Sequences

CONSTANTS Header,    \* PACKET_HEADER_SIZE
          LenField,  \* the bytes of the header that hold the length
          Lens,      \* the lengths of packets
          MaxTotal   \* no packet may be longer (PACKET_BUFFER_SIZE)

ASSUME ParserAssumption ==
  /\ Header \in Nat /\ LenField \in 1..Header
  /\ MaxTotal \in Nat /\ Header <= MaxTotal
  /\ Lens \subseteq Header..MaxTotal

VARIABLES m_nStatus,  \* REQ_REQUEST (and REQ_HEADER), REQ_BODY, REQ_DONE, REQ_ERROR
          m_Packet,   \* the bytes of the packet so far; m_nPacketPos is their number
          m_nTotal,   \* m_nBodyLen + 2
          data,       \* what is left of the bytes of this call
          call,       \* "idle", in the loop, before OnPacketComplete, or what the call returns
          delivered   \* the packets given to the server on this connection

parserVars == <<m_nStatus, m_Packet, m_nTotal, data, call, delivered>>

Bytes == [pkt : Nat, len : Nat, at : Nat]

ParserTypeOK ==
  /\ m_nStatus \in {"REQUEST", "BODY", "DONE", "ERROR"}
  /\ m_Packet \in Seq(Bytes) /\ Len(m_Packet) <= MaxTotal
  /\ m_nTotal \in 0..MaxTotal
  /\ data \in Seq(Bytes)
  /\ call \in {"idle", "parsing", "complete", "ok", "fail"}
  /\ delivered \in Seq(Nat)

ParserInit ==
  /\ m_nStatus = "REQUEST" /\ m_Packet = <<>> /\ m_nTotal = 0
  /\ data = <<>> /\ call = "idle" /\ delivered = <<>>

\* The bytes are the beginning of one packet.
InOrder(bytes) ==
  \A i \in 1..Len(bytes) : bytes[i] = [bytes[1] EXCEPT !.at = i]

WholePacket(bytes) == InOrder(bytes) /\ bytes[1].len = Len(bytes)

\* What GetBodyLength + 2 may be; MaxTotal + 1 stands for all that is refused.
Declared(bytes) ==
  IF InOrder(SubSeq(bytes, 1, LenField)) THEN {bytes[1].len}
  ELSE 0..(MaxTotal + 1)

\* n more bytes of the call go to the packet.
Taken(n) == m_Packet \o SubSeq(data, 1, n)
Rest(n)  == SubSeq(data, n + 1, Len(data))
Lesser(a, b) == IF a <= b THEN a ELSE b

\* OnParser is called with the bytes of one recv.
ParsePacket(bytes) ==
  /\ call = "idle"
  /\ data' = bytes
  /\ call' = "parsing"
  /\ UNCHANGED <<m_nStatus, m_Packet, m_nTotal, delivered>>

\* A header that is not complete yet; the loop ends, for nothing is left.
ReadHeader ==
  /\ call = "parsing" /\ data # <<>> /\ m_nStatus = "REQUEST"
  /\ Len(m_Packet) + Len(data) < Header
  /\ m_Packet' = Taken(Len(data))
  /\ data' = <<>>
  /\ UNCHANGED <<m_nStatus, m_nTotal, call, delivered>>

ReadHeaderRefused ==
  LET n == Header - Len(m_Packet) IN
  /\ call = "parsing" /\ data # <<>> /\ m_nStatus = "REQUEST"
  /\ n <= Len(data)
  /\ \E t \in Declared(Taken(n)) : t > MaxTotal
  /\ m_Packet' = Taken(n) /\ data' = Rest(n)
  /\ m_nStatus' = "ERROR"
  /\ call' = "fail"
  /\ UNCHANGED <<m_nTotal, delivered>>

\* The bytes of a packet that says it has `total', its header read whole.
Upto(total) == IF total < Header THEN Header ELSE total

\* A wrong parse_body, which takes one packet for all that was received.
TakesAll(total) == Len(data)

Takes(total) == Lesser(Len(data), Upto(total) - Len(m_Packet))

\* parse_body, after parse_header where that was still to do.
Body(total) ==
  /\ m_Packet' = Taken(Takes(total))
  /\ data' = Rest(Takes(total))
  /\ m_nTotal' = total
  /\ IF Len(m_Packet) + Takes(total) >= total
     THEN m_nStatus' = "DONE" /\ call' = "complete"
     ELSE m_nStatus' = "BODY" /\ UNCHANGED call
  /\ UNCHANGED delivered

\* A complete header falls through to the body in the same turn of the loop.
ReadHeaderAndBody ==
  LET n == Header - Len(m_Packet) IN
  /\ call = "parsing" /\ data # <<>> /\ m_nStatus = "REQUEST"
  /\ n <= Len(data)
  /\ \E total \in Declared(Taken(n)) : total <= MaxTotal /\ Body(total)

ReadBody ==
  /\ call = "parsing" /\ data # <<>> /\ m_nStatus = "BODY"
  /\ Body(m_nTotal)

\* OnPacketComplete: a wrong check code leaves the parser as it is.
PacketRefused ==
  /\ call = "complete"
  /\ ~ WholePacket(m_Packet)
  /\ call' = "fail"
  /\ UNCHANGED <<m_nStatus, m_Packet, m_nTotal, data, delivered>>

\* A wrong reset, which leaves the bytes where they are.
ResetKeepsBytes == m_nStatus' = "REQUEST" /\ m_nTotal' = 0 /\ UNCHANGED m_Packet

Reset == m_nStatus' = "REQUEST" /\ m_nTotal' = 0 /\ m_Packet' = <<>>

PacketComplete ==
  /\ call = "complete"
  /\ delivered' = Append(delivered, IF WholePacket(m_Packet) THEN m_Packet[1].pkt ELSE 0)
  /\ Reset
  /\ call' = "parsing"
  /\ UNCHANGED data

\* The loop is done, or is not entered at all in REQ_ERROR: nothing is wrong.
ParseEnds ==
  /\ call = "parsing"
  /\ data = <<>> \/ m_nStatus = "ERROR"
  /\ data' = <<>>
  /\ call' = "ok"
  /\ UNCHANGED <<m_nStatus, m_Packet, m_nTotal, delivered>>

\* A call that finds REQ_DONE: the packet before was refused.
ParseAfterRefusal ==
  /\ call = "parsing" /\ data # <<>> /\ m_nStatus = "DONE"
  /\ call' = "fail"
  /\ UNCHANGED <<m_nStatus, m_Packet, m_nTotal, data, delivered>>

ParseStep ==
  \/ ReadHeader \/ ReadHeaderRefused \/ ReadHeaderAndBody \/ ReadBody
  \/ PacketRefused \/ ParseEnds \/ ParseAfterRefusal
=============================================================================
