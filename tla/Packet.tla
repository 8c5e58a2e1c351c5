------------------------------- MODULE Packet -------------------------------
(***************************************************************************)
(* A packet from the handler that fills it to the one that reads it        *)
(* (GameLib/PacketBase.h, EncryptDecrypt.cpp and the SendMsg functions).   *)
(* The sender's packet is a buffer in which fields are written one after   *)
(* the other, then encrypted in place when it is first sent; the receiver  *)
(* checks the check code, decrypts, and reads fields by their types.       *)
(*                                                                         *)
(* A byte is a number below Base, a short has one byte and an int two,     *)
(* high byte first: 2 and 4 in the code.  The header is kept apart.        *)
(***************************************************************************)
EXTENDS Integers, Sequences

CONSTANTS Base,       \* 256
          MapSend,    \* m_SendByteMap
          MapRecv,    \* m_RecvByteMap
          Room,       \* PACKET_BUFFER_SIZE without the header
          Shorts, Ints, Strings,   \* the values that are sent
          MaxFields   \* bound: fields in a packet

Byte == 0..Base - 1

ASSUME PacketAssumption ==
  /\ Base \in Nat \ {0, 1} /\ Room \in Nat /\ MaxFields \in Nat
  /\ MapSend \in [Byte -> Byte] /\ MapRecv \in [Byte -> Byte]
  /\ \A b \in Byte : MapRecv[MapSend[b]] = b
  /\ Shorts \subseteq Byte /\ Ints \subseteq 0..Base * Base - 1
  /\ \A s \in Strings : s \in Seq(Byte \ {0})
  \* An int holds the length of a string, and it is not the -1 of a failed read.
  /\ \A s \in Strings : Len(s) + 1 < Base * Base - 1

VARIABLES m_strBuf,      \* the body; its length is m_nPacketSize
          m_isCheckCode, \* whether the body is encrypted
          cbCheckCode,
          phase,         \* "writing", "ended", "sent", "reading"
          fields,        \* what the handler has written, field by field
          refused,       \* the first field that did not fit, 0 for none
          packet,        \* the receiver's: body, position, and what has been read
          altered        \* whether a byte of it was changed on the way

vars == <<m_strBuf, m_isCheckCode, cbCheckCode, phase, fields, refused, packet, altered>>

Fields ==
  [kind : {"short"}, val : Shorts] \cup [kind : {"int"}, val : Ints]
    \cup [kind : {"string"}, val : Strings]

\* What a reader can get: a failed read yields -1 or an empty string.
Values ==
  [kind : {"short"}, val : Byte] \cup [kind : {"int"}, val : 0..Base * Base - 1]
    \cup [kind : {"string"}, val : Seq(Byte)]

NoPacket == [body |-> <<>>, pos |-> 0, code |-> 0, got |-> <<>>]

TypeOK ==
  /\ m_strBuf \in Seq(Byte) /\ Len(m_strBuf) <= Room
  /\ m_isCheckCode \in BOOLEAN /\ cbCheckCode \in Byte
  /\ phase \in {"writing", "ended", "sent", "reading"}
  /\ fields \in Seq(Fields) /\ Len(fields) <= MaxFields
  /\ refused \in 0..Len(fields)
  /\ packet \in [body : Seq(Byte), pos : Nat, code : Byte, got : Seq(Values)]
  /\ packet.pos <= Len(packet.body) /\ Len(packet.got) <= Len(fields)
  /\ altered \in BOOLEAN

Init ==
  /\ m_strBuf = <<>> /\ m_isCheckCode = FALSE /\ cbCheckCode = 0
  /\ phase = "writing" /\ fields = <<>> /\ refused = 0
  /\ packet = NoPacket /\ altered = FALSE

-----------------------------------------------------------------------------
(* Writing.                                                                *)

IntBytes(i) == <<i \div Base, i % Base>>

\* The blocks a field is written in: a string is its length with the final
\* zero, its characters, and the zero.
Blocks(f) ==
  CASE f.kind = "short"  -> << <<f.val>> >>
    [] f.kind = "int"    -> << IntBytes(f.val) >>
    [] f.kind = "string" -> << IntBytes(Len(f.val) + 1), f.val, <<0>> >>

\* _Write: all of the block or none.
Written(buf, block) == IF Len(buf) + Len(block) > Room THEN buf ELSE buf \o block

Fits(buf, block) == Len(buf) + Len(block) <= Room

\* The length of a string goes in when it fits, whatever becomes of the rest;
\* the characters are tried after that, the zero only when they fitted.
AfterBlocks(buf, blocks) ==
  IF Len(blocks) = 1 THEN Written(buf, blocks[1])
  ELSE LET headed == Written(buf, blocks[1])
           filled == Written(headed, blocks[2])
       IN  IF Fits(headed, blocks[2]) THEN Written(filled, blocks[3]) ELSE filled

Size(blocks) == IF Len(blocks) = 1 THEN Len(blocks[1])
                ELSE Len(blocks[1]) + Len(blocks[2]) + Len(blocks[3])

\* WriteShort, WriteInt or WriteString; the handlers do not look at what it
\* returns.
Write(f) ==
  /\ phase = "writing" /\ Len(fields) < MaxFields
  /\ m_strBuf' = AfterBlocks(m_strBuf, Blocks(f))
  /\ fields' = Append(fields, f)
  /\ refused' = IF refused = 0 /\ Len(m_strBuf) + Size(Blocks(f)) > Room
                THEN Len(fields') ELSE refused
  /\ UNCHANGED <<m_isCheckCode, cbCheckCode, phase, packet, altered>>

End ==
  /\ phase = "writing"
  /\ phase' = "ended"
  /\ cbCheckCode' = 0
  /\ m_isCheckCode' = FALSE
  /\ UNCHANGED <<m_strBuf, fields, refused, packet, altered>>

\* The handler makes another packet in the same object.
Begin ==
  /\ phase # "writing"
  /\ phase' = "writing"
  /\ m_strBuf' = <<>> /\ m_isCheckCode' = FALSE
  /\ fields' = <<>> /\ refused' = 0
  /\ packet' = NoPacket /\ altered' = FALSE
  /\ UNCHANGED cbCheckCode

-----------------------------------------------------------------------------
(* Sending.                                                                *)

\* The sum of all bytes, which is a byte itself.
Sum(bytes) ==
  LET first[n \in 0..Len(bytes)] == IF n = 0 THEN 0 ELSE (first[n - 1] + bytes[n]) % Base
  IN  first[Len(bytes)]

Mapped(map, bytes) == [i \in 1..Len(bytes) |-> map[bytes[i]]]

\* A wrong EncryptBuffer: without the question whether it is encrypted.
EncryptAgain ==
  [body |-> Mapped(MapSend, m_strBuf), code |-> (Base - Sum(m_strBuf)) % Base]

\* A wrong EncryptBuffer: the sum is taken after the mapping.
EncryptSumLate ==
  IF m_isCheckCode THEN [body |-> m_strBuf, code |-> cbCheckCode]
  ELSE LET coded == Mapped(MapSend, m_strBuf)
       IN  [body |-> coded, code |-> (Base - Sum(coded)) % Base]

EncryptBuffer ==
  IF m_isCheckCode THEN [body |-> m_strBuf, code |-> cbCheckCode]
  ELSE [body |-> Mapped(MapSend, m_strBuf), code |-> (Base - Sum(m_strBuf)) % Base]

\* What DecryptBuffer makes of a packet, and whether it lets it pass.
DecryptBuffer(p) == Mapped(MapRecv, p.body)
Passes(p) == (p.code + Sum(DecryptBuffer(p))) % Base = 0

Delivered(p) ==
  packet' = IF Passes(p) THEN [body |-> DecryptBuffer(p), pos |-> 0, code |-> p.code, got |-> <<>>]
            ELSE NoPacket

\* One handler's SendMsg.  The same packet goes to several handlers, as in
\* PlayerMgr::SendMsgToAll; packet is what the last one receives.
SendMsg ==
  /\ phase \in {"ended", "sent", "reading"}
  /\ LET e == EncryptBuffer IN
       /\ m_strBuf' = e.body /\ cbCheckCode' = e.code
       /\ Delivered(e)
       /\ phase' = IF Passes(e) THEN "reading" ELSE "sent"
  /\ m_isCheckCode' = TRUE
  /\ altered' = FALSE
  /\ UNCHANGED <<fields, refused>>

\* The same, and one byte of the body or the check code changes on the way.
SendMsgAltered ==
  /\ phase \in {"ended", "sent", "reading"}
  /\ LET e == EncryptBuffer IN
       /\ m_strBuf' = e.body /\ cbCheckCode' = e.code
       /\ \E b \in Byte, i \in 0..Len(e.body) :
            /\ b # (IF i = 0 THEN e.code ELSE e.body[i])
            /\ LET p == IF i = 0 THEN [e EXCEPT !.code = b] ELSE [e EXCEPT !.body[i] = b]
               IN  Delivered(p) /\ phase' = IF Passes(p) THEN "reading" ELSE "sent"
  /\ m_isCheckCode' = TRUE
  /\ altered' = TRUE
  /\ UNCHANGED <<fields, refused>>

-----------------------------------------------------------------------------
(* Reading.                                                                *)

\* The n bytes at the position, or none when there are fewer.
Readable(p, n) == p.pos + n <= Len(p.body)

\* A read that fails yields -1, all bits set.
IntAt(p) == IF Readable(p, 2) THEN p.body[p.pos + 1] * Base + p.body[p.pos + 2]
            ELSE Base * Base - 1

PastInt(p) == IF Readable(p, 2) THEN [p EXCEPT !.pos = @ + 2] ELSE p

\* The string ends at its first zero.
UpToZero(bytes) ==
  LET zeros == {i \in 1..Len(bytes) : bytes[i] = 0}
  IN  IF zeros = {} THEN bytes
      ELSE SubSeq(bytes, 1, (CHOOSE i \in zeros : \A j \in zeros : i <= j) - 1)

PastString(p, n) == [p EXCEPT !.pos = @ + n]

ReadShort(p) ==
  [val |-> IF Readable(p, 1) THEN p.body[p.pos + 1] ELSE Base - 1,
   rest |-> IF Readable(p, 1) THEN [p EXCEPT !.pos = @ + 1] ELSE p]

ReadInt(p) == [val |-> IntAt(p), rest |-> PastInt(p)]

\* ReadChar: the length, then as many bytes; without them, or with the length
\* -1, the string is empty.
ReadString(p) ==
  LET n == IntAt(p)
      q == PastInt(p)
  IN  IF n = Base * Base - 1 \/ ~Readable(q, n) THEN [val |-> <<>>, rest |-> q]
      ELSE [val |-> UpToZero(SubSeq(q.body, q.pos + 1, Len(q.body))), rest |-> PastString(q, n)]

\* The receiver reads the fields in the types they were written in.
Read ==
  /\ phase = "reading" /\ Len(packet.got) < Len(fields)
  /\ LET kind == fields[Len(packet.got) + 1].kind
         r == CASE kind = "short"  -> ReadShort(packet)
                [] kind = "int"    -> ReadInt(packet)
                [] kind = "string" -> ReadString(packet)
     IN  packet' = [r.rest EXCEPT !.got = Append(@, [kind |-> kind, val |-> r.val])]
  /\ UNCHANGED <<m_strBuf, m_isCheckCode, cbCheckCode, phase, fields, refused, altered>>

Next ==
  \/ \E f \in Fields : Write(f)
  \/ End \/ Begin \/ SendMsg \/ SendMsgAltered \/ Read

Spec == Init /\ [][Next]_vars

-----------------------------------------------------------------------------
\* What was written is what is read, however often the packet was sent
\* before; after a field that did not fit, whose failure no handler looks at,
\* only what was written before it is.
ReadsWhatWasWritten ==
  ~altered => \A i \in 1..Len(packet.got) :
    refused = 0 \/ i < refused => packet.got[i] = fields[i]

\* The check code tells an intact packet, which is read, from one with a byte
\* changed, which is not: the same sum is taken before the one mapping and
\* after the other, once per packet.
CheckCodeTells == phase \in {"sent", "reading"} => (phase = "sent") = altered
=============================================================================
