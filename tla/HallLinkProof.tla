----------------------------- MODULE HallLinkProof -----------------------------
(****************************************************************************)
(* The connection to the hall, for any length of header, packets, buffer    *)
(* and message, and any capacity of the ring.  LinkInv holds on every       *)
(* connection: the types, and what the state of the parser and of the loop  *)
(* says of the bytes that are held.  WholeInv is about a connection that    *)
(* began with an empty parser, and HallInv about one with an empty ring:    *)
(* what is still to be cut, or to be sent, is a chain that begins where     *)
(* what is done has ended.                                                  *)
(****************************************************************************)
EXTENDS HallLink, SequenceTheorems, WellFoundedInduction, TLAPS

\* The bytes of a packet are collected up to where the state says.
ParserInv ==
  /\ m_nStatus = "REQUEST" => Len(m_Packet) < Header
  /\ m_nStatus = "BODY" => Header <= Len(m_Packet) /\ Len(m_Packet) < m_nTotal
  /\ m_nStatus = "DONE" => Header <= Len(m_Packet)
  /\ call = "complete" => m_nStatus = "DONE"

\* Nothing is held of what a recv returned once the parser has, and nothing of a
\* connection that is closed.
RestInv ==
  /\ call \in {"idle", "ok"} => data = <<>>
  /\ ~ m_bIsConnect => /\ call = "idle" /\ reading = "no" /\ wire = <<>>
                       /\ ~ broken
  /\ m_bIsConnect => (call = "idle" <=> reading = "no")
  /\ reading = "policy" => call = "fail"

LinkInv == TypeOK /\ ParserInv /\ RestInv

-----------------------------------------------------------------------------
\* The bytes the hall has sent that are not in a packet of the server yet.
Stream == m_Packet \o data \o wire

\* c can come after b.
NextByte(b, c) ==
  IF b.at < b.len THEN c = [b EXCEPT !.at = b.at + 1]
  ELSE c.at = 1 /\ c.pkt = b.pkt + 1

ByteChain(bytes) ==
  /\ \A i \in 1..Len(bytes) : bytes[i].len \in Lens /\ bytes[i].at \in 1..bytes[i].len
  /\ \A i \in 1..Len(bytes) - 1 : NextByte(bytes[i], bytes[i + 1])

\* A chain of whole packets, those after the first `from' up to the packet `upto'.
Packets(bytes, from, upto) ==
  /\ ByteChain(bytes)
  /\ bytes = <<>> => from = upto
  /\ bytes # <<>> =>
       /\ bytes[1].at = 1 /\ bytes[1].pkt = from + 1
       /\ bytes[Len(bytes)].at = bytes[Len(bytes)].len
       /\ bytes[Len(bytes)].pkt = upto

\* What was delivered is whole, and what is held goes on from there.
Whole ==
  /\ delivered = [i \in DOMAIN delivered |-> i]
  /\ m_nStatus # "ERROR" /\ call # "fail"
  /\ Packets(Stream, Len(delivered), sent)
  /\ m_nStatus = "DONE" <=> call = "complete"
  /\ m_nStatus = "BODY" => m_nTotal = m_Packet[1].len
  /\ m_nStatus = "DONE" => Len(m_Packet) = m_Packet[1].len

\* Once a recv has been taken for a policy request, what it returned is lost, and
\* only what was done before still counts.
Given ==
  /\ delivered = [i \in DOMAIN delivered |-> i]
  /\ m_nStatus # "ERROR"

WholeInv == fresh.parser /\ m_bIsConnect => Given /\ (Whole \/ reading = "policy")

-----------------------------------------------------------------------------
NextUnit(u, v) ==
  /\ v.part = (IF u.part = Parts THEN 1 ELSE u.part + 1)
  /\ v.part # 1 => v.kind = u.kind

\* Whole messages, the first of them perhaps begun, which h is ready to hear.
Messages(units, h) ==
  /\ h.ok
  /\ \A i \in 1..Len(units) - 1 : NextUnit(units[i], units[i + 1])
  /\ units = <<>> => h.registered /\ h.next = 1
  /\ units # <<>> =>
       /\ units[1].part = h.next
       /\ units[1].part = 1 => h.registered \/ units[1].kind = "REGIST"
       /\ units[1].part # 1 => units[1].kind = h.kind
       /\ units[Len(units)].part = Parts

HallInv ==
  fresh.ring => /\ hall.ok
                /\ m_bIsConnect /\ ~ broken => Messages(ring, hall)

-----------------------------------------------------------------------------
(* Joining and cutting sequences.                                           *)

LEMMA BytesAssociate ==
  ASSUME NEW s \in Seq(Bytes), NEW t \in Seq(Bytes), NEW u \in Seq(Bytes)
  PROVE  (s \o t) \o u = s \o (t \o u)
<1> DEFINE B == Bytes
<1>1. s \in Seq(B) /\ t \in Seq(B) /\ u \in Seq(B)
  OBVIOUS
<1> HIDE DEF B
<1>2. QED BY <1>1, ConcatAssociative

(* What is left of a sequence without its first n elements.                 *)
LEMMA DroppedProperties ==
  ASSUME NEW S, NEW s \in Seq(S), NEW n \in 0..Len(s)
  PROVE  /\ SubSeq(s, n + 1, Len(s)) \in Seq(S)
         /\ Len(SubSeq(s, n + 1, Len(s))) = Len(s) - n
         /\ \A i \in 1..Len(s) - n : SubSeq(s, n + 1, Len(s))[i] = s[n + i]
<1>1. Len(s) \in Nat
  BY LenProperties
<1>2. \A i \in (n + 1)..Len(s) : s[i] \in S
  BY <1>1, ElementOfSeq
<1>3. n + 1 \in Int /\ Len(s) \in Int
  BY <1>1
<1>4. /\ SubSeq(s, n + 1, Len(s)) \in Seq(S)
      /\ Len(SubSeq(s, n + 1, Len(s))) = IF n + 1 <= Len(s) THEN Len(s) - (n + 1) + 1 ELSE 0
      /\ \A i \in 1..Len(s) - (n + 1) + 1 : SubSeq(s, n + 1, Len(s))[i] = s[(n + 1) + i - 1]
  BY <1>2, <1>3, SubSeqProperties
<1>5. \A i \in 1..Len(s) - n : (n + 1) + i - 1 = n + i /\ i \in 1..Len(s) - (n + 1) + 1
  BY <1>1
<1>6. (IF n + 1 <= Len(s) THEN Len(s) - (n + 1) + 1 ELSE 0) = Len(s) - n
  BY <1>1
<1>7. QED BY <1>4, <1>5, <1>6

(* The first n elements of a sequence.                                      *)
LEMMA FrontProperties ==
  ASSUME NEW S, NEW s \in Seq(S), NEW n \in 0..Len(s)
  PROVE  /\ SubSeq(s, 1, n) \in Seq(S)
         /\ Len(SubSeq(s, 1, n)) = n
         /\ \A i \in 1..n : SubSeq(s, 1, n)[i] = s[i]
<1>1. Len(s) \in Nat
  BY LenProperties
<1>2. \A i \in 1..n : s[i] \in S
  BY <1>1, ElementOfSeq
<1>3. /\ SubSeq(s, 1, n) \in Seq(S)
      /\ Len(SubSeq(s, 1, n)) = IF 1 <= n THEN n - 1 + 1 ELSE 0
      /\ \A i \in 1..n - 1 + 1 : SubSeq(s, 1, n)[i] = s[1 + i - 1]
  BY <1>1, <1>2, SubSeqProperties
<1>4. \A i \in 1..n : 1 + i - 1 = i /\ i \in 1..n - 1 + 1
  OBVIOUS
<1>5. (IF 1 <= n THEN n - 1 + 1 ELSE 0) = n
  OBVIOUS
<1>6. QED BY <1>3, <1>4, <1>5

(* The two parts of a sequence are the sequence.                            *)
LEMMA CutInTwo ==
  ASSUME NEW S, NEW s \in Seq(S), NEW n \in 0..Len(s)
  PROVE  SubSeq(s, 1, n) \o SubSeq(s, n + 1, Len(s)) = s
<1>1. Len(s) \in Nat
  BY LenProperties
<1>2. 1 \in 1..Len(s) + 1 /\ n \in 1 - 1..Len(s) /\ Len(s) \in n..Len(s)
  BY <1>1
<1>3. QED BY <1>2, ConcatAdjacentSubSeq, SubSeqFull

(* What the parser has taken when it takes n more bytes of the call, and    *)
(* what is left of them.                                                    *)
LEMMA TakenProperties ==
  ASSUME LinkInv, NEW n \in 0..Len(data)
  PROVE  /\ Taken(n) \in Seq(Bytes) /\ Len(Taken(n)) = Len(m_Packet) + n
         /\ Rest(n) \in Seq(Bytes) /\ Len(Rest(n)) = Len(data) - n
         /\ Taken(n) \o Rest(n) = m_Packet \o data
<1>1. m_Packet \in Seq(Bytes) /\ data \in Seq(Bytes)
  BY DEF LinkInv, TypeOK, ParserTypeOK
<1>2. SubSeq(data, 1, n) \in Seq(Bytes) /\ Len(SubSeq(data, 1, n)) = n
  BY <1>1, FrontProperties
<1>3. /\ m_Packet \o SubSeq(data, 1, n) \in Seq(Bytes)
      /\ Len(m_Packet \o SubSeq(data, 1, n)) = Len(m_Packet) + n
  BY <1>1, <1>2, ConcatProperties
<1>4. Rest(n) \in Seq(Bytes) /\ Len(Rest(n)) = Len(data) - n
  BY <1>1, DroppedProperties DEF Rest
<1>5. Taken(n) \o Rest(n) = m_Packet \o (SubSeq(data, 1, n) \o Rest(n))
  <2>0. m_Packet \in Seq(Bytes)
    BY <1>1
  <2>1. \A t, u \in Seq(Bytes) : (m_Packet \o t) \o u = m_Packet \o (t \o u)
    BY <2>0, BytesAssociate
  <2>2. (m_Packet \o SubSeq(data, 1, n)) \o Rest(n) = m_Packet \o (SubSeq(data, 1, n) \o Rest(n))
    BY <1>2, <1>4, <2>1
  <2>3. QED BY <2>2 DEF Taken
<1>6. SubSeq(data, 1, n) \o Rest(n) = data
  BY <1>1, CutInTwo DEF Rest
<1>7. QED BY <1>3, <1>4, <1>5, <1>6 DEF Taken

(* Making the bytes old leaves their number and their type.                 *)
LEMMA OldProperties ==
  ASSUME NEW s \in Seq(Bytes)
  PROVE  Old(s) \in Seq(Bytes) /\ Len(Old(s)) = Len(s)
<1>1. Len(s) \in Nat /\ DOMAIN s = 1..Len(s)
  BY LenProperties
<1>2. ASSUME NEW i \in 1..Len(s)
      PROVE  [s[i] EXCEPT !.pkt = 0] \in Bytes
  <2>1. s[i] \in Bytes
    BY ElementOfSeq
  <2>2. QED BY <2>1 DEF Bytes
<1>3. Old(s) \in [1..Len(s) -> Bytes]
  BY <1>1, <1>2 DEF Old
<1>4. Old(s) \in Seq(Bytes)
  BY <1>1, <1>3, SeqDef
<1>5. DOMAIN Old(s) = 1..Len(s) /\ DOMAIN Old(s) = 1..Len(Old(s)) /\ Len(Old(s)) \in Nat
  BY <1>3, <1>4, LenProperties
<1>6. QED BY <1>1, <1>4, <1>5

-----------------------------------------------------------------------------
(* The types, and what the states of the parser and of the loop say.        *)

\* The part of LinkInv that is about the parser.
CallInv ==
  /\ ParserTypeOK /\ ParserInv
  /\ call \in {"idle", "ok"} => data = <<>>

Kinds == {"REGIST", "MSG", "POLICY"}

Units == [kind : Kinds, part : 1..Parts]

HallType ==
  [registered : BOOLEAN, kind : Kinds \cup {"none"}, next : 1..Parts, ok : BOOLEAN]

LEMMA NewHallType == NewHall \in HallType
BY LinkAssumption DEF NewHall, HallType

LEMMA InitLinkInv == Init => LinkInv
<1> SUFFICES ASSUME Init PROVE LinkInv
  OBVIOUS
<1>1. ParserTypeOK /\ ParserInv
  BY ParserAssumption, EmptySeq DEF Init, ParserInit, ParserTypeOK, ParserInv
<1>2. NewHall \in HallType
  BY NewHallType
<1>3. ring \in Seq(Units) /\ Len(ring) <= Cap /\ wire \in Seq(Bytes)
  BY LinkAssumption, EmptySeq DEF Init
<1>4. TypeOK
  <2>1. fresh \in [parser : BOOLEAN, ring : BOOLEAN]
    BY DEF Init
  <2>2. sent \in 0..MaxPackets /\ breaks \in 0..MaxBreaks
    BY LinkAssumption DEF Init
  <2>3. QED BY <1>1, <1>2, <1>3, <2>1, <2>2 DEF Init, TypeOK, HallType, Units, Kinds
<1>5. RestInv
  BY DEF Init, ParserInit, RestInv
<1>6. QED BY <1>1, <1>4, <1>5 DEF LinkInv

LEMMA Numbers ==
  ASSUME LinkInv
  PROVE  /\ Len(m_Packet) \in Nat /\ Len(data) \in Nat /\ Len(wire) \in Nat
         /\ Len(ring) \in Nat /\ Len(delivered) \in Nat
         /\ Header \in Nat /\ MaxTotal \in Nat /\ Header <= MaxTotal /\ Header >= 1
         /\ m_nTotal \in 0..MaxTotal
BY ParserAssumption, LenProperties DEF LinkInv, TypeOK, ParserTypeOK

(* What a packet may say of its length is a number.                         *)
LEMMA DeclaredType ==
  ASSUME NEW bytes \in Seq(Bytes), Len(bytes) >= 1
  PROVE  Declared(bytes) \subseteq Nat
<1>1. Len(bytes) \in Nat
  BY LenProperties
<1>2. bytes[1] \in Bytes
  BY <1>1, ElementOfSeq
<1>3. QED BY <1>2, ParserAssumption DEF Declared, Bytes

(* The bytes the body takes: at least up to the end of the header, at most  *)
(* up to the end of the packet.                                             *)
LEMMA BodyTakes ==
  ASSUME LinkInv, NEW total \in Nat, total <= MaxTotal,
         \/ m_nStatus = "REQUEST" /\ Header - Len(m_Packet) <= Len(data)
         \/ m_nStatus = "BODY" /\ total = m_nTotal
  PROVE  /\ Takes(total) \in 0..Len(data)
         /\ Header <= Len(m_Packet) + Takes(total)
         /\ Len(m_Packet) + Takes(total) <= MaxTotal
         /\ Header <= total => Len(m_Packet) + Takes(total) <= total
         /\ Len(m_Packet) + Takes(total) >= Upto(total) \/ Takes(total) = Len(data)
BY Numbers DEF LinkInv, ParserInv, Takes, Upto, Lesser

LEMMA BodyCallInv ==
  ASSUME LinkInv, NEW total \in Nat, total <= MaxTotal, call = "parsing",
         \/ m_nStatus = "REQUEST" /\ Header - Len(m_Packet) <= Len(data)
         \/ m_nStatus = "BODY" /\ total = m_nTotal,
         Body(total)
  PROVE  CallInv' /\ call' # "idle"
<1>1. /\ Takes(total) \in 0..Len(data)
      /\ Header <= Len(m_Packet) + Takes(total)
      /\ Len(m_Packet) + Takes(total) <= MaxTotal
  BY BodyTakes
<1>2. /\ m_Packet' \in Seq(Bytes) /\ Len(m_Packet') = Len(m_Packet) + Takes(total)
      /\ data' \in Seq(Bytes)
  BY <1>1, TakenProperties DEF Body
<1>3. m_nTotal' = total /\ total \in 0..MaxTotal /\ delivered' = delivered
  BY Numbers DEF Body
<1>4. CASE Len(m_Packet) + Takes(total) >= total
  <2>1. m_nStatus' = "DONE" /\ call' = "complete"
    BY <1>4 DEF Body
  <2>2. QED
    BY <1>1, <1>2, <1>3, <2>1
    DEF CallInv, ParserTypeOK, ParserInv, LinkInv, TypeOK
<1>5. CASE ~(Len(m_Packet) + Takes(total) >= total)
  <2>1. m_nStatus' = "BODY" /\ call' = "parsing"
    BY <1>5 DEF Body
  <2>2. Len(m_Packet) + Takes(total) < total
    BY <1>1, <1>5, Numbers
  <2>3. QED
    BY <1>1, <1>2, <1>3, <2>1, <2>2
    DEF CallInv, ParserTypeOK, ParserInv, LinkInv, TypeOK
<1>6. QED BY <1>4, <1>5

LEMMA ParseStepCallInv ==
  ASSUME LinkInv, ParseStep
  PROVE  CallInv' /\ call' # "idle"
<1> DEFINE n == Header - Len(m_Packet)
<1>0. CallInv
  BY DEF LinkInv, CallInv, TypeOK, RestInv
<1>1. CASE ReadHeader
  <2>1. /\ m_Packet' \in Seq(Bytes) /\ Len(m_Packet') = Len(m_Packet) + Len(data)
    BY <1>1, Numbers, TakenProperties DEF ReadHeader
  <2>2. Len(m_Packet') < Header /\ Len(m_Packet') <= MaxTotal
    BY <1>1, <2>1, Numbers DEF ReadHeader
  <2>3. QED
    BY <1>0, <1>1, <2>1, <2>2, EmptySeq DEF ReadHeader, CallInv, ParserTypeOK, ParserInv
<1>2. ASSUME m_nStatus = "REQUEST", n <= Len(data)
      PROVE  /\ n \in 0..Len(data)
             /\ Taken(n) \in Seq(Bytes) /\ Len(Taken(n)) = Header
             /\ Rest(n) \in Seq(Bytes)
             /\ Declared(Taken(n)) \subseteq Nat
  <2>1. n \in 0..Len(data)
    BY <1>0, <1>2, Numbers DEF CallInv, ParserInv
  <2>2. Taken(n) \in Seq(Bytes) /\ Len(Taken(n)) = Len(m_Packet) + n /\ Rest(n) \in Seq(Bytes)
    BY <2>1, TakenProperties
  <2>3. Len(Taken(n)) = Header
    BY <2>2, Numbers
  <2>4. QED BY <2>1, <2>2, <2>3, Numbers, DeclaredType
<1>3. CASE ReadHeaderRefused
  <2>1. /\ m_Packet' \in Seq(Bytes) /\ Len(m_Packet') = Header /\ data' \in Seq(Bytes)
        /\ m_nStatus' = "ERROR" /\ call' = "fail"
        /\ UNCHANGED <<m_nTotal, delivered>>
    BY <1>2, <1>3 DEF ReadHeaderRefused
  <2>2. QED BY <1>0, <2>1, Numbers DEF CallInv, ParserTypeOK, ParserInv
<1>4. CASE ReadHeaderAndBody
  <2>1. m_nStatus = "REQUEST" /\ n <= Len(data) /\ call = "parsing"
    BY <1>4 DEF ReadHeaderAndBody
  <2>2. PICK total \in Declared(Taken(n)) : total <= MaxTotal /\ Body(total)
    BY <1>4 DEF ReadHeaderAndBody
  <2>3. total \in Nat
    BY <1>2, <2>1, <2>2
  <2>4. QED BY <2>1, <2>2, <2>3, BodyCallInv
<1>5. CASE ReadBody
  BY <1>5, Numbers, BodyCallInv DEF ReadBody
<1>6. CASE PacketRefused
  BY <1>0, <1>6 DEF PacketRefused, CallInv, ParserTypeOK, ParserInv
<1>7. CASE ParseEnds
  BY <1>0, <1>7, EmptySeq DEF ParseEnds, CallInv, ParserTypeOK, ParserInv
<1>8. CASE ParseAfterRefusal
  BY <1>0, <1>8 DEF ParseAfterRefusal, CallInv, ParserTypeOK, ParserInv
<1>9. QED BY <1>1, <1>3, <1>4, <1>5, <1>6, <1>7, <1>8 DEF ParseStep

LEMMA CompleteCallInv ==
  ASSUME LinkInv, PacketComplete
  PROVE  CallInv' /\ call' # "idle"
<1>0. CallInv
  BY DEF LinkInv, CallInv, TypeOK, RestInv
<1>1. 1 \in 1..Len(m_Packet) /\ m_Packet \in Seq(Bytes)
  BY <1>0, Numbers DEF PacketComplete, CallInv, ParserInv, ParserTypeOK
<1>2. m_Packet[1].pkt \in Nat
  <2>1. m_Packet[1] \in Bytes
    BY <1>1, ElementOfSeq
  <2>2. QED BY <2>1 DEF Bytes
<1>3. delivered' \in Seq(Nat)
  BY <1>0, <1>2, AppendProperties DEF PacketComplete, CallInv, ParserTypeOK
<1>4. m_Packet' = <<>> /\ m_nStatus' = "REQUEST" /\ m_nTotal' = 0 /\ call' = "parsing"
      /\ data' = data
  BY DEF PacketComplete, Reset
<1>5. QED
  BY <1>0, <1>3, <1>4, Numbers, EmptySeq DEF CallInv, ParserTypeOK, ParserInv

-----------------------------------------------------------------------------
(* What the hall has heard.                                                 *)

LEMMA Induction ==
  ASSUME NEW S \in SUBSET Nat, 0 \in S, \A n \in S : n + 1 \in S
  PROVE  S = Nat
<1> DEFINE R == OpToRel(<, Nat)
<1> SUFFICES ASSUME Nat \ S # {} PROVE FALSE
  OBVIOUS
<1>1. \A i, j \in Nat : i < j => <<i, j>> \in R
  BY DEF OpToRel
<1>2. IsWellFoundedOn(R, Nat)
  BY NatLessThanWellFounded
<1> HIDE DEF R
<1>3. PICK x \in Nat \ S : \A y \in Nat \ S : ~ (<<y, x>> \in R)
  BY <1>2, WFMin
<1>4. x - 1 \in Nat /\ x - 1 < x
  <2>1. x # 0
    OBVIOUS
  <2>2. QED BY <1>3, <2>1
<1>5. x - 1 \in S
  BY <1>1, <1>3, <1>4
<1>6. QED BY <1>3, <1>4, <1>5

IsHearing(f, h, units, n) ==
  f = [k \in 0..n |-> IF k = 0 THEN h ELSE Hears(f[k - 1], units[k])]

(* The states of the hall one unit after the other exist.                   *)
LEMMA HeardExists ==
  ASSUME NEW h, NEW units, NEW n \in Nat
  PROVE  \E f : IsHearing(f, h, units, n)
<1> DEFINE S == {m \in Nat : \E f : IsHearing(f, h, units, m)}
<1>1. 0 \in S
  <2>1. [k \in 0..0 |-> h]
          = [k \in 0..0 |-> IF k = 0 THEN h ELSE Hears([j \in 0..0 |-> h][k - 1], units[k])]
    OBVIOUS
  <2>2. IsHearing([k \in 0..0 |-> h], h, units, 0)
    BY <2>1 DEF IsHearing
  <2>3. QED BY <2>2
<1>2. ASSUME NEW m \in S PROVE m + 1 \in S
  <2>0. PICK f : IsHearing(f, h, units, m)
    BY <1>2
  <2>1. f = [k \in 0..m |-> IF k = 0 THEN h ELSE Hears(f[k - 1], units[k])]
    BY <2>0 DEF IsHearing
  <2> DEFINE g == [k \in 0..m + 1 |-> IF k <= m THEN f[k] ELSE Hears(f[m], units[m + 1])]
             D(k) == IF k = 0 THEN h ELSE Hears(g[k - 1], units[k])
  <2>2. ASSUME NEW k \in 0..m + 1 PROVE g[k] = D(k)
    <3>1. CASE k = m + 1
      BY <3>1, <1>2
    <3>2. CASE k \in 0..m
      <4>1. g[k] = f[k]
        BY <3>2
      <4>2. f[k] = IF k = 0 THEN h ELSE Hears(f[k - 1], units[k])
        BY <2>1, <3>2
      <4>3. k # 0 => g[k - 1] = f[k - 1]
        BY <3>2, <1>2
      <4>4. QED BY <4>1, <4>2, <4>3
    <3>3. QED BY <3>1, <3>2, <1>2
  <2>3. g = [k \in 0..m + 1 |-> D(k)]
    BY <2>2
  <2>4. IsHearing(g, h, units, m + 1)
    BY <2>3 DEF IsHearing
  <2>5. m + 1 \in Nat
    BY <1>2
  <2>6. QED BY <2>4, <2>5
<1>3. S = Nat
  <2> HIDE DEF S
  <2>1. S \in SUBSET Nat
    BY DEF S
  <2>2. QED BY <1>1, <1>2, <2>1, Induction
<1>4. QED BY <1>3

(* What holds before the first unit, and after a unit when it held before   *)
(* it, holds after all of them.                                             *)
LEMMA HeardInduction ==
  ASSUME NEW h, NEW units, NEW n \in Nat, NEW Good,
         h \in Good[0],
         \A k \in 0..n - 1 : \A g \in Good[k] : Hears(g, units[k + 1]) \in Good[k + 1]
  PROVE  Heard(h, units, n) \in Good[n]
<1> DEFINE after == CHOOSE f :
      f = [k \in 0..n |-> IF k = 0 THEN h ELSE Hears(f[k - 1], units[k])]
<1>1. Heard(h, units, n) = after[n]
  BY DEF Heard
<1>2. after = [k \in 0..n |-> IF k = 0 THEN h ELSE Hears(after[k - 1], units[k])]
  <2>0. PICK f : IsHearing(f, h, units, n)
    BY HeardExists
  <2>1. \E g : g = [k \in 0..n |-> IF k = 0 THEN h ELSE Hears(g[k - 1], units[k])]
    BY <2>0 DEF IsHearing
  <2>2. QED BY <2>1, Zenon
<1> HIDE DEF after
<1> DEFINE S == {k \in Nat : k <= n => after[k] \in Good[k]}
<1>3. 0 \in S
  BY <1>2
<1>4. ASSUME NEW k \in S PROVE k + 1 \in S
  <2> SUFFICES ASSUME k + 1 <= n PROVE after[k + 1] \in Good[k + 1]
    BY <1>4
  <2>1. k \in 0..n - 1 /\ k + 1 \in 0..n /\ k + 1 # 0 /\ (k + 1) - 1 = k
    BY <1>4
  <2>2. after[k + 1] = Hears(after[k], units[k + 1])
    BY <1>2, <2>1
  <2>3. after[k] \in Good[k]
    BY <1>4, <2>1
  <2>4. QED BY <2>1, <2>2, <2>3
<1>5. S = Nat
  <2> HIDE DEF S
  <2>1. S \in SUBSET Nat
    BY DEF S
  <2>2. QED BY <1>3, <1>4, <2>1, Induction
<1>6. QED BY <1>1, <1>5

LEMMA HearsType ==
  ASSUME NEW h \in HallType, NEW u \in Units
  PROVE  Hears(h, u) \in HallType
<1>1. CASE h.ok /\ u.part = h.next
           /\ (u.part = 1 => h.registered \/ u.kind = "REGIST")
           /\ (u.part > 1 => u.kind = h.kind)
  <2>1. u.part \in 1..Parts /\ u.kind \in Kinds \cup {"none"}
    BY DEF Units
  <2>2. (IF u.part = Parts THEN 1 ELSE u.part + 1) \in 1..Parts
    BY <2>1, LinkAssumption
  <2>3. (h.registered \/ u.part = Parts) \in BOOLEAN
    OBVIOUS
  <2>4. (IF u.part = Parts THEN "none" ELSE u.kind) \in Kinds \cup {"none"}
    BY <2>1
  <2>5. QED BY <1>1, <2>2, <2>3, <2>4 DEF Hears, HallType
<1>2. CASE ~(h.ok /\ u.part = h.next
             /\ (u.part = 1 => h.registered \/ u.kind = "REGIST")
             /\ (u.part > 1 => u.kind = h.kind))
  <2>1. [NewHall EXCEPT !.ok = FALSE] \in HallType
    BY NewHallType DEF HallType
  <2>2. Hears(h, u) = [NewHall EXCEPT !.ok = FALSE]
    BY <1>2 DEF Hears
  <2>3. QED BY <2>1, <2>2
<1>3. QED BY <1>1, <1>2

LEMMA HeardType ==
  ASSUME NEW h \in HallType, NEW units \in Seq(Units), NEW n \in 0..Len(units)
  PROVE  Heard(h, units, n) \in HallType
<1> DEFINE Good == [k \in 0..n |-> HallType]
<1>1. Len(units) \in Nat
  BY LenProperties
<1>2. h \in Good[0]
  OBVIOUS
<1>3. ASSUME NEW k \in 0..n - 1, NEW g \in Good[k]
      PROVE  Hears(g, units[k + 1]) \in Good[k + 1]
  <2>1. units[k + 1] \in Units
    BY <1>1, ElementOfSeq
  <2>2. Good[k] = HallType /\ Good[k + 1] = HallType
    BY <1>1
  <2>3. QED BY <1>3, <2>1, <2>2, HearsType
<1>4. n \in Nat /\ Good[n] = HallType
  BY <1>1
<1> HIDE DEF Good
<1>5. QED BY <1>2, <1>3, <1>4, HeardInduction

-----------------------------------------------------------------------------
(* What a message leaves in the ring, whatever the socket takes.            *)

LEMMA MessageType ==
  ASSUME NEW kind \in Kinds
  PROVE  /\ Message(kind) \in Seq(Units) /\ Len(Message(kind)) = Parts
         /\ \A i \in 1..Parts : Message(kind)[i] = [kind |-> kind, part |-> i]
<1>1. Message(kind) \in [1..Parts -> Units]
  BY DEF Message, Units
<1>2. Parts \in Nat
  BY LinkAssumption
<1>3. Message(kind) \in Seq(Units)
  BY <1>1, <1>2, SeqDef
<1>4. DOMAIN Message(kind) = 1..Parts /\ DOMAIN Message(kind) = 1..Len(Message(kind))
      /\ Len(Message(kind)) \in Nat
  BY <1>1, <1>3, LenProperties
<1>5. QED BY <1>2, <1>3, <1>4 DEF Message

LEMMA OutputType ==
  ASSUME NEW units \in Seq(Units), NEW h \in HallType, NEW o \in Output(units, h)
  PROVE  o.ring \in Seq(Units) /\ Len(o.ring) <= Len(units) /\ o.hall \in HallType
<1>0. Len(units) \in Nat
  BY LenProperties
<1>1. \A n \in 0..Len(units) :
        Dropped(units, n) \in Seq(Units) /\ Len(Dropped(units, n)) <= Len(units)
  BY <1>0, DroppedProperties DEF Dropped
<1>2. CASE m_bfull
  BY <1>0, <1>2 DEF Output
<1>3. CASE ~ m_bfull /\ broken
  BY <1>1, <1>3 DEF Output
<1>4. CASE ~ m_bfull /\ ~ broken
  <2>1. PICK n \in 0..Len(units) : o = Sent(units, h, n)
    BY <1>4 DEF Output
  <2>2. o.ring = Dropped(units, n) /\ o.hall = Heard(h, units, n)
    BY <2>1 DEF Sent
  <2>3. QED BY <1>1, <2>2, HeardType
<1>5. QED BY <1>2, <1>3, <1>4

LEMMA SendType ==
  ASSUME LinkInv, NEW kind \in Kinds, NEW h \in HallType,
         NEW watched \in {"IN", "OUT", "NONE"}, Send(kind, h, watched)
  PROVE  /\ ring' \in Seq(Units) /\ Len(ring') <= Cap /\ hall' \in HallType
         /\ m_bfull' \in BOOLEAN /\ interest' \in {"IN", "OUT", "NONE"}
<1> DEFINE units == ring \o Message(kind)
<1>1. /\ ring \in Seq(Units) /\ Len(ring) <= Cap /\ m_bfull \in BOOLEAN
      /\ Cap \in Nat /\ Len(ring) \in Nat
  BY LinkAssumption, LenProperties DEF LinkInv, TypeOK, Units, Kinds
<1>2. units \in Seq(Units) /\ Len(units) \in Nat
  BY <1>1, MessageType, ConcatProperties, LenProperties
<1>3. CASE Len(units) > Cap
  BY <1>1, <1>3 DEF Send
<1>4. CASE ~(Len(units) > Cap)
  <2>1. PICK o \in Output(units, h) :
          /\ ring' = o.ring /\ hall' = o.hall
          /\ interest' = IF o.ring # <<>> THEN "OUT" ELSE watched
    BY <1>4 DEF Send
  <2>2. m_bfull' = m_bfull
    BY <1>4 DEF Send
  <2>3. o.ring \in Seq(Units) /\ Len(o.ring) <= Len(units) /\ o.hall \in HallType
    BY <1>2, OutputType
  <2>4. Len(o.ring) \in Nat
    BY <2>3, LenProperties
  <2>5. QED BY <1>1, <1>2, <1>4, <2>1, <2>2, <2>3, <2>4
<1>5. QED BY <1>3, <1>4

(* What is kept is watched for, unless nothing is sent any more.            *)
LEMMA SendWatches ==
  ASSUME NEW kind, NEW h, NEW watched, Send(kind, h, watched),
         \/ ring # <<>> /\ ~ m_bfull => watched = "OUT"
         \/ watched = "IN"
  PROVE  ring' # <<>> /\ ~ m_bfull' => interest' = "OUT"
BY DEF Send

-----------------------------------------------------------------------------
(* LinkInv is inductive.                                                    *)

\* The part of TypeOK that is not about the parser.
LinkTypes ==
  /\ m_bIsConnect \in BOOLEAN /\ m_bfull \in BOOLEAN /\ m_TcpTimer \in BOOLEAN
  /\ ring \in Seq(Units) /\ Len(ring) <= Cap
  /\ interest \in {"IN", "OUT", "NONE"}
  /\ reading \in {"no", "more", "last", "policy"}
  /\ wire \in Seq(Bytes) /\ sent \in 0..MaxPackets
  /\ broken \in BOOLEAN /\ breaks \in 0..MaxBreaks
  /\ hall \in HallType
  /\ fresh \in [parser : BOOLEAN, ring : BOOLEAN]

LEMMA LinkInvParts == LinkInv <=> CallInv /\ LinkTypes /\ RestInv
BY DEF LinkInv, CallInv, LinkTypes, TypeOK, RestInv, Units, HallType, Kinds

LEMMA CloseLinkInv ==
  ASSUME LinkInv, handle_close
  PROVE  LinkInv'
<1>0. CallInv /\ LinkTypes /\ RestInv
  BY LinkInvParts
<1>1. m_Packet' \in Seq(Bytes) /\ Len(m_Packet') = Len(m_Packet)
  BY <1>0, OldProperties DEF handle_close, CallInv, ParserTypeOK
<1>2. data' = <<>> /\ <<>> \in Seq(Bytes) /\ wire' = <<>> /\ call' = "idle"
      /\ UNCHANGED <<m_nStatus, m_nTotal, delivered>>
  BY EmptySeq DEF handle_close
<1>3. CallInv'
  BY <1>0, <1>1, <1>2 DEF CallInv, ParserTypeOK, ParserInv
<1>4. LinkTypes' /\ RestInv'
  BY <1>0, <1>2 DEF handle_close, LinkTypes, RestInv, TimerAfterClose
<1>5. QED BY <1>3, <1>4, LinkInvParts, PTL

(* A step that leaves the parser alone.                                     *)
LEMMA SameCallInv ==
  ASSUME CallInv, UNCHANGED parserVars
  PROVE  CallInv'
BY DEF CallInv, ParserTypeOK, ParserInv, parserVars

LEMMA ReconnectLinkInv ==
  ASSUME LinkInv, Reconnect
  PROVE  LinkInv'
<1>0. CallInv /\ LinkTypes /\ RestInv
  BY LinkInvParts
<1>1. Send("REGIST", NewHall, "IN")
  BY DEF Reconnect
<1>2. /\ ring' \in Seq(Units) /\ Len(ring') <= Cap /\ hall' \in HallType
      /\ m_bfull' \in BOOLEAN /\ interest' \in {"IN", "OUT", "NONE"}
  BY <1>1, NewHallType, SendType DEF Kinds
<1>3. CallInv'
  BY <1>0, EmptySeq DEF Reconnect, CallInv, ParserTypeOK, ParserInv
<1>4. fresh' \in [parser : BOOLEAN, ring : BOOLEAN]
  BY DEF Reconnect
<1>5. wire' \in Seq(Bytes) /\ sent' \in 0..MaxPackets
  BY EmptySeq, LinkAssumption DEF Reconnect
<1>6. LinkTypes'
  BY <1>0, <1>2, <1>4, <1>5 DEF Reconnect, LinkTypes
<1>7. RestInv'
  BY <1>0 DEF Reconnect, RestInv
<1>8. QED BY <1>3, <1>6, <1>7, LinkInvParts, PTL

(* The packet the hall sends.                                               *)
LEMMA PacketBytes ==
  ASSUME NEW n \in Lens, NEW p \in Nat
  PROVE  /\ n \in Nat /\ n >= 1
         /\ [i \in 1..n |-> [pkt |-> p, len |-> n, at |-> i]] \in Seq(Bytes)
         /\ Len([i \in 1..n |-> [pkt |-> p, len |-> n, at |-> i]]) = n
<1> DEFINE s == [i \in 1..n |-> [pkt |-> p, len |-> n, at |-> i]]
<1>1. n \in Nat /\ n >= 1
  BY ParserAssumption
<1>2. s \in [1..n -> Bytes]
  BY <1>1 DEF Bytes
<1>3. s \in Seq(Bytes)
  BY <1>1, <1>2, SeqDef
<1>4. DOMAIN s = 1..n /\ DOMAIN s = 1..Len(s) /\ Len(s) \in Nat
  BY <1>2, <1>3, LenProperties
<1>5. QED BY <1>1, <1>3, <1>4

LEMMA HallSendsLinkInv ==
  ASSUME LinkInv, NEW n \in Lens, HallSends(n)
  PROVE  LinkInv'
<1>0. CallInv /\ LinkTypes /\ RestInv
  BY LinkInvParts
<1>1. CallInv'
  BY <1>0, SameCallInv DEF HallSends
<1>2. sent' = sent + 1 /\ sent + 1 \in 0..MaxPackets /\ sent + 1 \in Nat
  BY <1>0, LinkAssumption DEF HallSends, LinkTypes
<1>3. [i \in 1..n |-> [pkt |-> sent + 1, len |-> n, at |-> i]] \in Seq(Bytes)
  BY <1>2, PacketBytes
<1>4. wire' \in Seq(Bytes)
  BY <1>0, <1>3, ConcatProperties DEF HallSends, LinkTypes
<1>5. LinkTypes'
  BY <1>0, <1>2, <1>4 DEF HallSends, LinkTypes
<1>6. RestInv'
  BY <1>0 DEF HallSends, RestInv, parserVars
<1>7. QED BY <1>1, <1>5, <1>6, LinkInvParts, PTL

LEMMA BreakLinkInv ==
  ASSUME LinkInv, Break
  PROVE  LinkInv'
<1>0. CallInv /\ LinkTypes /\ RestInv
  BY LinkInvParts
<1>1. CallInv'
  BY <1>0, SameCallInv DEF Break
<1>2. breaks' \in 0..MaxBreaks
  BY <1>0, LinkAssumption DEF Break, LinkTypes
<1>3. LinkTypes'
  BY <1>0, <1>2 DEF Break, LinkTypes
<1>4. RestInv'
  BY <1>0 DEF Break, RestInv, parserVars
<1>5. QED BY <1>1, <1>3, <1>4, LinkInvParts, PTL

(* What a recv returns and what stays on the way.                           *)
LEMMA ReceivedType ==
  ASSUME LinkInv, NEW n \in 1..Lesser(Len(wire), RecvMax)
  PROVE  /\ n \in 0..Len(wire) /\ n \in Nat
         /\ SubSeq(wire, 1, n) \in Seq(Bytes) /\ Len(SubSeq(wire, 1, n)) = n
         /\ Dropped(wire, n) \in Seq(Bytes)
         /\ SubSeq(wire, 1, n) \o Dropped(wire, n) = wire
<1>1. wire \in Seq(Bytes) /\ Len(wire) \in Nat
  BY Numbers DEF LinkInv, TypeOK
<1>2. n \in 0..Len(wire) /\ n \in Nat
  BY <1>1, LinkAssumption DEF Lesser
<1>3. QED BY <1>1, <1>2, FrontProperties, DroppedProperties, CutInTwo DEF Dropped

(* A recv that is taken for a policy request.                               *)
LEMMA PolicyRequestLinkInv ==
  ASSUME LinkInv, PolicyRequest, m_bIsConnect, call \in {"idle", "ok"}
  PROVE  LinkInv'
<1>0. CallInv /\ LinkTypes /\ RestInv
  BY LinkInvParts
<1>1. PolicyLen \in 1..Lesser(Len(wire), RecvMax)
  BY LinkAssumption DEF PolicyRequest
<1>2. wire' \in Seq(Bytes)
  BY <1>1, ReceivedType DEF PolicyRequest
<1>3. CallInv'
  BY <1>0 DEF CallInv, ParserTypeOK, ParserInv, PolicyRequest
<1>4. /\ ring' \in Seq(Units) /\ Len(ring') <= Cap /\ hall' \in HallType
      /\ m_bfull' \in BOOLEAN /\ interest' \in {"IN", "OUT", "NONE"}
  <2>1. CASE Send("POLICY", hall, interest)
    BY <1>0, <2>1, SendType DEF LinkTypes, Kinds
  <2>2. CASE UNCHANGED <<ring, m_bfull, hall, interest>>
    BY <1>0, <2>2 DEF LinkTypes
  <2>3. QED BY <2>1, <2>2 DEF PolicyRequest
<1>5. LinkTypes'
  BY <1>0, <1>2, <1>4 DEF PolicyRequest, LinkTypes
<1>6. RestInv'
  BY DEF PolicyRequest, RestInv
<1>7. QED BY <1>3, <1>5, <1>6, LinkInvParts, PTL

LEMMA HandleReadLinkInv ==
  ASSUME LinkInv, HandleRead, Recv
  PROVE  LinkInv'
<1>0. CallInv /\ LinkTypes /\ RestInv
  BY LinkInvParts
<1>1. PICK n \in 1..Lesser(Len(wire), RecvMax) :
        /\ ParsePacket(SubSeq(wire, 1, n))
        /\ wire' = Dropped(wire, n)
        /\ reading' = IF n = RecvMax THEN "more" ELSE "last"
  BY DEF HandleRead, Recv
<1>2. data' \in Seq(Bytes) /\ wire' \in Seq(Bytes) /\ call' = "parsing"
  BY <1>1, ReceivedType DEF ParsePacket
<1>3. CallInv'
  BY <1>0, <1>1, <1>2 DEF CallInv, ParserTypeOK, ParserInv, ParsePacket
<1>4. LinkTypes'
  BY <1>0, <1>1, <1>2 DEF HandleRead, Recv, LinkTypes
<1>5. RestInv'
  BY <1>0, <1>1, <1>2 DEF HandleRead, Recv, RestInv
<1>6. QED BY <1>3, <1>4, <1>5, LinkInvParts, PTL

LEMMA ReadMoreLinkInv ==
  ASSUME LinkInv, ReadMore, RecvMore
  PROVE  LinkInv'
<1>0. CallInv /\ LinkTypes /\ RestInv
  BY LinkInvParts
<1>1. PICK n \in 1..Lesser(Len(wire), RecvMax) :
        /\ data' = SubSeq(wire, 1, n)
        /\ wire' = Dropped(wire, n)
        /\ reading' = IF n = RecvMax THEN "more" ELSE "last"
  BY DEF ReadMore, RecvMore
<1>2. data' \in Seq(Bytes) /\ wire' \in Seq(Bytes) /\ call' = "parsing"
  BY <1>1, ReceivedType DEF ReadMore, RecvMore
<1>3. CallInv'
  BY <1>0, <1>2 DEF CallInv, ParserTypeOK, ParserInv, ReadMore, RecvMore
<1>4. LinkTypes'
  BY <1>0, <1>1, <1>2 DEF ReadMore, RecvMore, LinkTypes
<1>5. RestInv'
  BY <1>0, <1>1, <1>2 DEF ReadMore, RecvMore, RestInv
<1>6. QED BY <1>3, <1>4, <1>5, LinkInvParts, PTL

LEMMA ReadEndsLinkInv ==
  ASSUME LinkInv, ReadEnds
  PROVE  LinkInv'
<1>0. CallInv /\ LinkTypes /\ RestInv
  BY LinkInvParts
<1>1. CallInv'
  BY <1>0 DEF CallInv, ParserTypeOK, ParserInv, ReadEnds
<1>2. LinkTypes'
  BY <1>0 DEF ReadEnds, LinkTypes
<1>3. RestInv'
  BY <1>0 DEF ReadEnds, RestInv, CallInv
<1>4. QED BY <1>1, <1>2, <1>3, LinkInvParts, PTL

LEMMA ParseLinkInv ==
  ASSUME LinkInv, Parse
  PROVE  LinkInv'
<1>0. CallInv /\ LinkTypes /\ RestInv
  BY LinkInvParts
<1>1. CallInv' /\ call' # "idle" /\ UNCHANGED linkVars
  BY ParseStepCallInv DEF Parse
<1>2. call # "idle" /\ call # "fail"
  BY DEF Parse, ParseStep, ReadHeader, ReadHeaderRefused, ReadHeaderAndBody, ReadBody,
         PacketRefused, ParseEnds, ParseAfterRefusal
<1>3. LinkTypes'
  BY <1>0, <1>1 DEF linkVars, LinkTypes
<1>4. RestInv'
  BY <1>0, <1>1, <1>2 DEF linkVars, RestInv, CallInv
<1>5. QED BY <1>1, <1>3, <1>4, LinkInvParts, PTL

LEMMA ProcessLinkInv ==
  ASSUME LinkInv, Process
  PROVE  LinkInv'
<1>0. CallInv /\ LinkTypes /\ RestInv
  BY LinkInvParts
<1>1. CallInv' /\ call' # "idle" /\ call # "idle" /\ call # "fail"
  BY CompleteCallInv DEF Process, PacketComplete
<1>2. CASE UNCHANGED linkVars
  <2>1. LinkTypes'
    BY <1>0, <1>2 DEF linkVars, LinkTypes
  <2>2. RestInv'
    BY <1>0, <1>1, <1>2 DEF linkVars, RestInv, CallInv
  <2>3. QED BY <1>1, <2>1, <2>2, LinkInvParts, PTL
<1>3. CASE /\ Send("MSG", hall, interest)
           /\ UNCHANGED <<m_bIsConnect, m_TcpTimer, reading, wire, sent, broken, breaks, fresh>>
  <2>1. /\ ring' \in Seq(Units) /\ Len(ring') <= Cap /\ hall' \in HallType
        /\ m_bfull' \in BOOLEAN /\ interest' \in {"IN", "OUT", "NONE"}
    BY <1>0, <1>3, SendType DEF LinkTypes, Kinds
  <2>2. LinkTypes'
    BY <1>0, <1>3, <2>1 DEF LinkTypes
  <2>3. RestInv'
    BY <1>0, <1>1, <1>3 DEF RestInv, CallInv
  <2>4. QED BY <1>1, <2>2, <2>3, LinkInvParts, PTL
<1>4. QED BY <1>2, <1>3 DEF Process

LEMMA HandleOutputLinkInv ==
  ASSUME LinkInv, HandleOutput
  PROVE  LinkInv'
<1>0. CallInv /\ LinkTypes /\ RestInv
  BY LinkInvParts
<1>1. CallInv'
  BY <1>0, SameCallInv DEF HandleOutput
<1>2. PICK o \in Output(ring, hall) :
        ring' = o.ring /\ hall' = o.hall /\ interest' = WatchedAfter(o.ring)
  BY DEF HandleOutput
<1>3. ring' \in Seq(Units) /\ Len(ring') <= Len(ring) /\ hall' \in HallType
  BY <1>0, <1>2, OutputType DEF LinkTypes
<1>4. Len(ring') <= Cap
  BY <1>0, <1>3, LenProperties, LinkAssumption DEF LinkTypes
<1>5. LinkTypes'
  BY <1>0, <1>2, <1>3, <1>4 DEF HandleOutput, LinkTypes, WatchedAfter
<1>6. RestInv'
  BY <1>0 DEF HandleOutput, RestInv, parserVars
<1>7. QED BY <1>1, <1>5, <1>6, LinkInvParts, PTL

LEMMA PlayerTimerLinkInv ==
  ASSUME LinkInv, PlayerTimer
  PROVE  LinkInv'
<1>0. CallInv /\ LinkTypes /\ RestInv
  BY LinkInvParts
<1>1. CallInv'
  BY <1>0, SameCallInv DEF PlayerTimer
<1>2. /\ ring' \in Seq(Units) /\ Len(ring') <= Cap /\ hall' \in HallType
      /\ m_bfull' \in BOOLEAN /\ interest' \in {"IN", "OUT", "NONE"}
  BY <1>0, SendType DEF PlayerTimer, LinkTypes, Kinds
<1>3. LinkTypes'
  BY <1>0, <1>2 DEF PlayerTimer, LinkTypes
<1>4. RestInv'
  BY <1>0 DEF PlayerTimer, RestInv, parserVars
<1>5. QED BY <1>1, <1>3, <1>4, LinkInvParts, PTL

LEMMA NextLinkInv == LinkInv /\ [Next]_vars => LinkInv'
<1> SUFFICES ASSUME LinkInv, [Next]_vars PROVE LinkInv'
  OBVIOUS
<1>1. CASE Reconnect
  BY <1>1, ReconnectLinkInv
<1>2. CASE Break
  BY <1>2, BreakLinkInv
<1>3. CASE Hangup \/ Overfull \/ ReadFails
  BY <1>3, CloseLinkInv DEF Hangup, Overfull, ReadFails
<1>4. CASE HandleRead
  <2>1. m_bIsConnect /\ call \in {"idle", "ok"} /\ (Recv \/ PolicyRequest)
    BY <1>4 DEF HandleRead, Idle
  <2>2. QED BY <1>4, <2>1, HandleReadLinkInv, PolicyRequestLinkInv
<1>5. CASE HandleOutput
  BY <1>5, HandleOutputLinkInv
<1>6. CASE PlayerTimer
  BY <1>6, PlayerTimerLinkInv
<1>7. CASE Parse
  BY <1>7, ParseLinkInv
<1>8. CASE Process
  BY <1>8, ProcessLinkInv
<1>9. CASE ReadMore
  <2>1. m_bIsConnect /\ call \in {"idle", "ok"} /\ (RecvMore \/ PolicyRequest)
    BY <1>9 DEF ReadMore, LinkInv, RestInv
  <2>2. QED BY <1>9, <2>1, ReadMoreLinkInv, PolicyRequestLinkInv
<1>10. CASE ReadEnds
  BY <1>10, ReadEndsLinkInv
<1>11. CASE \E n \in Lens : HallSends(n)
  BY <1>11, HallSendsLinkInv
<1>12. CASE UNCHANGED vars
  BY <1>12 DEF vars, parserVars, linkVars, LinkInv, TypeOK, ParserTypeOK, ParserInv, RestInv
<1>13. QED
  BY <1>1, <1>2, <1>3, <1>4, <1>5, <1>6, <1>7, <1>8, <1>9, <1>10, <1>11, <1>12
  DEF Next, Step

(* LinkInv holds of the specification.                                      *)
LEMMA LinkInvariant == Spec => []LinkInv
BY InitLinkInv, NextLinkInv, PTL DEF Spec

\* However the stream of the hall is cut, and however slowly the hall reads, the
\* packet buffer is never overrun, the ring never holds more than it can, and the
\* loop is in a state that its code has a case for (PacketParser.cpp,
\* TcpHandler.cpp).
THEOREM LinkTypesHold == Spec => []TypeOK
<1>1. LinkInv => TypeOK
  BY DEF LinkInv
<1>2. QED BY <1>1, LinkInvariant, PTL

LEMMA NextWatched == LinkInv /\ WatchedForWriting /\ [Next]_vars => WatchedForWriting'
<1> SUFFICES ASSUME LinkInv, WatchedForWriting, [Next]_vars PROVE WatchedForWriting'
  OBVIOUS
<1>1. CASE Reconnect
  BY <1>1, SendWatches DEF Reconnect, WatchedForWriting
<1>2. CASE Break
  BY <1>2 DEF Break, WatchedForWriting, Idle, parserVars
<1>3. CASE Hangup \/ Overfull \/ ReadFails
  BY <1>3 DEF Hangup, Overfull, ReadFails, handle_close, WatchedForWriting
<1>4. CASE HandleRead
  BY <1>4 DEF HandleRead, Recv, PolicyRequest, ParsePacket, WatchedForWriting, Idle
<1>5. CASE HandleOutput
  BY <1>5 DEF HandleOutput, WatchedAfter, WatchedForWriting
<1>6. CASE PlayerTimer
  <2>1. ring # <<>> /\ ~ m_bfull => interest = "OUT"
    BY <1>6 DEF PlayerTimer, WatchedForWriting
  <2>2. QED BY <1>6, <2>1, SendWatches DEF PlayerTimer, WatchedForWriting
<1>7. CASE Parse
  BY <1>7, ParseStepCallInv DEF Parse, WatchedForWriting, Idle
<1>8. CASE Process
  BY <1>8, CompleteCallInv DEF Process, WatchedForWriting, Idle
<1>9. CASE ReadMore
  BY <1>9 DEF ReadMore, RecvMore, PolicyRequest, WatchedForWriting, Idle
<1>10. CASE ReadEnds
  BY <1>10 DEF ReadEnds, WatchedForWriting, Idle
<1>11. CASE \E n \in Lens : HallSends(n)
  BY <1>11 DEF HallSends, WatchedForWriting, Idle, parserVars
<1>12. CASE UNCHANGED vars
  BY <1>12 DEF vars, parserVars, linkVars, WatchedForWriting, Idle
<1>13. QED
  BY <1>1, <1>2, <1>3, <1>4, <1>5, <1>6, <1>7, <1>8, <1>9, <1>10, <1>11, <1>12
  DEF Next, Step

\* Between two events of the loop nothing waits in the ring that epoll does not
\* watch the socket for, unless the ring has been found too full: every way out of
\* Send, handle_read and handle_output leaves EPOLLOUT when something is left
\* (TcpServer.cpp:236).
THEOREM WhatWaitsIsWatchedFor == Spec => []WatchedForWriting
<1>1. Init => WatchedForWriting
  BY DEF Init, WatchedForWriting
<1>2. QED BY <1>1, NextWatched, LinkInvariant, PTL DEF Spec

-----------------------------------------------------------------------------
(* The hall hears whole messages.                                           *)

(* After the first unit the hall is ready for the others.                   *)
LEMMA HearsFirst ==
  ASSUME NEW units \in Seq(Units), NEW rest \in Seq(Units), NEW h \in HallType,
         units # <<>>, Len(rest) = Len(units) - 1,
         \A i \in 1..Len(units) - 1 : rest[i] = units[1 + i],
         Messages(units, h)
  PROVE  Messages(rest, Hears(h, units[1]))
<1> DEFINE u == units[1]
<1>1. Len(units) \in Nat /\ Len(units) >= 1 /\ Len(rest) \in Nat
  BY LenProperties, EmptySeq
<1>2. u \in Units
  BY <1>1, ElementOfSeq
<1>3. u.part \in 1..Parts
  BY <1>2 DEF Units
<1> DEFINE g == [registered |-> h.registered \/ u.part = Parts,
                 kind |-> IF u.part = Parts THEN "none" ELSE u.kind,
                 next |-> IF u.part = Parts THEN 1 ELSE u.part + 1, ok |-> TRUE]
<1>4. Hears(h, u) = g
  BY <1>3, LinkAssumption DEF Messages, Hears
<1>5. \A i \in 1..Len(rest) - 1 : NextUnit(rest[i], rest[i + 1])
  <2> SUFFICES ASSUME NEW i \in 1..Len(rest) - 1 PROVE NextUnit(rest[i], rest[i + 1])
    OBVIOUS
  <2>1. rest[i] = units[i + 1] /\ rest[i + 1] = units[(i + 1) + 1]
        /\ i + 1 \in 1..Len(units) - 1
    BY <1>1
  <2>2. QED BY <2>1 DEF Messages
<1>6. CASE rest = <<>>
  <2>1. Len(units) = 1
    BY <1>1, <1>6, EmptySeq
  <2>2. u.part = Parts
    BY <2>1 DEF Messages
  <2>3. g.registered /\ g.next = 1 /\ g.ok
    BY <2>2
  <2>4. QED BY <1>4, <1>5, <1>6, <2>3 DEF Messages
<1>7. CASE rest # <<>>
  <2>1. Len(rest) >= 1
    BY <1>7, EmptySeq
  <2>2. rest[1] = units[2] /\ rest[Len(rest)] = units[Len(units)]
    BY <1>1, <2>1
  <2>3. NextUnit(u, units[2])
    BY <1>1, <2>1 DEF Messages
  <2>4. rest[1].part = g.next /\ g.ok
    BY <2>2, <2>3 DEF NextUnit
  <2>5. rest[1].part = 1 => g.registered
    <3>1. rest[1].part = IF u.part = Parts THEN 1 ELSE u.part + 1
      BY <2>2, <2>3 DEF NextUnit
    <3>2. u.part + 1 # 1
      BY <1>3, LinkAssumption
    <3>3. QED BY <3>1, <3>2
  <2>6. rest[1].part # 1 => rest[1].kind = g.kind
    BY <2>2, <2>3 DEF NextUnit
  <2>7. rest[Len(rest)].part = Parts
    BY <2>2 DEF Messages
  <2> HIDE DEF g
  <2>8. QED BY <1>4, <1>5, <1>7, <2>4, <2>5, <2>6, <2>7 DEF Messages
<1>8. QED BY <1>6, <1>7

(* After any number of them, too.                                           *)
LEMMA HeardMessages ==
  ASSUME NEW units \in Seq(Units), NEW h \in HallType, NEW n \in 0..Len(units),
         Messages(units, h)
  PROVE  Messages(Dropped(units, n), Heard(h, units, n))
<1> DEFINE Good == [k \in 0..n |-> {g \in HallType : Messages(Dropped(units, k), g)}]
<1>1. Len(units) \in Nat
  BY LenProperties
<1>2. h \in Good[0]
  <2>1. Dropped(units, 0) = units
    BY <1>1, SubSeqFull DEF Dropped
  <2>2. QED BY <1>1, <2>1
<1>3. ASSUME NEW k \in 0..n - 1, NEW g \in Good[k]
      PROVE  Hears(g, units[k + 1]) \in Good[k + 1]
  <2>1. k \in 0..Len(units) /\ k + 1 \in 0..Len(units) /\ k \in 0..n /\ k + 1 \in 0..n
        /\ k + 1 \in 1..Len(units)
    BY <1>1
  <2>2. g \in HallType /\ Messages(Dropped(units, k), g)
    BY <1>3, <2>1
  <2>3. /\ Dropped(units, k) \in Seq(Units) /\ Len(Dropped(units, k)) = Len(units) - k
        /\ \A i \in 1..Len(units) - k : Dropped(units, k)[i] = units[k + i]
    BY <2>1, DroppedProperties DEF Dropped
  <2>4. /\ Dropped(units, k + 1) \in Seq(Units)
        /\ Len(Dropped(units, k + 1)) = Len(units) - (k + 1)
        /\ \A i \in 1..Len(units) - (k + 1) :
             Dropped(units, k + 1)[i] = units[(k + 1) + i]
    BY <2>1, DroppedProperties DEF Dropped
  <2>5. Dropped(units, k) # <<>> /\ Dropped(units, k)[1] = units[k + 1]
    BY <1>1, <2>1, <2>3, EmptySeq
  <2>6. \A i \in 1..Len(Dropped(units, k)) - 1 :
          Dropped(units, k + 1)[i] = Dropped(units, k)[1 + i]
    <3> SUFFICES ASSUME NEW i \in 1..Len(Dropped(units, k)) - 1
                 PROVE  Dropped(units, k + 1)[i] = Dropped(units, k)[1 + i]
      OBVIOUS
    <3>1. i \in 1..Len(units) - (k + 1) /\ 1 + i \in 1..Len(units) - k
          /\ (k + 1) + i = k + (1 + i)
      BY <1>1, <2>3
    <3>2. QED BY <2>3, <2>4, <3>1
  <2>7. Len(Dropped(units, k + 1)) = Len(Dropped(units, k)) - 1
    <3>1. Len(units) - (k + 1) = (Len(units) - k) - 1
      BY <1>1, <2>1
    <3>2. /\ Len(Dropped(units, k + 1)) = Len(units) - (k + 1)
          /\ Len(Dropped(units, k)) = Len(units) - k
      BY <2>3, <2>4
    <3>3. QED BY <3>1, <3>2
  <2>8. Messages(Dropped(units, k + 1), Hears(g, units[k + 1]))
    BY <2>2, <2>3, <2>4, <2>5, <2>6, <2>7, HearsFirst
  <2>9. Hears(g, units[k + 1]) \in HallType
    <3>1. units[k + 1] \in Units
      BY <2>1, ElementOfSeq
    <3>2. QED BY <2>2, <3>1, HearsType
  <2>10. QED BY <2>1, <2>8, <2>9
<1>4. n \in Nat /\ n \in 0..n
  BY <1>1
<1>5. Heard(h, units, n) \in Good[n]
  <2> HIDE DEF Good
  <2>1. QED BY <1>2, <1>3, <1>4, HeardInduction
<1>6. QED BY <1>4, <1>5

LEMMA OutputMessages ==
  ASSUME NEW units \in Seq(Units), NEW h \in HallType, NEW o \in Output(units, h)
  PROVE  /\ ~ broken /\ Messages(units, h) => Messages(o.ring, o.hall)
         /\ broken => o.hall = h
<1>1. CASE m_bfull
  BY <1>1 DEF Output
<1>2. CASE ~ m_bfull /\ broken
  BY <1>2 DEF Output
<1>3. CASE ~ m_bfull /\ ~ broken
  <2>1. PICK n \in 0..Len(units) : o = Sent(units, h, n)
    BY <1>3 DEF Output
  <2>2. o.ring = Dropped(units, n) /\ o.hall = Heard(h, units, n)
    BY <2>1 DEF Sent
  <2>3. QED BY <1>3, <2>2, HeardMessages
<1>4. QED BY <1>1, <1>2, <1>3

LEMMA UnitsJoined ==
  ASSUME NEW s \in Seq(Units), NEW t \in Seq(Units)
  PROVE  /\ s \o t \in Seq(Units) /\ Len(s \o t) = Len(s) + Len(t)
         /\ \A i \in 1..Len(s) + Len(t) :
              (s \o t)[i] = IF i <= Len(s) THEN s[i] ELSE t[i - Len(s)]
BY ConcatProperties

(* Another message may follow what is in the ring.                          *)
LEMMA OneMoreMessage ==
  ASSUME NEW units \in Seq(Units), NEW h \in HallType, Messages(units, h),
         NEW kind \in Kinds
  PROVE  Messages(units \o Message(kind), h)
<1> DEFINE m == Message(kind)
           all == units \o m
<1>1. /\ m \in Seq(Units) /\ Len(m) = Parts /\ Parts \in Nat /\ Parts >= 1
      /\ \A i \in 1..Parts : m[i] = [kind |-> kind, part |-> i]
  BY MessageType, LinkAssumption
<1>2. Len(units) \in Nat
  BY LenProperties
<1> HIDE DEF m
<1>3. /\ all \in Seq(Units) /\ Len(all) = Len(units) + Parts
      /\ \A i \in 1..Len(units) + Parts :
           all[i] = IF i <= Len(units) THEN units[i] ELSE m[i - Len(units)]
  BY <1>1, UnitsJoined
<1>4. \A i \in 1..Len(units) : all[i] = units[i]
  BY <1>1, <1>2, <1>3
<1>5. \A i \in 1..Parts : all[Len(units) + i] = [kind |-> kind, part |-> i]
  <2> SUFFICES ASSUME NEW i \in 1..Parts
               PROVE  all[Len(units) + i] = [kind |-> kind, part |-> i]
    OBVIOUS
  <2>1. Len(units) + i \in 1..Len(units) + Parts /\ ~(Len(units) + i <= Len(units))
        /\ (Len(units) + i) - Len(units) = i
    BY <1>1, <1>2
  <2>2. all[Len(units) + i] = m[i]
    BY <1>3, <2>1
  <2>3. QED BY <1>1, <2>2
<1> HIDE DEF all
<1>6. all # <<>> /\ all[Len(all)].part = Parts
  <2>1. Parts \in 1..Parts /\ Len(all) = Len(units) + Parts /\ Len(all) # 0
    BY <1>1, <1>2, <1>3
  <2>2. all[Len(units) + Parts] = [kind |-> kind, part |-> Parts]
    BY <1>5, <2>1
  <2>3. all # <<>>
    BY <2>1, EmptySeq
  <2>4. QED BY <2>1, <2>2, <2>3
<1>7. ASSUME NEW i \in 1..Len(all) - 1 PROVE NextUnit(all[i], all[i + 1])
  <2>1. CASE i < Len(units)
    <3>1. i \in 1..Len(units) - 1 /\ i \in 1..Len(units) /\ i + 1 \in 1..Len(units)
      BY <1>2, <1>3, <1>1, <2>1
    <3>2. NextUnit(units[i], units[i + 1])
      BY <3>1 DEF Messages
    <3>3. QED BY <1>4, <3>1, <3>2
  <2>2. CASE i = Len(units)
    <3>1. Len(units) \in 1..Len(units) /\ units # <<>> /\ 1 \in 1..Parts
      BY <1>1, <1>2, <2>2, EmptySeq
    <3>2. all[i].part = Parts
      BY <1>4, <2>2, <3>1 DEF Messages
    <3>3. all[Len(units) + 1].part = 1
      <4>1. all[Len(units) + 1] = [kind |-> kind, part |-> 1]
        BY <1>5, <3>1
      <4>2. QED BY <4>1
    <3>4. QED BY <2>2, <3>2, <3>3 DEF NextUnit
  <2>3. CASE i > Len(units)
    <3> DEFINE j == i - Len(units)
    <3>1. j \in 1..Parts /\ j + 1 \in 1..Parts /\ i = Len(units) + j
          /\ i + 1 = Len(units) + (j + 1)
      BY <1>1, <1>2, <1>3, <2>3
    <3> HIDE DEF j
    <3>2. all[i] = [kind |-> kind, part |-> j] /\ all[i + 1] = [kind |-> kind, part |-> j + 1]
      BY <1>5, <3>1
    <3>3. j # Parts
      BY <3>1, <1>1
    <3>4. QED BY <3>2, <3>3 DEF NextUnit
  <2>4. QED BY <1>1, <1>2, <1>3, <2>1, <2>2, <2>3
<1>8. /\ all[1].part = h.next
      /\ all[1].part = 1 => h.registered \/ all[1].kind = "REGIST"
      /\ all[1].part # 1 => all[1].kind = h.kind
  <2>1. CASE units = <<>>
    <3>1. Len(units) = 0 /\ 1 \in 1..Parts /\ 0 + 1 = 1
      BY <1>1, <2>1, EmptySeq
    <3>2. all[Len(units) + 1].part = 1 /\ Len(units) + 1 = 1
      <4>1. all[Len(units) + 1] = [kind |-> kind, part |-> 1]
        BY <1>5, <3>1
      <4>2. QED BY <3>1, <4>1
    <3>3. QED BY <2>1, <3>2 DEF Messages
  <2>2. CASE units # <<>>
    <3>1. 1 \in 1..Len(units)
      BY <1>2, <2>2, EmptySeq
    <3>2. all[1] = units[1]
      BY <1>4, <3>1
    <3>3. QED BY <2>2, <3>2 DEF Messages
  <2>3. QED BY <2>1, <2>2
<1>9. h.ok
  BY DEF Messages
<1>10. Messages(all, h)
  BY <1>6, <1>7, <1>8, <1>9 DEF Messages
<1>11. QED BY <1>10 DEF all, m

(* The registration is what a new connection begins with.                   *)
LEMMA RegistrationFirst ==
  Messages(<<>> \o Message("REGIST"), NewHall)
<1> DEFINE m == Message("REGIST")
<1>1. /\ m \in Seq(Units) /\ Len(m) = Parts /\ Parts \in Nat /\ Parts >= 1
      /\ \A i \in 1..Parts : m[i] = [kind |-> "REGIST", part |-> i]
  BY MessageType, LinkAssumption DEF Kinds
<1>2. <<>> \o m = m
  BY <1>1, ConcatEmptySeq
<1> HIDE DEF m
<1>3. m # <<>> /\ m[1].part = 1 /\ m[1].kind = "REGIST" /\ m[Len(m)].part = Parts
  BY <1>1, EmptySeq
<1>4. ASSUME NEW i \in 1..Len(m) - 1 PROVE NextUnit(m[i], m[i + 1])
  <2>1. m[i] = [kind |-> "REGIST", part |-> i] /\ m[i + 1] = [kind |-> "REGIST", part |-> i + 1]
        /\ i # Parts
    BY <1>1
  <2>2. QED BY <2>1 DEF NextUnit
<1>5. NewHall.ok /\ NewHall.next = 1
  BY DEF NewHall
<1>6. Messages(m, NewHall)
  BY <1>3, <1>4, <1>5 DEF Messages
<1>7. QED BY <1>2, <1>6 DEF m

(* A message sent on a connection leaves the hall with whole messages.      *)
LEMMA SendMessages ==
  ASSUME LinkInv, NEW kind \in Kinds, NEW h \in HallType,
         NEW watched, Send(kind, h, watched), h.ok,
         ~ broken => Messages(ring \o Message(kind), h),
         ~ broken /\ Len(ring \o Message(kind)) > Cap => Messages(ring, h)
  PROVE  /\ hall'.ok
         /\ ~ broken => Messages(ring', hall')
<1> DEFINE units == ring \o Message(kind)
<1>1. units \in Seq(Units)
  <2>1. ring \in Seq(Units)
    BY DEF LinkInv, TypeOK, Units, Kinds
  <2>2. QED BY <2>1, MessageType, ConcatProperties
<1>2. CASE Len(units) > Cap
  BY <1>2 DEF Send
<1>3. CASE ~(Len(units) > Cap)
  <2>1. PICK o \in Output(units, h) : ring' = o.ring /\ hall' = o.hall
    BY <1>3 DEF Send
  <2>2. ~ broken => Messages(o.ring, o.hall)
    BY <1>1, OutputMessages
  <2>3. broken => o.hall = h
    BY <1>1, OutputMessages
  <2>4. ~ broken => o.hall.ok
    BY <2>2 DEF Messages
  <2>5. QED BY <2>1, <2>2, <2>3, <2>4
<1>4. QED BY <1>2, <1>3

LEMMA SendMsgHallInv ==
  ASSUME LinkInv, HallInv, m_bIsConnect, NEW watched, NEW kind \in {"MSG", "POLICY"},
         Send(kind, hall, watched),
         UNCHANGED <<m_bIsConnect, broken, fresh>>
  PROVE  HallInv'
<1> SUFFICES ASSUME fresh.ring
             PROVE  hall'.ok /\ (~ broken => Messages(ring', hall'))
  BY DEF HallInv, Messages
<1>1. ring \in Seq(Units) /\ hall \in HallType
  BY DEF LinkInv, TypeOK, Units, HallType, Kinds
<1>2. hall.ok /\ (~ broken => Messages(ring, hall))
  BY DEF HallInv
<1>0. kind \in Kinds
  BY DEF Kinds
<1>3. ~ broken => Messages(ring \o Message(kind), hall)
  BY <1>0, <1>1, <1>2, OneMoreMessage
<1>4. QED BY <1>0, <1>1, <1>2, <1>3, SendMessages

LEMMA ReconnectHallInv ==
  ASSUME LinkInv, HallInv, Reconnect
  PROVE  HallInv'
<1> SUFFICES ASSUME fresh'.ring
             PROVE  hall'.ok /\ (~ broken => Messages(ring', hall'))
  BY DEF HallInv, Messages, Reconnect
<1>1. ring = <<>>
  BY DEF Reconnect
<1>2. Len(ring \o Message("REGIST")) <= Cap
  <2>1. Message("REGIST") \in Seq(Units) /\ Len(Message("REGIST")) = Parts
    BY MessageType DEF Kinds
  <2>2. ring \o Message("REGIST") = Message("REGIST")
    BY <1>1, <2>1, ConcatEmptySeq
  <2>3. QED BY <2>1, <2>2, LinkAssumption
<1>3. Messages(ring \o Message("REGIST"), NewHall)
  BY <1>1, RegistrationFirst
<1>4. ~(Len(ring \o Message("REGIST")) > Cap)
  <2>1. Len(ring \o Message("REGIST")) \in Nat
    BY <1>1, MessageType, ConcatEmptySeq, LenProperties
  <2>2. QED BY <1>2, <2>1, LinkAssumption
<1>5. NewHall.ok /\ NewHall \in HallType
  BY NewHallType DEF NewHall
<1>6. Send("REGIST", NewHall, "IN")
  BY DEF Reconnect
<1>7. QED BY <1>3, <1>4, <1>5, <1>6, SendMessages DEF Kinds

LEMMA HandleOutputHallInv ==
  ASSUME LinkInv, HallInv, HandleOutput
  PROVE  HallInv'
<1> SUFFICES ASSUME fresh.ring
             PROVE  hall'.ok /\ (~ broken => Messages(ring', hall'))
  BY DEF HallInv, Messages, HandleOutput
<1>1. ring \in Seq(Units) /\ hall \in HallType
  BY DEF LinkInv, TypeOK, Units, HallType, Kinds
<1>2. hall.ok /\ (~ broken => Messages(ring, hall))
  BY DEF HallInv, HandleOutput
<1>3. PICK o \in Output(ring, hall) : ring' = o.ring /\ hall' = o.hall
  BY DEF HandleOutput
<1>4. /\ ~ broken => Messages(o.ring, o.hall)
      /\ broken => o.hall = hall
  BY <1>1, <1>2, OutputMessages
<1>5. QED BY <1>2, <1>3, <1>4 DEF Messages

(* A step that neither sends nor connects.                                  *)
LEMMA SameHallInv ==
  ASSUME HallInv, UNCHANGED <<ring, hall, fresh>>,
         m_bIsConnect' /\ ~ broken' => m_bIsConnect /\ ~ broken
  PROVE  HallInv'
BY DEF HallInv, Messages

LEMMA PolicyRequestHallInv ==
  ASSUME LinkInv, HallInv, m_bIsConnect, PolicyRequest
  PROVE  HallInv'
<1>1. CASE Send("POLICY", hall, interest)
  BY <1>1, SendMsgHallInv DEF PolicyRequest
<1>2. CASE UNCHANGED <<ring, m_bfull, hall, interest>>
  BY <1>2, SameHallInv DEF PolicyRequest
<1>3. QED BY <1>1, <1>2 DEF PolicyRequest

LEMMA NextHallInv == LinkInv /\ HallInv /\ [Next]_vars => HallInv'
<1> SUFFICES ASSUME LinkInv, HallInv, [Next]_vars PROVE HallInv'
  OBVIOUS
<1>1. CASE Reconnect
  BY <1>1, ReconnectHallInv
<1>2. CASE Break
  BY <1>2, SameHallInv DEF Break
<1>3. CASE Hangup \/ Overfull \/ ReadFails
  BY <1>3, SameHallInv DEF Hangup, Overfull, ReadFails, handle_close
<1>4. CASE HandleRead
  <2>1. CASE Recv
    BY <2>1, SameHallInv DEF Recv
  <2>2. CASE PolicyRequest
    BY <1>4, <2>2, PolicyRequestHallInv DEF HandleRead
  <2>3. QED BY <1>4, <2>1, <2>2 DEF HandleRead
<1>5. CASE HandleOutput
  BY <1>5, HandleOutputHallInv
<1>6. CASE PlayerTimer
  BY <1>6, SendMsgHallInv DEF PlayerTimer
<1>7. CASE Parse
  BY <1>7, SameHallInv DEF Parse, linkVars
<1>8. CASE Process
  <2>1. CASE UNCHANGED linkVars
    BY <2>1, SameHallInv DEF linkVars
  <2>2. CASE /\ Send("MSG", hall, interest)
             /\ UNCHANGED <<m_bIsConnect, m_TcpTimer, reading, wire, sent, broken, breaks, fresh>>
    <3>1. m_bIsConnect
      BY <1>8 DEF Process, PacketComplete, LinkInv, RestInv
    <3>2. QED BY <2>2, <3>1, SendMsgHallInv
  <2>3. QED BY <1>8, <2>1, <2>2 DEF Process
<1>9. CASE ReadMore
  <2>1. CASE RecvMore
    BY <2>1, SameHallInv DEF RecvMore
  <2>2. CASE PolicyRequest
    <3>1. m_bIsConnect
      BY <1>9 DEF ReadMore, LinkInv, RestInv
    <3>2. QED BY <2>2, <3>1, PolicyRequestHallInv
  <2>3. QED BY <1>9, <2>1, <2>2 DEF ReadMore
<1>10. CASE ReadEnds
  BY <1>10, SameHallInv DEF ReadEnds
<1>11. CASE \E n \in Lens : HallSends(n)
  BY <1>11, SameHallInv DEF HallSends
<1>12. CASE UNCHANGED vars
  BY <1>12, SameHallInv DEF vars, linkVars
<1>13. QED
  BY <1>1, <1>2, <1>3, <1>4, <1>5, <1>6, <1>7, <1>8, <1>9, <1>10, <1>11, <1>12
  DEF Next, Step

\* On a connection that began with an empty ring the hall receives the registration
\* first and after it whole messages only, in whatever portions the socket takes
\* them, and whatever is sent while it does (TcpHandler.cpp:84, CentServer.cpp:229).
THEOREM TheHallHearsMessages == Spec => []StreamToHall
<1>1. Init => HallInv
  BY DEF Init, HallInv, NewHall
<1>2. HallInv => StreamToHall
  BY DEF HallInv, StreamToHall
<1>3. QED BY <1>1, <1>2, NextHallInv, LinkInvariant, PTL DEF Spec

-----------------------------------------------------------------------------
(* Chains of bytes.                                                         *)

LEMMA ConcatParts ==
  ASSUME NEW S, NEW a \in Seq(S), NEW b \in Seq(S)
  PROVE  /\ a \o b \in Seq(S) /\ Len(a \o b) = Len(a) + Len(b)
         /\ Len(a) \in Nat /\ Len(b) \in Nat
         /\ \A i \in 1..Len(a) : (a \o b)[i] = a[i]
         /\ \A i \in 1..Len(b) : (a \o b)[Len(a) + i] = b[i]
<1> DEFINE c == a \o b
<1>1. Len(a) \in Nat /\ Len(b) \in Nat
  BY LenProperties
<1>2. /\ c \in Seq(S) /\ Len(c) = Len(a) + Len(b)
      /\ \A i \in 1..Len(a) + Len(b) : c[i] = IF i <= Len(a) THEN a[i] ELSE b[i - Len(a)]
  BY ConcatProperties
<1> HIDE DEF c
<1>3. \A i \in 1..Len(a) : c[i] = a[i]
  BY <1>1, <1>2
<1>4. ASSUME NEW i \in 1..Len(b) PROVE c[Len(a) + i] = b[i]
  <2>1. Len(a) + i \in 1..Len(a) + Len(b) /\ ~(Len(a) + i <= Len(a))
        /\ (Len(a) + i) - Len(a) = i
    BY <1>1
  <2>2. QED BY <1>2, <2>1
<1>5. QED BY <1>1, <1>2, <1>3, <1>4 DEF c

(* The bytes of the first packet of a chain.                                *)
LEMMA ChainInOrder ==
  ASSUME NEW s \in Seq(Bytes), ByteChain(s), NEW n \in 1..Len(s),
         s[1].at = 1, n <= s[1].len
  PROVE  \A i \in 1..n : s[i] = [s[1] EXCEPT !.at = i]
<1> DEFINE S == {k \in Nat : k \in 1..n => s[k] = [s[1] EXCEPT !.at = k]}
<1>1. Len(s) \in Nat /\ n \in Nat
  BY LenProperties
<1>2. s[1] \in Bytes /\ s[1].len \in Nat
  <2>1. s[1] \in Bytes
    BY <1>1, ElementOfSeq
  <2>2. QED BY <2>1 DEF Bytes
<1>3. 0 \in S
  OBVIOUS
<1>4. ASSUME NEW k \in S PROVE k + 1 \in S
  <2> SUFFICES ASSUME k + 1 \in 1..n PROVE s[k + 1] = [s[1] EXCEPT !.at = k + 1]
    BY <1>4
  <2>1. CASE k = 0
    <3>1. s[1] = [s[1] EXCEPT !.at = 1]
      BY <1>2 DEF Bytes
    <3>2. k + 1 = 1
      BY <2>1
    <3>3. QED BY <3>1, <3>2
  <2>2. CASE k # 0
    <3>1. k \in 1..n /\ k \in 1..Len(s) - 1 /\ k < n /\ k \in Nat
      BY <1>1, <1>4, <2>2
    <3>2. s[k] = [s[1] EXCEPT !.at = k]
      BY <1>4, <3>1
    <3>3. s[k].at = k /\ s[k].len = s[1].len
      BY <1>2, <3>2 DEF Bytes
    <3>4. s[k].at < s[k].len
      BY <1>1, <1>2, <3>1, <3>3
    <3>5. NextByte(s[k], s[k + 1])
      BY <3>1 DEF ByteChain
    <3>6. s[k + 1] = [s[k] EXCEPT !.at = k + 1]
      BY <3>3, <3>4, <3>5 DEF NextByte
    <3>7. [s[k] EXCEPT !.at = k + 1] = [s[1] EXCEPT !.at = k + 1]
      BY <1>2, <3>2 DEF Bytes
    <3>8. QED BY <3>6, <3>7
  <2>3. QED BY <2>1, <2>2
<1>5. S = Nat
  <2> HIDE DEF S
  <2>1. S \in SUBSET Nat
    BY DEF S
  <2>2. QED BY <1>3, <1>4, <2>1, Induction
<1>6. QED BY <1>1, <1>5

(* Without its first packet a chain of packets goes on with the next.       *)
LEMMA WithoutFirst ==
  ASSUME NEW s \in Seq(Bytes), NEW from \in Nat, NEW upto \in Nat,
         Packets(s, from, upto), s # <<>>, s[1].len <= Len(s),
         NEW rest \in Seq(Bytes), Len(rest) = Len(s) - s[1].len,
         \A i \in 1..Len(rest) : rest[i] = s[s[1].len + i]
  PROVE  Packets(rest, from + 1, upto)
<1> DEFINE n == s[1].len
<1>1. Len(s) \in Nat /\ Len(rest) \in Nat /\ Len(s) >= 1
  BY LenProperties, EmptySeq
<1>2. n \in Lens /\ n \in Nat /\ n >= 1 /\ n \in 1..Len(s)
  <2>1. ByteChain(s) /\ 1 \in 1..Len(s)
    BY <1>1 DEF Packets
  <2>2. n \in Lens
    BY <2>1 DEF ByteChain
  <2>3. n \in Nat /\ n >= 1
    BY <2>2, PacketBytes
  <2>4. n <= Len(s)
    OBVIOUS
  <2> HIDE DEF n
  <2>5. QED BY <1>1, <2>2, <2>3, <2>4
<1>3. s[1] \in Bytes
  BY <1>1, ElementOfSeq
<1>4. s[1].at = 1 /\ s[1].pkt = from + 1 /\ ByteChain(s)
  BY DEF Packets
<1>5. s[n] = [s[1] EXCEPT !.at = n]
  <2>1. \A i \in 1..n : s[i] = [s[1] EXCEPT !.at = i]
    BY SMTT(30), <1>2, <1>4, ChainInOrder
  <2>2. QED BY <1>2, <2>1
<1>6. s[n].at = n /\ s[n].len = n /\ s[n].pkt = from + 1
  BY <1>3, <1>4, <1>5 DEF Bytes
<1> HIDE DEF n
<1>7. \A i \in 1..Len(rest) : rest[i] = s[n + i]
  BY DEF n
<1>8. Len(rest) = Len(s) - n
  BY DEF n
<1>9. ByteChain(rest)
  <2>1. ASSUME NEW i \in 1..Len(rest)
        PROVE  rest[i].len \in Lens /\ rest[i].at \in 1..rest[i].len
    <3>1. n + i \in 1..Len(s)
      BY <1>1, <1>2, <1>8
    <3>2. s[n + i].len \in Lens /\ s[n + i].at \in 1..s[n + i].len
      BY <1>4, <3>1 DEF ByteChain
    <3>3. QED BY <1>7, <3>2
  <2>2. ASSUME NEW i \in 1..Len(rest) - 1
        PROVE  NextByte(rest[i], rest[i + 1])
    <3>1. n + i \in 1..Len(s) - 1 /\ (n + i) + 1 = n + (i + 1)
          /\ i \in 1..Len(rest) /\ i + 1 \in 1..Len(rest)
      BY <1>1, <1>2, <1>8, SMTT(30)
    <3>2. NextByte(s[n + i], s[(n + i) + 1])
      BY <1>4, <3>1 DEF ByteChain
    <3>3. QED BY <1>7, <3>1, <3>2
  <2>3. QED BY <2>1, <2>2 DEF ByteChain
<1>10. CASE rest = <<>>
  <2>1. n = Len(s)
    BY <1>1, <1>2, <1>8, <1>10, EmptySeq
  <2>2. from + 1 = upto
    BY <1>6, <2>1 DEF Packets
  <2>3. QED BY <1>9, <1>10, <2>2 DEF Packets
<1>11. CASE rest # <<>>
  <2>1. 1 \in 1..Len(rest) /\ Len(rest) \in 1..Len(rest) /\ n \in 1..Len(s) - 1
        /\ n + Len(rest) = Len(s)
    BY <1>1, <1>2, <1>8, <1>11, EmptySeq
  <2>2. NextByte(s[n], s[n + 1])
    BY <1>4, <2>1 DEF ByteChain
  <2>3. s[n + 1].at = 1 /\ s[n + 1].pkt = (from + 1) + 1
    BY <1>2, <1>6, <2>2 DEF NextByte
  <2>4. rest[1] = s[n + 1] /\ rest[Len(rest)] = s[n + Len(rest)]
    BY <1>7, <2>1
  <2>5. rest[Len(rest)] = s[Len(s)]
    BY <2>1, <2>4
  <2>6. s[Len(s)].at = s[Len(s)].len /\ s[Len(s)].pkt = upto
    BY DEF Packets
  <2>7. QED BY <1>9, <1>11, <2>3, <2>4, <2>5, <2>6 DEF Packets
<1>12. QED BY <1>10, <1>11

(* The next packet follows the last.                                        *)
LEMMA WithAnother ==
  ASSUME NEW s \in Seq(Bytes), NEW from \in Nat, NEW upto \in Nat,
         Packets(s, from, upto), NEW n \in Lens
  PROVE  Packets(s \o [i \in 1..n |-> [pkt |-> upto + 1, len |-> n, at |-> i]],
                 from, upto + 1)
<1> DEFINE p == [i \in 1..n |-> [pkt |-> upto + 1, len |-> n, at |-> i]]
           all == s \o p
<1>1. n \in Nat /\ n >= 1 /\ p \in Seq(Bytes) /\ Len(p) = n
  BY PacketBytes
<1>2. \A i \in 1..n : p[i].pkt = upto + 1 /\ p[i].len = n /\ p[i].at = i
  OBVIOUS
<1>3. ASSUME NEW i \in 1..n - 1
      PROVE  p[i + 1] = [p[i] EXCEPT !.at = p[i].at + 1]
  <2>1. p[i] = [pkt |-> upto + 1, len |-> n, at |-> i]
    BY <1>1
  <2>2. p[i + 1] = [pkt |-> upto + 1, len |-> n, at |-> i + 1]
    BY <1>1
  <2> HIDE DEF p
  <2>3. QED BY <2>1, <2>2
<1> HIDE DEF p
<1>4. /\ all \in Seq(Bytes) /\ Len(all) = Len(s) + n /\ Len(s) \in Nat
      /\ \A i \in 1..Len(s) : all[i] = s[i]
      /\ \A i \in 1..n : all[Len(s) + i] = p[i]
  <2>1. /\ all \in Seq(Bytes) /\ Len(all) = Len(s) + Len(p) /\ Len(s) \in Nat
        /\ \A i \in 1..Len(s) : all[i] = s[i]
        /\ \A i \in 1..Len(p) : all[Len(s) + i] = p[i]
    <3>1. s \in Seq(Bytes) /\ p \in Seq(Bytes)
      BY <1>1
    <3>2. QED BY <3>1, ConcatParts
  <2>2. QED BY <1>1, <2>1
<1> HIDE DEF all
<1>5. ByteChain(s)
  BY DEF Packets
<1>6. ByteChain(all)
  <2>1. ASSUME NEW i \in 1..Len(all)
        PROVE  all[i].len \in Lens /\ all[i].at \in 1..all[i].len
    <3>1. CASE i \in 1..Len(s)
      <4>1. all[i] = s[i]
        BY <1>4, <3>1
      <4>2. QED BY <1>5, <3>1, <4>1 DEF ByteChain
    <3>2. CASE i \notin 1..Len(s)
      <4> DEFINE j == i - Len(s)
      <4>1. j \in 1..n /\ i = Len(s) + j
        BY <1>1, <1>4, <3>2
      <4> HIDE DEF j
      <4>2. all[i] = p[j]
        BY <1>4, <4>1
      <4>3. p[j].len = n /\ p[j].at = j
        BY <1>2, <4>1
      <4>4. QED BY <4>1, <4>2, <4>3
    <3>3. QED BY <3>1, <3>2
  <2>2. ASSUME NEW i \in 1..Len(all) - 1
        PROVE  NextByte(all[i], all[i + 1])
    <3>1. CASE i < Len(s)
      <4>1. i \in 1..Len(s) - 1 /\ i \in 1..Len(s) /\ i + 1 \in 1..Len(s)
        BY <1>1, <1>4, <3>1
      <4>2. NextByte(s[i], s[i + 1])
        BY <1>5, <4>1 DEF ByteChain
      <4>3. QED BY <1>4, <4>1, <4>2
    <3>2. CASE i = Len(s)
      <4>1. s # <<>> /\ Len(s) \in 1..Len(s) /\ 1 \in 1..n
        BY <1>1, <1>4, <3>2, EmptySeq
      <4>2. s[Len(s)].at = s[Len(s)].len /\ s[Len(s)].pkt = upto
        BY <4>1 DEF Packets
      <4>3. s[Len(s)] \in Bytes
        BY <4>1, ElementOfSeq
      <4>4. ~(s[Len(s)].at < s[Len(s)].len)
        BY <4>2, <4>3 DEF Bytes
      <4>5. all[i] = s[Len(s)] /\ all[i + 1] = p[1]
        BY <1>4, <3>2, <4>1
      <4>6. p[1].at = 1 /\ p[1].pkt = upto + 1
        BY <1>2, <4>1
      <4>7. QED BY <4>2, <4>4, <4>5, <4>6 DEF NextByte
    <3>3. CASE i > Len(s)
      <4> DEFINE j == i - Len(s)
      <4>1. j \in 1..n - 1 /\ j \in 1..n /\ j + 1 \in 1..n
            /\ i = Len(s) + j /\ i + 1 = Len(s) + (j + 1)
        BY <1>1, <1>4, <3>3
      <4> HIDE DEF j
      <4>2. all[i] = p[j] /\ all[i + 1] = p[j + 1]
        BY <1>4, <4>1
      <4>3. p[j].at < p[j].len
        BY <1>1, <1>2, <4>1
      <4>4. QED BY <1>3, <4>1, <4>2, <4>3 DEF NextByte
    <3>4. QED BY <1>1, <1>4, <3>1, <3>2, <3>3
  <2>3. QED BY <2>1, <2>2 DEF ByteChain
<1>7. n \in 1..n /\ 1 \in 1..n
  BY <1>1
<1>8. all # <<>> /\ all[Len(all)].at = all[Len(all)].len /\ all[Len(all)].pkt = upto + 1
  <2>1. all[Len(all)] = p[n]
    BY <1>4, <1>7
  <2>2. all # <<>>
    BY <1>1, <1>4, EmptySeq
  <2>3. QED BY <1>2, <1>7, <2>1, <2>2
<1>9. all[1].at = 1 /\ all[1].pkt = from + 1
  <2>1. CASE s = <<>>
    <3>1. Len(s) + 1 = 1 /\ from = upto
      BY <2>1, EmptySeq DEF Packets
    <3>2. all[Len(s) + 1] = p[1]
      BY <1>4, <1>7
    <3>3. p[1].at = 1 /\ p[1].pkt = upto + 1
      BY <1>2, <1>7
    <3>4. QED BY <3>1, <3>2, <3>3
  <2>2. CASE s # <<>>
    <3>1. 1 \in 1..Len(s)
      BY <1>4, <2>2, EmptySeq
    <3>2. all[1] = s[1]
      BY <1>4, <3>1
    <3>3. QED BY <2>2, <3>2 DEF Packets
  <2>3. QED BY <2>1, <2>2
<1>10. Packets(all, from, upto + 1)
  BY <1>6, <1>8, <1>9 DEF Packets
<1>11. QED BY <1>10 DEF all, p

-----------------------------------------------------------------------------
(* Packets are whole.                                                       *)

LEMMA StreamParts ==
  ASSUME LinkInv
  PROVE  /\ Stream \in Seq(Bytes) /\ Len(Stream) \in Nat
         /\ data \o wire \in Seq(Bytes)
         /\ Stream = m_Packet \o (data \o wire)
         /\ Len(Stream) = Len(m_Packet) + Len(data \o wire)
         /\ Len(data \o wire) = Len(data) + Len(wire)
         /\ \A i \in 1..Len(m_Packet) : Stream[i] = m_Packet[i]
         /\ \A i \in 1..Len(data \o wire) : Stream[Len(m_Packet) + i] = (data \o wire)[i]
<1>1. m_Packet \in Seq(Bytes) /\ data \in Seq(Bytes) /\ wire \in Seq(Bytes)
  BY DEF LinkInv, TypeOK, ParserTypeOK
<1> DEFINE held == data \o wire
<1>2. held \in Seq(Bytes) /\ Len(held) = Len(data) + Len(wire)
  BY <1>1, ConcatParts
<1> HIDE DEF held
<1>3. Stream = m_Packet \o held
  <2>0. m_Packet \in Seq(Bytes)
    BY <1>1
  <2>1. \A t, u \in Seq(Bytes) : (m_Packet \o t) \o u = m_Packet \o (t \o u)
    BY <2>0, BytesAssociate
  <2>2. (m_Packet \o data) \o wire = m_Packet \o held
    BY <1>1, <2>1 DEF held
  <2>3. QED BY <2>2 DEF Stream
<1>4. /\ Stream \in Seq(Bytes) /\ Len(Stream) = Len(m_Packet) + Len(held)
      /\ \A i \in 1..Len(m_Packet) : Stream[i] = m_Packet[i]
      /\ \A i \in 1..Len(held) : Stream[Len(m_Packet) + i] = held[i]
  <2>1. /\ m_Packet \o held \in Seq(Bytes)
        /\ Len(m_Packet \o held) = Len(m_Packet) + Len(held)
        /\ \A i \in 1..Len(m_Packet) : (m_Packet \o held)[i] = m_Packet[i]
        /\ \A i \in 1..Len(held) : (m_Packet \o held)[Len(m_Packet) + i] = held[i]
    <3>1. m_Packet \in Seq(Bytes) /\ held \in Seq(Bytes)
      BY <1>1, <1>2
    <3>2. QED BY <3>1, ConcatParts
  <2>2. QED BY <1>3, <2>1
<1>5. Len(Stream) \in Nat
  BY <1>4, LenProperties
<1>6. QED BY <1>2, <1>3, <1>4, <1>5 DEF held

(* What the parser has taken is the front of the stream.                    *)
LEMMA TakenIsFront ==
  ASSUME LinkInv, NEW n \in 0..Len(data)
  PROVE  /\ Len(Taken(n)) = Len(m_Packet) + n /\ Len(Taken(n)) <= Len(Stream)
         /\ \A i \in 1..Len(m_Packet) + n : Taken(n)[i] = Stream[i]
         /\ (Taken(n) \o Rest(n)) \o wire = Stream
<1>1. wire \in Seq(Bytes)
  BY DEF LinkInv, TypeOK
<1>2. /\ Taken(n) \in Seq(Bytes) /\ Len(Taken(n)) = Len(m_Packet) + n
      /\ Rest(n) \in Seq(Bytes)
      /\ Taken(n) \o Rest(n) = m_Packet \o data
  BY TakenProperties
<1>3. (Taken(n) \o Rest(n)) \o wire = Stream
  BY <1>2 DEF Stream
<1> DEFINE t == Taken(n)
           r == Rest(n)
<1> HIDE DEF t, r
<1>4. t \in Seq(Bytes) /\ r \in Seq(Bytes) /\ (t \o r) \o wire = Stream
      /\ Len(t) = Len(m_Packet) + n
  BY <1>2, <1>3 DEF t, r
<1>5. /\ t \o r \in Seq(Bytes) /\ Len(t \o r) = Len(t) + Len(r)
      /\ Len(t) \in Nat /\ Len(r) \in Nat
      /\ \A i \in 1..Len(t) : (t \o r)[i] = t[i]
  BY <1>4, ConcatParts
<1>6. /\ Len(Stream) = Len(t \o r) + Len(wire) /\ Len(wire) \in Nat
      /\ \A i \in 1..Len(t \o r) : Stream[i] = (t \o r)[i]
  BY <1>1, <1>4, <1>5, ConcatParts
<1>7. \A i \in 1..Len(t) : t[i] = Stream[i]
  BY <1>5, <1>6
<1>8. Len(t) <= Len(Stream)
  BY <1>5, <1>6
<1>9. QED BY <1>3, <1>4, <1>7, <1>8 DEF t

(* The front of a chain of packets, as far as the first of them reaches.    *)
LEMMA FrontInOrder ==
  ASSUME NEW s \in Seq(Bytes), NEW from \in Nat, NEW upto \in Nat,
         Packets(s, from, upto), NEW b, NEW n \in 1..Len(s), n <= s[1].len,
         Len(b) = n, \A i \in 1..n : b[i] = s[i]
  PROVE  InOrder(b) /\ b[1] = s[1]
<1>1. Len(s) \in Nat /\ n \in Nat
  BY LenProperties
<1>2. s # <<>>
  BY <1>1, EmptySeq
<1>3. s[1].at = 1 /\ ByteChain(s)
  BY <1>2 DEF Packets
<1>4. \A i \in 1..n : s[i] = [s[1] EXCEPT !.at = i]
  BY <1>3, ChainInOrder
<1>5. b[1] = s[1]
  BY <1>1
<1>6. QED BY <1>4, <1>5 DEF InOrder

LEMMA FirstByte ==
  ASSUME NEW s \in Seq(Bytes), NEW from \in Nat, NEW upto \in Nat,
         Packets(s, from, upto), Len(s) >= 1
  PROVE  /\ s[1] \in Bytes /\ s[1].len \in Nat /\ s[1].pkt = from + 1
         /\ Header <= s[1].len /\ s[1].len <= MaxTotal
<1>1. Len(s) \in Nat /\ s # <<>> /\ 1 \in 1..Len(s)
  BY LenProperties, EmptySeq
<1>2. s[1].len \in Lens /\ s[1].pkt = from + 1
  BY <1>1 DEF Packets, ByteChain
<1>3. s[1].len \in Header..MaxTotal
  BY <1>2, ParserAssumption
<1>4. s[1] \in Bytes
  BY <1>1, ElementOfSeq
<1>5. QED BY <1>2, <1>3, <1>4, ParserAssumption

(* A complete header says how long the packet is.                           *)
LEMMA HeaderTells ==
  ASSUME LinkInv, Whole, m_nStatus = "REQUEST", Header - Len(m_Packet) <= Len(data)
  PROVE  /\ Len(Stream) >= 1
         /\ Declared(Taken(Header - Len(m_Packet))) = {Stream[1].len}
<1> DEFINE n == Header - Len(m_Packet)
           t == Taken(n)
<1>1. n \in 0..Len(data)
  BY Numbers DEF LinkInv, ParserInv
<1> HIDE DEF n
<1>2. Len(m_Packet) + n = Header
  BY Numbers DEF n
<1>3. /\ Len(t) = Header /\ Len(t) <= Len(Stream)
      /\ \A i \in 1..Header : t[i] = Stream[i]
  BY <1>1, <1>2, TakenIsFront
<1>4. t \in Seq(Bytes)
  BY <1>1, TakenProperties
<1> HIDE DEF t
<1>5. Stream \in Seq(Bytes) /\ Len(Stream) \in Nat /\ Len(Stream) >= 1
  BY <1>3, StreamParts, Numbers
<1>6. Len(delivered) \in Nat /\ sent \in Nat /\ Packets(Stream, Len(delivered), sent)
  BY Numbers, LinkAssumption DEF Whole, LinkInv, TypeOK
<1>7. Stream[1].len \in Nat /\ Header <= Stream[1].len
  BY <1>5, <1>6, FirstByte
<1> DEFINE b == SubSeq(t, 1, LenField)
<1>8. LenField \in 1..Header /\ Header \in Nat
  BY ParserAssumption
<1>9. Len(b) = LenField /\ \A i \in 1..LenField : b[i] = t[i]
  BY <1>3, <1>4, <1>8, FrontProperties
<1> HIDE DEF b
<1>10. /\ LenField \in 1..Len(Stream) /\ LenField <= Stream[1].len
       /\ \A i \in 1..LenField : b[i] = Stream[i]
  BY <1>3, <1>5, <1>7, <1>8, <1>9
<1>11. InOrder(b)
  BY <1>5, <1>6, <1>9, <1>10, FrontInOrder
<1>12. t[1] = Stream[1]
  BY <1>3, <1>8
<1>13. Declared(t) = {Stream[1].len}
  BY <1>11, <1>12 DEF Declared, b
<1>14. QED BY <1>5, <1>13 DEF t, n

(* The parser goes on with a packet whose length it knows.                  *)
LEMMA BodyWhole ==
  ASSUME LinkInv, Whole, call = "parsing", Len(Stream) >= 1,
         \/ m_nStatus = "REQUEST" /\ Header - Len(m_Packet) <= Len(data)
         \/ m_nStatus = "BODY" /\ Stream[1].len = m_nTotal,
         Body(Stream[1].len), UNCHANGED <<wire, sent>>
  PROVE  Whole'
<1> DEFINE total == Stream[1].len
           n == Takes(total)
<1>0. Stream \in Seq(Bytes) /\ Len(delivered) \in Nat /\ sent \in Nat
      /\ Packets(Stream, Len(delivered), sent)
  BY StreamParts, Numbers, LinkAssumption DEF Whole, LinkInv, TypeOK
<1>1. total \in Nat /\ Header <= total /\ total <= MaxTotal
  BY <1>0, FirstByte
<1>2. /\ n \in 0..Len(data)
      /\ Header <= Len(m_Packet) + n
      /\ Len(m_Packet) + n <= total
  BY <1>1, BodyTakes
<1>3. /\ m_Packet' = Taken(n) /\ data' = Rest(n) /\ m_nTotal' = total
      /\ delivered' = delivered
      /\ IF Len(m_Packet) + n >= total
         THEN m_nStatus' = "DONE" /\ call' = "complete"
         ELSE m_nStatus' = "BODY" /\ call' = call
  BY DEF Body
<1> HIDE DEF total, n
<1>4. /\ Len(Taken(n)) = Len(m_Packet) + n
      /\ \A i \in 1..Len(m_Packet) + n : Taken(n)[i] = Stream[i]
      /\ (Taken(n) \o Rest(n)) \o wire = Stream
  BY <1>2, TakenIsFront
<1>5. Stream' = Stream
  BY <1>3, <1>4 DEF Stream
<1>6. 1 \in 1..Len(m_Packet) + n
  BY <1>2, Numbers
<1>7. m_Packet'[1] = Stream[1] /\ Len(m_Packet') = Len(m_Packet) + n
  BY <1>3, <1>4, <1>6
<1>8. m_nStatus' = "DONE" => Len(m_Packet') = m_Packet'[1].len
  <2> SUFFICES ASSUME m_nStatus' = "DONE" PROVE Len(m_Packet') = m_Packet'[1].len
    OBVIOUS
  <2>1. Len(m_Packet) + n >= total
    BY <1>3
  <2>2. Len(m_Packet) + n = total
    BY <1>1, <1>2, <2>1, Numbers, SMTT(30)
  <2>3. QED BY <1>7, <2>2 DEF total
<1>9. m_nStatus' = "BODY" => m_nTotal' = m_Packet'[1].len
  BY <1>3, <1>7 DEF total
<1>10. m_nStatus' \in {"DONE", "BODY"} /\ call' # "fail"
       /\ (m_nStatus' = "DONE" <=> call' = "complete")
  BY <1>3
<1>11. Packets(Stream', Len(delivered'), sent')
  BY <1>0, <1>3, <1>5
<1>12. delivered' = [i \in DOMAIN delivered' |-> i]
  BY <1>3 DEF Whole
<1>13. QED BY <1>8, <1>9, <1>10, <1>11, <1>12 DEF Whole

(* A packet that is complete is whole, and the next that is expected.       *)
LEMMA CompleteIsWhole ==
  ASSUME LinkInv, Whole, call = "complete"
  PROVE  /\ WholePacket(m_Packet)
         /\ m_Packet[1].pkt = Len(delivered) + 1
         /\ Stream # <<>> /\ Stream[1].len = Len(m_Packet) /\ Len(m_Packet) <= Len(Stream)
<1> DEFINE n == Len(m_Packet)
<1>0. Stream \in Seq(Bytes) /\ Len(delivered) \in Nat /\ sent \in Nat
      /\ Packets(Stream, Len(delivered), sent) /\ Len(Stream) \in Nat
      /\ n \in Nat
  BY StreamParts, Numbers, LinkAssumption DEF Whole, LinkInv, TypeOK
<1>1. m_nStatus = "DONE" /\ n = m_Packet[1].len /\ n >= 1
  BY Numbers DEF Whole, LinkInv, ParserInv
<1>2. n <= Len(Stream) /\ \A i \in 1..n : Stream[i] = m_Packet[i]
  BY StreamParts, Numbers
<1> HIDE DEF n
<1>3. Stream[1] = m_Packet[1] /\ n \in 1..Len(Stream) /\ n <= Stream[1].len
  BY <1>0, <1>1, <1>2
<1>4. InOrder(m_Packet)
  BY <1>0, <1>2, <1>3, FrontInOrder DEF n
<1>5. WholePacket(m_Packet)
  BY <1>1, <1>4 DEF WholePacket, n
<1>6. Len(Stream) >= 1 /\ Stream # <<>>
  BY <1>0, <1>3, EmptySeq
<1>7. Stream[1].pkt = Len(delivered) + 1
  BY <1>0, <1>6, FirstByte
<1>8. QED BY <1>1, <1>2, <1>3, <1>5, <1>6, <1>7 DEF n

LEMMA CompleteWhole ==
  ASSUME LinkInv, Whole, PacketComplete, UNCHANGED <<wire, sent>>
  PROVE  Whole'
<1>1. /\ WholePacket(m_Packet)
      /\ m_Packet[1].pkt = Len(delivered) + 1
      /\ Stream # <<>> /\ Stream[1].len = Len(m_Packet) /\ Len(m_Packet) <= Len(Stream)
  BY CompleteIsWhole DEF PacketComplete
<1>2. Len(delivered) \in Nat /\ sent \in Nat /\ delivered \in Seq(Nat)
  BY Numbers, LinkAssumption DEF LinkInv, TypeOK, ParserTypeOK
<1>3. /\ Stream \in Seq(Bytes) /\ data \o wire \in Seq(Bytes)
      /\ Len(data \o wire) = Len(Stream) - Len(m_Packet)
      /\ \A i \in 1..Len(data \o wire) : (data \o wire)[i] = Stream[Len(m_Packet) + i]
  <2>1. Len(m_Packet) \in Nat /\ Len(data \o wire) \in Nat
    BY StreamParts, Numbers, LenProperties
  <2>2. QED BY <2>1, StreamParts
<1>4. Packets(Stream, Len(delivered), sent)
  BY DEF Whole
<1> DEFINE rest == data \o wire
<1>5. Packets(rest, Len(delivered) + 1, sent)
  <2> HIDE DEF rest
  <2>1. /\ rest \in Seq(Bytes) /\ Len(rest) = Len(Stream) - Stream[1].len
        /\ \A i \in 1..Len(rest) : rest[i] = Stream[Stream[1].len + i]
    BY <1>1, <1>3 DEF rest
  <2>2. QED BY <1>1, <1>2, <1>3, <1>4, <2>1, WithoutFirst
<1>6. delivered' = Append(delivered, Len(delivered) + 1) /\ m_Packet' = <<>>
      /\ m_nStatus' = "REQUEST" /\ call' = "parsing" /\ data' = data
  BY <1>1 DEF PacketComplete, Reset
<1>7. Stream' = rest
  <2>1. data \in Seq(Bytes)
    BY DEF LinkInv, TypeOK, ParserTypeOK
  <2>2. <<>> \o data = data
    BY <2>1, ConcatEmptySeq
  <2>3. QED BY <1>6, <2>2 DEF Stream
<1>8. delivered' = [i \in DOMAIN delivered' |-> i] /\ Len(delivered') = Len(delivered) + 1
  <2>1. delivered = [i \in DOMAIN delivered |-> i]
    BY DEF Whole
  <2>2. /\ delivered' \in Seq(Nat) /\ Len(delivered') = Len(delivered) + 1
        /\ \A i \in 1..Len(delivered) : delivered'[i] = delivered[i]
        /\ delivered'[Len(delivered) + 1] = Len(delivered) + 1
    BY <1>2, <1>6, AppendProperties
  <2>3. DOMAIN delivered = 1..Len(delivered) /\ DOMAIN delivered' = 1..Len(delivered) + 1
        /\ delivered' \in [1..Len(delivered) + 1 -> Nat]
    BY <1>2, <2>2, LenProperties
  <2>4. \A i \in 1..Len(delivered) : delivered[i] = i
    BY <2>1, <2>3
  <2>5. \A i \in 1..Len(delivered) + 1 : delivered'[i] = i
    <3> SUFFICES ASSUME NEW i \in 1..Len(delivered) + 1 PROVE delivered'[i] = i
      OBVIOUS
    <3>1. i \in 1..Len(delivered) \/ i = Len(delivered) + 1
      BY <1>2
    <3>2. QED BY <2>2, <2>4, <3>1
  <2>6. QED BY <2>2, <2>3, <2>5
<1>9. Packets(Stream', Len(delivered'), sent')
  BY <1>5, <1>7, <1>8
<1>10. QED BY <1>6, <1>8, <1>9 DEF Whole

LEMMA ParseWhole ==
  ASSUME LinkInv, Whole, ParseStep, UNCHANGED <<wire, sent>>
  PROVE  Whole'
<1>0. Stream \in Seq(Bytes) /\ Len(delivered) \in Nat /\ sent \in Nat
      /\ Packets(Stream, Len(delivered), sent) /\ Len(Stream) \in Nat
  BY StreamParts, Numbers, LinkAssumption DEF Whole, LinkInv, TypeOK
<1>1. CASE ReadHeader
  <2>1. Len(data) \in 0..Len(data)
    BY Numbers
  <2>2. (Taken(Len(data)) \o Rest(Len(data))) \o wire = Stream
    BY <2>1, TakenIsFront
  <2>3. Rest(Len(data)) = <<>>
    BY Numbers, SubSeqEmpty DEF Rest
  <2>4. Stream' = Stream
    BY <1>1, <2>2, <2>3 DEF ReadHeader, Stream
  <2>5. m_nStatus' = "REQUEST" /\ call' = call /\ delivered' = delivered /\ m_nStatus = "REQUEST"
    BY <1>1 DEF ReadHeader
  <2>6. QED BY <2>4, <2>5 DEF Whole
<1>2. CASE ReadHeaderRefused
  <2>1. /\ Len(Stream) >= 1
        /\ Declared(Taken(Header - Len(m_Packet))) = {Stream[1].len}
    BY <1>2, HeaderTells DEF ReadHeaderRefused
  <2>2. Stream[1].len <= MaxTotal /\ Stream[1].len \in Nat
    BY <1>0, <2>1, FirstByte
  <2>3. Stream[1].len > MaxTotal
    BY <1>2, <2>1 DEF ReadHeaderRefused
  <2>4. QED BY <2>2, <2>3, Numbers
<1>3. CASE ReadHeaderAndBody
  <2>1. m_nStatus = "REQUEST" /\ Header - Len(m_Packet) <= Len(data) /\ call = "parsing"
    BY <1>3 DEF ReadHeaderAndBody
  <2>2. /\ Len(Stream) >= 1
        /\ Declared(Taken(Header - Len(m_Packet))) = {Stream[1].len}
    BY <2>1, HeaderTells
  <2>3. Body(Stream[1].len)
    BY <1>3, <2>2 DEF ReadHeaderAndBody
  <2>4. QED BY <2>1, <2>2, <2>3, BodyWhole
<1>4. CASE ReadBody
  <2>1. call = "parsing" /\ m_nStatus = "BODY" /\ Body(m_nTotal)
    BY <1>4 DEF ReadBody
  <2>2. Len(m_Packet) >= 1 /\ 1 \in 1..Len(m_Packet)
    BY <2>1, Numbers DEF LinkInv, ParserInv
  <2>3. Stream[1] = m_Packet[1] /\ Len(Stream) >= 1
    BY <2>2, StreamParts, Numbers
  <2>4. Stream[1].len = m_nTotal
    BY <2>1, <2>3 DEF Whole
  <2>5. QED BY <2>1, <2>3, <2>4, BodyWhole
<1>5. CASE PacketRefused
  BY <1>5, CompleteIsWhole DEF PacketRefused
<1>6. CASE ParseEnds
  <2>1. data = <<>> /\ data' = <<>> /\ call = "parsing" /\ call' = "ok"
        /\ UNCHANGED <<m_nStatus, m_Packet, m_nTotal, delivered>>
    BY <1>6 DEF ParseEnds, Whole
  <2>2. Stream' = Stream
    BY <2>1 DEF Stream
  <2>3. QED BY <2>1, <2>2 DEF Whole
<1>7. CASE ParseAfterRefusal
  BY <1>7 DEF ParseAfterRefusal, Whole
<1>8. QED BY <1>1, <1>2, <1>3, <1>4, <1>5, <1>6, <1>7 DEF ParseStep

LEMMA ReceiveWhole ==
  ASSUME LinkInv, Whole, data = <<>>, NEW n \in 1..Lesser(Len(wire), RecvMax),
         data' = SubSeq(wire, 1, n), wire' = Dropped(wire, n), call' = "parsing",
         call # "complete",
         UNCHANGED <<m_nStatus, m_Packet, m_nTotal, delivered, sent>>
  PROVE  Whole'
<1>1. data' \o wire' = wire /\ data' \in Seq(Bytes) /\ wire' \in Seq(Bytes)
  BY ReceivedType
<1>2. wire \in Seq(Bytes) /\ m_Packet \in Seq(Bytes)
  BY DEF LinkInv, TypeOK, ParserTypeOK
<1>3. Stream = m_Packet \o wire
  <2>1. m_Packet \o <<>> = m_Packet
    BY <1>2, ConcatEmptySeq
  <2>2. QED BY <2>1 DEF Stream
<1>4. Stream' = m_Packet \o wire
  <2>1. (m_Packet \o data') \o wire' = m_Packet \o (data' \o wire')
    BY <1>1, <1>2, BytesAssociate, SMTT(30)
  <2>2. QED BY <1>1, <2>1 DEF Stream
<1>5. QED BY <1>3, <1>4 DEF Whole

LEMMA HallSendsWhole ==
  ASSUME LinkInv, Whole, NEW n \in Lens, HallSends(n)
  PROVE  Whole'
<1> DEFINE p == [i \in 1..n |-> [pkt |-> sent + 1, len |-> n, at |-> i]]
<1>1. Len(delivered) \in Nat /\ sent \in Nat /\ sent' = sent + 1
  BY Numbers, LinkAssumption DEF LinkInv, TypeOK, HallSends
<1>2. wire \in Seq(Bytes) /\ m_Packet \in Seq(Bytes) /\ data \in Seq(Bytes) /\ p \in Seq(Bytes)
  <2>1. sent + 1 \in Nat
    BY <1>1
  <2>2. p \in Seq(Bytes)
    BY <2>1, PacketBytes
  <2> HIDE DEF p
  <2>3. QED BY <2>2 DEF LinkInv, TypeOK, ParserTypeOK
<1>3. wire' = wire \o p /\ UNCHANGED parserVars
  BY DEF HallSends
<1>4. Packets(Stream \o p, Len(delivered), sent + 1)
  <2>1. Stream \in Seq(Bytes) /\ Packets(Stream, Len(delivered), sent)
    BY StreamParts DEF Whole
  <2>2. QED BY <1>1, <2>1, WithAnother
<1> HIDE DEF p
<1>5. Stream' = Stream \o p
  <2>1. m_Packet \o data \in Seq(Bytes)
    BY <1>2, ConcatProperties
  <2>2. ((m_Packet \o data) \o wire) \o p = (m_Packet \o data) \o (wire \o p)
    BY <1>2, <2>1, BytesAssociate
  <2>3. QED BY <1>3, <2>2 DEF Stream, parserVars
<1>6. QED BY <1>1, <1>3, <1>4, <1>5 DEF Whole, parserVars

LEMMA ReconnectWhole ==
  ASSUME LinkInv, Reconnect, fresh'.parser
  PROVE  Whole'
<1>1. m_nStatus = "REQUEST" /\ m_Packet = <<>>
  BY DEF Reconnect
<1>2. data = <<>> /\ call = "idle"
  BY DEF Reconnect, LinkInv, RestInv
<1>3. /\ m_nStatus' = "REQUEST" /\ m_Packet' = <<>> /\ data' = <<>> /\ wire' = <<>>
      /\ sent' = 0 /\ delivered' = <<>> /\ call' = "idle"
  BY <1>1, <1>2 DEF Reconnect
<1>4. Stream' = <<>>
  <2>1. <<>> \in Seq(Bytes)
    BY EmptySeq
  <2>2. <<>> \o <<>> = <<>>
    BY <2>1, ConcatEmptySeq
  <2>3. QED BY <1>3, <2>2 DEF Stream
<1>5. Packets(<<>>, 0, 0)
  BY EmptySeq DEF Packets, ByteChain
<1>6. delivered' = [i \in DOMAIN delivered' |-> i] /\ Len(delivered') = 0
  BY <1>3, EmptySeq
<1>7. QED BY <1>3, <1>4, <1>5, <1>6 DEF Whole

(* A step that touches neither the parser nor what it is given.             *)
LEMMA SameWhole ==
  ASSUME Whole, UNCHANGED <<parserVars, wire, sent>>
  PROVE  Whole'
BY DEF Whole, Stream, parserVars

(* A recv that is taken for a policy request leaves what was done as it is.  *)
LEMMA PolicyRequestGiven ==
  ASSUME Given, PolicyRequest
  PROVE  Given' /\ reading' = "policy"
BY DEF Given, PolicyRequest

LEMMA WholeIsGiven == Whole => Given
BY DEF Whole, Given

LEMMA NextWholeInv == LinkInv /\ WholeInv /\ [Next]_vars => WholeInv'
<1> SUFFICES ASSUME LinkInv, WholeInv, [Next]_vars, fresh'.parser, m_bIsConnect'
             PROVE  Whole' \/ (Given' /\ reading' = "policy")
  <2>1. Whole' => Given'
    BY WholeIsGiven, PTL
  <2>2. QED BY <2>1 DEF WholeInv
<1>0. call # "fail" => reading # "policy"
  BY DEF LinkInv, RestInv
<1>1. CASE Reconnect
  BY <1>1, ReconnectWhole
<1>2. CASE Break
  BY <1>0, <1>2, SameWhole DEF Break, WholeInv, Idle
<1>3. CASE Hangup \/ Overfull \/ ReadFails
  BY <1>3 DEF Hangup, Overfull, ReadFails, handle_close
<1>4. CASE HandleRead
  <2>1. Whole /\ data = <<>> /\ call = "idle"
    BY <1>0, <1>4 DEF HandleRead, Recv, PolicyRequest, WholeInv, Idle, LinkInv, RestInv
  <2>2. CASE Recv
    <3>1. PICK n \in 1..Lesser(Len(wire), RecvMax) :
            ParsePacket(SubSeq(wire, 1, n)) /\ wire' = Dropped(wire, n)
      BY <2>2 DEF Recv
    <3>2. data' = SubSeq(wire, 1, n) /\ call' = "parsing"
          /\ UNCHANGED <<m_nStatus, m_Packet, m_nTotal, delivered, sent>>
      BY <2>2, <3>1 DEF Recv, ParsePacket
    <3>3. QED BY <2>1, <3>1, <3>2, ReceiveWhole
  <2>3. CASE PolicyRequest
    BY <2>1, <2>3, WholeIsGiven, PolicyRequestGiven
  <2>4. QED BY <1>4, <2>2, <2>3 DEF HandleRead
<1>5. CASE HandleOutput
  BY <1>0, <1>5, SameWhole DEF HandleOutput, WholeInv, Idle
<1>6. CASE PlayerTimer
  BY <1>0, <1>6, SameWhole DEF PlayerTimer, WholeInv, Idle
<1>7. CASE Parse
  <2>1. call # "fail"
    BY <1>7 DEF Parse, ParseStep, ReadHeader, ReadHeaderRefused, ReadHeaderAndBody, ReadBody,
                PacketRefused, ParseEnds, ParseAfterRefusal
  <2>2. ParseStep /\ UNCHANGED linkVars
    BY <1>7 DEF Parse
  <2>3. Whole
    BY <1>0, <2>1, <2>2 DEF WholeInv, linkVars
  <2>4. QED BY <2>2, <2>3, ParseWhole DEF linkVars
<1>8. CASE Process
  <2>1. call = "complete"
    BY <1>8 DEF Process, PacketComplete
  <2>2. Whole
    BY <1>0, <1>8, <2>1 DEF Process, WholeInv, linkVars
  <2>3. QED BY <1>8, <2>2, CompleteWhole DEF Process, linkVars
<1>9. CASE ReadMore
  <2>1. call = "ok" /\ m_bIsConnect /\ data = <<>>
    BY <1>9 DEF ReadMore, LinkInv, RestInv
  <2>2. Whole
    BY <1>0, <1>9, <2>1 DEF ReadMore, RecvMore, PolicyRequest, WholeInv
  <2>3. CASE RecvMore
    <3>1. PICK n \in 1..Lesser(Len(wire), RecvMax) :
            data' = SubSeq(wire, 1, n) /\ wire' = Dropped(wire, n)
      BY <2>3 DEF RecvMore
    <3>2. call' = "parsing" /\ UNCHANGED <<m_nStatus, m_Packet, m_nTotal, delivered, sent>>
      BY <2>3 DEF RecvMore
    <3>3. QED BY <2>1, <2>2, <3>1, <3>2, ReceiveWhole
  <2>4. CASE PolicyRequest
    BY <2>2, <2>4, WholeIsGiven, PolicyRequestGiven
  <2>5. QED BY <1>9, <2>3, <2>4 DEF ReadMore
<1>10. CASE ReadEnds
  BY <1>0, <1>10 DEF ReadEnds, WholeInv, Whole, Stream
<1>11. CASE \E n \in Lens : HallSends(n)
  BY <1>0, <1>11, HallSendsWhole DEF HallSends, WholeInv, Idle
<1>12. CASE UNCHANGED vars
  <2>1. UNCHANGED <<parserVars, wire, sent, reading, fresh, m_bIsConnect>>
    BY <1>12 DEF vars, linkVars
  <2>2. Given' <=> Given
    BY <2>1 DEF Given, parserVars
  <2>3. QED BY <2>1, <2>2, SameWhole DEF WholeInv
<1>13. QED
  BY <1>1, <1>2, <1>3, <1>4, <1>5, <1>6, <1>7, <1>8, <1>9, <1>10, <1>11, <1>12
  DEF Next, Step

\* On a connection that began with an empty parser the packets of the hall are
\* processed whole, each once and in order, wherever recv cuts the stream and a header
\* falls; the parser never refuses one, and reading fails only when OnParser takes a
\* recv for a policy request (PacketParser.cpp:13, CentHandler.cpp:53).
THEOREM PacketsArriveWhole == Spec => []PacketsWhole
<1>1. Init => WholeInv
  BY DEF Init, WholeInv
<1>2. WholeInv => PacketsWhole
  BY DEF WholeInv, Whole, Given, PacketsWhole
<1>3. QED BY <1>1, <1>2, NextWholeInv, LinkInvariant, PTL DEF Spec
=============================================================================
