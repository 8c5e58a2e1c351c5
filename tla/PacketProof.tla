------------------------------ MODULE PacketProof ------------------------------
(****************************************************************************)
(* Packet: what was written is what is read, and the check code tells an    *)
(* intact packet from an altered one, for every value of the constants.     *)
(****************************************************************************)
EXTENDS Packet, TLAPS, FiniteSetTheorems, WellFoundedInduction

(* The body before it was encrypted, and after it has been decrypted.       *)
Plain == IF m_isCheckCode THEN Mapped(MapRecv, m_strBuf) ELSE m_strBuf

(* The body lies encrypted in the packet from the first sending on, with    *)
(* the check code that belongs to it; a receiver has a packet only when it  *)
(* was let through, and then the body is the sender's.                      *)
Sealed ==
  /\ phase \in {"writing", "ended"} => ~m_isCheckCode
  /\ phase \in {"sent", "reading"} => m_isCheckCode
  /\ m_isCheckCode => Passes([body |-> m_strBuf, code |-> cbCheckCode])
  /\ phase = "sent" => altered
  /\ phase = "reading" => ~altered /\ packet.body = Plain
  /\ phase # "reading" => packet = NoPacket

(* The fields that are whole in the body: those before the first that did   *)
(* not fit.                                                                 *)
WholeFields == IF refused = 0 THEN Len(fields) ELSE refused - 1

Width(f) ==
  CASE f.kind = "short"  -> 1
    [] f.kind = "int"    -> 2
    [] f.kind = "string" -> Len(f.val) + 3

(* Field f lies in the body after its first a bytes.                        *)
Holds(body, a, f) ==
  /\ a + Width(f) <= Len(body)
  /\ f.kind = "short" => body[a + 1] = f.val
  /\ f.kind = "int" => body[a + 1] = f.val \div Base /\ body[a + 2] = f.val % Base
  /\ f.kind = "string" =>
       /\ body[a + 1] = (Len(f.val) + 1) \div Base
       /\ body[a + 2] = (Len(f.val) + 1) % Base
       /\ \A j \in 1..Len(f.val) : body[a + 2 + j] = f.val[j]
       /\ body[a + 2 + Len(f.val) + 1] = 0

(* The first n fields lie one after the other, field i after at[i] bytes.   *)
Chain(at, body, fs, n) ==
  \A i \in 1..n : Holds(body, at[i], fs[i]) /\ at[i + 1] = at[i] + Width(fs[i])

(* So do the whole fields, and the receiver stands where the next begins.   *)
LaidOut(at) ==
  /\ at[1] = 0
  /\ Chain(at, Plain, fields, WholeFields)
  /\ refused = 0 => at[Len(fields) + 1] = Len(m_strBuf)
  /\ Len(packet.got) <= WholeFields => packet.pos = at[Len(packet.got) + 1]
  /\ \A i \in 1..Len(packet.got) : i <= WholeFields => packet.got[i] = fields[i]

Layout == \E at \in [Nat -> Nat] : LaidOut(at)

IInv == TypeOK /\ Sealed /\ Layout

--------------------------------------------------------------------------------
(* Sums of bytes.                                                           *)

LEMMA BaseBig == Base \in Nat /\ Base >= 2
BY PacketAssumption

(* A sum of two bytes runs over once at most.                               *)
LEMMA ByteSum ==
  ASSUME NEW a \in Byte, NEW b \in Byte
  PROVE  (a + b) % Base = IF a + b < Base THEN a + b ELSE a + b - Base
<1> USE BaseBig
<1>0. a \in Nat /\ b \in Nat /\ a < Base /\ b < Base
  BY DEF Byte
<1>1. PICK q, r : q = (a + b) \div Base /\ r = (a + b) % Base
  OBVIOUS
<1>2. q \in Int /\ r \in Int /\ 0 <= r /\ r < Base /\ a + b = Base * q + r
  BY <1>0, <1>1
<1>3. q = 0 \/ q = 1
  <2>1. q <= -1 => Base * q <= -Base
    BY <1>2
  <2>2. q >= 2 => Base * q >= Base + Base
    BY <1>2
  <2>3. QED BY <1>0, <1>2, <2>1, <2>2
<1>4. CASE q = 0
  BY <1>0, <1>1, <1>2, <1>4
<1>5. CASE q = 1
  BY <1>0, <1>1, <1>2, <1>5
<1>6. QED BY <1>3, <1>4, <1>5

LEMMA ByteSumIsByte ==
  ASSUME NEW a \in Byte, NEW b \in Byte PROVE (a + b) % Base \in Byte
BY BaseBig, ByteSum DEF Byte

(* Adding different bytes to the same, or the same to different ones, makes *)
(* different sums.                                                          *)
LEMMA ByteSumsDiffer ==
  ASSUME NEW a \in Byte, NEW b \in Byte, NEW c \in Byte, NEW d \in Byte,
         (a = c /\ b # d) \/ (a # c /\ b = d)
  PROVE  (a + b) % Base # (c + d) % Base
<1>1. PICK p : p = (a + b) % Base
  OBVIOUS
<1>2. PICK q : q = (c + d) % Base
  OBVIOUS
<1>3. p = (IF a + b < Base THEN a + b ELSE a + b - Base)
  BY <1>1, ByteSum
<1>4. q = (IF c + d < Base THEN c + d ELSE c + d - Base)
  BY <1>2, ByteSum
<1>5. p # q
  BY <1>3, <1>4, BaseBig DEF Byte
<1>6. QED BY <1>1, <1>2, <1>5

(* The code that makes a sum zero, and that there is only one.              *)
LEMMA CodeOfSum ==
  ASSUME NEW s \in Byte
  PROVE  (Base - s) % Base \in Byte /\ (((Base - s) % Base) + s) % Base = 0
<1> USE BaseBig
<1>1. CASE s = 0
  <2>1. (Base - s) % Base = 0
    BY <1>1
  <2>2. QED BY <1>1, <2>1, ByteSum DEF Byte
<1>2. CASE s # 0
  <2>1. Base - s \in 0..Base - 1
    BY <1>2 DEF Byte
  <2>2. (Base - s) % Base = Base - s
    BY <2>1
  <2>3. PICK c \in Byte : c = Base - s
    BY <2>1 DEF Byte
  <2>4. c + s = Base
    BY <2>3 DEF Byte
  <2>5. (c + s) % Base = c + s - Base
    BY <2>4, ByteSum
  <2>6. (c + s) % Base = 0
    BY <2>4, <2>5
  <2>7. QED BY <2>2, <2>3, <2>6
<1>3. QED BY <1>1, <1>2

(* Induction on the numbers up to a length.                                 *)
LEMMA Induction ==
  ASSUME NEW S \in SUBSET Nat, 0 \in S, \A n \in S : n + 1 \in S
  PROVE  S = Nat
<1> DEFINE R == OpToRel(<, Nat)
<1> SUFFICES ASSUME Nat \ S # {} PROVE FALSE
  OBVIOUS
<1>1. \A i, j \in Nat : i < j => <<i, j>> \in R
  BY DEF OpToRel
<1>2. IsWellFoundedOn(R, Nat)
  BY NatLessThanWellFounded
<1> HIDE DEF R
<1>3. PICK x \in Nat \ S : \A y \in Nat \ S : ~ (<<y, x>> \in R)
  BY <1>2, WFMin
<1>4. x - 1 \in Nat /\ x - 1 < x
  <2>1. x # 0
    OBVIOUS
  <2>2. QED BY <1>3, <2>1
<1>5. x - 1 \in S
  BY <1>1, <1>3, <1>4
<1>6. QED BY <1>3, <1>4, <1>5

(* The sums of the first bytes, up to the first m.                          *)
IsSums(f, bytes, m) ==
  f = [n \in 0..m |-> IF n = 0 THEN 0 ELSE (f[n - 1] + bytes[n]) % Base]

LEMMA SumsExist ==
  ASSUME NEW bytes, NEW len \in Nat
  PROVE  \E f : IsSums(f, bytes, len)
<1> DEFINE S == {m \in Nat : \E f : IsSums(f, bytes, m)}
<1>1. 0 \in S
  <2>1. [n \in 0..0 |-> 0]
          = [n \in 0..0 |-> IF n = 0 THEN 0 ELSE ([j \in 0..0 |-> 0][n - 1] + bytes[n]) % Base]
    OBVIOUS
  <2>2. IsSums([n \in 0..0 |-> 0], bytes, 0)
    BY <2>1 DEF IsSums
  <2>3. QED BY <2>2
<1>2. ASSUME NEW m \in S PROVE m + 1 \in S
  <2>0. PICK f : IsSums(f, bytes, m)
    BY <1>2
  <2>1. f = [n \in 0..m |-> IF n = 0 THEN 0 ELSE (f[n - 1] + bytes[n]) % Base]
    BY <2>0 DEF IsSums
  <2> DEFINE g == [n \in 0..m + 1 |-> IF n <= m THEN f[n] ELSE (f[m] + bytes[m + 1]) % Base]
             D(n) == IF n = 0 THEN 0 ELSE (g[n - 1] + bytes[n]) % Base
  <2>2. ASSUME NEW n \in 0..m + 1 PROVE g[n] = D(n)
    <3>1. CASE n = m + 1
      BY <3>1, <1>2
    <3>2. CASE n \in 0..m
      <4>1. g[n] = f[n]
        BY <3>2
      <4>2. f[n] = IF n = 0 THEN 0 ELSE (f[n - 1] + bytes[n]) % Base
        BY <2>1, <3>2
      <4>3. n # 0 => g[n - 1] = f[n - 1]
        BY <3>2, <1>2
      <4>4. QED BY <4>1, <4>2, <4>3
    <3>3. QED BY <3>1, <3>2, <1>2
  <2>3. g = [n \in 0..m + 1 |-> D(n)]
    BY <2>2
  <2>4. IsSums(g, bytes, m + 1)
    BY <2>3 DEF IsSums
  <2>5. m + 1 \in Nat
    BY <1>2
  <2>6. QED BY <2>4, <2>5
<1>3. S = Nat
  <2> HIDE DEF S
  <2>1. S \in SUBSET Nat
    BY DEF S
  <2>2. QED BY <1>1, <1>2, <2>1, Induction
<1>4. QED BY <1>3

(* The sum of a string of bytes, byte by byte.                              *)
LEMMA SumByteByByte ==
  ASSUME NEW bytes \in Seq(Byte)
  PROVE  \E f \in [0..Len(bytes) -> Byte] :
           /\ f[0] = 0
           /\ \A n \in 1..Len(bytes) : f[n] = (f[n - 1] + bytes[n]) % Base
           /\ Sum(bytes) = f[Len(bytes)]
<1> DEFINE len == Len(bytes)
           first == CHOOSE f :
             f = [n \in 0..len |-> IF n = 0 THEN 0 ELSE (f[n - 1] + bytes[n]) % Base]
<1>0. len \in Nat /\ \A n \in 1..len : bytes[n] \in Byte
  OBVIOUS
<1>1. Sum(bytes) = first[len]
  BY DEF Sum
<1> HIDE DEF len
<1>2. first = [n \in 0..len |-> IF n = 0 THEN 0 ELSE (first[n - 1] + bytes[n]) % Base]
  <2>0. PICK f : IsSums(f, bytes, len)
    BY <1>0, SumsExist
  <2>1. \E g : g = [n \in 0..len |-> IF n = 0 THEN 0 ELSE (g[n - 1] + bytes[n]) % Base]
    BY <2>0 DEF IsSums
  <2>2. QED BY <2>1, Zenon
<1> HIDE DEF first
<1>3. first[0] = 0 /\ DOMAIN first = 0..len
  BY <1>0, <1>2
<1>4. ASSUME NEW n \in 1..len PROVE first[n] = (first[n - 1] + bytes[n]) % Base
  <2>1. n \in 0..len /\ n # 0
    BY <1>0
  <2>2. first[n] = IF n = 0 THEN 0 ELSE (first[n - 1] + bytes[n]) % Base
    BY <1>2, <2>1
  <2>3. QED BY <2>1, <2>2
<1> DEFINE S == {n \in Nat : n <= len => first[n] \in Byte}
<1>5. 0 \in S
  BY <1>3, BaseBig DEF Byte
<1>6. ASSUME NEW n \in S PROVE n + 1 \in S
  <2> SUFFICES ASSUME n + 1 <= len PROVE first[n + 1] \in Byte
    BY <1>6
  <2>1. n + 1 \in 1..len /\ (n + 1) - 1 = n
    BY <1>0
  <2>2. first[n + 1] = (first[n] + bytes[n + 1]) % Base
    BY <1>4, <2>1
  <2>3. first[n] \in Byte /\ bytes[n + 1] \in Byte
    BY <1>0, <1>6, <2>1
  <2>4. QED BY <2>2, <2>3, ByteSumIsByte
<1>7. S = Nat
  <2> HIDE DEF S
  <2>1. S \in SUBSET Nat
    BY DEF S
  <2>2. QED BY <1>5, <1>6, <2>1, Induction
<1>8. \A n \in 0..len : first[n] \in Byte
  BY <1>0, <1>7
<1>9. first \in [0..len -> Byte]
  BY <1>2, <1>8
<1>10. QED BY <1>1, <1>3, <1>4, <1>9 DEF len

LEMMA SumIsByte ==
  ASSUME NEW bytes \in Seq(Byte) PROVE Sum(bytes) \in Byte
BY SumByteByByte

(* One byte that differs makes another sum.                                 *)
LEMMA SumsDiffer ==
  ASSUME NEW s \in Seq(Byte), NEW t \in Seq(Byte), Len(s) = Len(t),
         NEW i \in 1..Len(s), s[i] # t[i], \A j \in 1..Len(s) \ {i} : s[j] = t[j]
  PROVE  Sum(s) # Sum(t)
<1> DEFINE len == Len(s)
<1>1. PICK f \in [0..len -> Byte] :
        /\ f[0] = 0 /\ \A n \in 1..len : f[n] = (f[n - 1] + s[n]) % Base
        /\ Sum(s) = f[len]
  BY SumByteByByte
<1>2. PICK g \in [0..len -> Byte] :
        /\ g[0] = 0 /\ \A n \in 1..len : g[n] = (g[n - 1] + t[n]) % Base
        /\ Sum(t) = g[len]
  BY SumByteByByte
<1>3. len \in Nat /\ i \in 1..len /\ \A n \in 1..len : s[n] \in Byte /\ t[n] \in Byte
  OBVIOUS
<1>4. \A n \in 1..len : n # i => s[n] = t[n]
  OBVIOUS
<1> HIDE DEF len
<1> DEFINE S == {n \in Nat : n <= len => ((n < i /\ f[n] = g[n]) \/ (n >= i /\ f[n] # g[n]))}
<1>5. 0 \in S
  <2>1. f[0] = g[0] /\ 0 < i
    BY <1>1, <1>2
  <2>2. QED BY <2>1
<1>6. ASSUME NEW n \in S PROVE n + 1 \in S
  <2> SUFFICES ASSUME n + 1 <= len
               PROVE  \/ n + 1 < i /\ f[n + 1] = g[n + 1]
                      \/ n + 1 >= i /\ f[n + 1] # g[n + 1]
    BY <1>6
  <2>1. n + 1 \in 1..len /\ n \in 0..len /\ (n + 1) - 1 = n
    BY <1>3
  <2>2. f[n + 1] = (f[n] + s[n + 1]) % Base /\ g[n + 1] = (g[n] + t[n + 1]) % Base
    BY <1>1, <1>2, <2>1
  <2>3. f[n] \in Byte /\ g[n] \in Byte /\ s[n + 1] \in Byte /\ t[n + 1] \in Byte
    BY <1>3, <2>1
  <2>4. (n < i /\ f[n] = g[n]) \/ (n >= i /\ f[n] # g[n])
    BY <1>6, <2>1
  <2>5. CASE n + 1 < i
    BY <1>3, <1>4, <2>1, <2>2, <2>4, <2>5
  <2>6. CASE n + 1 = i
    <3>1. f[n] = g[n] /\ s[n + 1] # t[n + 1]
      BY <1>3, <2>4, <2>6
    <3>2. QED BY <2>2, <2>3, <2>6, <3>1, <1>3, ByteSumsDiffer, SMTT(30)
  <2>7. CASE n + 1 > i
    <3>1. f[n] # g[n] /\ s[n + 1] = t[n + 1]
      BY <1>3, <1>4, <2>1, <2>4, <2>7
    <3>2. QED BY <2>2, <2>3, <2>7, <3>1, <1>3, ByteSumsDiffer, SMTT(30)
  <2>8. QED BY <1>3, <2>5, <2>6, <2>7
<1>7. S = Nat
  <2> HIDE DEF S
  <2>1. S \in SUBSET Nat
    BY DEF S
  <2>2. QED BY <1>5, <1>6, <2>1, Induction
<1>8. f[len] # g[len]
  <2>1. len \in S
    BY <1>3, <1>7
  <2>2. QED BY <1>3, <2>1
<1>9. QED BY <1>1, <1>2, <1>8

--------------------------------------------------------------------------------
(* Encryption.                                                              *)

LEMMA MapsAre ==
  /\ MapSend \in [Byte -> Byte] /\ MapRecv \in [Byte -> Byte]
  /\ \A b \in Byte : MapRecv[MapSend[b]] = b
BY PacketAssumption

(* Different coded bytes are different bytes: MapRecv reaches every byte,   *)
(* and there are as many of the one as of the other.                        *)
LEMMA RecvTells ==
  ASSUME NEW b \in Byte, NEW c \in Byte, b # c PROVE MapRecv[b] # MapRecv[c]
<1>1. MapRecv \in Surjection(Byte, Byte)
  BY MapsAre DEF Surjection
<1>2. IsFiniteSet(Byte)
  <2>1. 0 \in Int /\ Base - 1 \in Int
    BY BaseBig
  <2>2. QED BY <2>1, FS_Interval DEF Byte
<1>3. MapRecv \in Injection(Byte, Byte)
  BY <1>1, <1>2, FS_SurjSameCardinalityImpliesInj
<1>4. QED BY <1>3, MapsAre DEF Injection, IsInjective

LEMMA MappedBytes ==
  ASSUME NEW map \in [Byte -> Byte], NEW bytes \in Seq(Byte)
  PROVE  /\ Mapped(map, bytes) \in Seq(Byte)
         /\ Len(Mapped(map, bytes)) = Len(bytes)
         /\ \A i \in 1..Len(bytes) : Mapped(map, bytes)[i] = map[bytes[i]]
<1> DEFINE len == Len(bytes)
<1>1. len \in Nat /\ \A i \in 1..len : bytes[i] \in Byte
  OBVIOUS
<1>2. Mapped(map, bytes) = [i \in 1..len |-> map[bytes[i]]]
  BY DEF Mapped
<1> HIDE DEF len
<1>3. [i \in 1..len |-> map[bytes[i]]] \in [1..len -> Byte]
  BY <1>1
<1>4. [i \in 1..len |-> map[bytes[i]]] \in Seq(Byte)
  BY <1>1, <1>3
<1>5. Len([i \in 1..len |-> map[bytes[i]]]) = len
  BY <1>1, <1>4
<1>6. QED BY <1>2, <1>4, <1>5 DEF len

LEMMA MapsBack ==
  ASSUME NEW bytes \in Seq(Byte)
  PROVE  Mapped(MapRecv, Mapped(MapSend, bytes)) = bytes
<1> DEFINE coded == Mapped(MapSend, bytes)
           back == Mapped(MapRecv, coded)
<1>1. coded \in Seq(Byte) /\ Len(coded) = Len(bytes)
      /\ \A i \in 1..Len(bytes) : coded[i] = MapSend[bytes[i]]
  BY MapsAre, MappedBytes
<1> HIDE DEF coded
<1>2. back \in Seq(Byte) /\ Len(back) = Len(coded)
      /\ \A i \in 1..Len(coded) : back[i] = MapRecv[coded[i]]
  BY <1>1, MapsAre, MappedBytes
<1> HIDE DEF back
<1>3. \A i \in 1..Len(bytes) : bytes[i] \in Byte
  OBVIOUS
<1>4. \A i \in 1..Len(bytes) : back[i] = bytes[i]
  BY <1>1, <1>2, <1>3, MapsAre
<1>5. back = bytes
  BY <1>1, <1>2, <1>4
<1>6. QED BY <1>5 DEF back, coded

LEMMA PlainBytes ==
  ASSUME TypeOK PROVE Plain \in Seq(Byte) /\ Len(Plain) = Len(m_strBuf)
BY MapsAre, MappedBytes DEF TypeOK, Plain

(* What EncryptBuffer leaves in the packet passes the receiver's test and   *)
(* is decrypted to the plain body, the first time and every other.          *)
LEMMA EncryptedPasses ==
  ASSUME TypeOK, Sealed
  PROVE  /\ EncryptBuffer.body \in Seq(Byte) /\ Len(EncryptBuffer.body) = Len(m_strBuf)
         /\ EncryptBuffer.code \in Byte
         /\ Passes(EncryptBuffer)
         /\ Mapped(MapRecv, EncryptBuffer.body) = Plain
<1>1. CASE m_isCheckCode
  <2>1. EncryptBuffer = [body |-> m_strBuf, code |-> cbCheckCode]
    BY <1>1 DEF EncryptBuffer
  <2>2. Passes([body |-> m_strBuf, code |-> cbCheckCode])
    BY <1>1 DEF Sealed
  <2>3. QED BY <1>1, <2>1, <2>2 DEF TypeOK, Plain
<1>2. CASE ~m_isCheckCode
  <2> DEFINE coded == Mapped(MapSend, m_strBuf)
             code == (Base - Sum(m_strBuf)) % Base
  <2>1. EncryptBuffer.body = coded /\ EncryptBuffer.code = code
    BY <1>2 DEF EncryptBuffer
  <2>2. m_strBuf \in Seq(Byte)
    BY DEF TypeOK
  <2>3. coded \in Seq(Byte) /\ Len(coded) = Len(m_strBuf)
    BY <2>2, MapsAre, MappedBytes
  <2>4. Mapped(MapRecv, coded) = m_strBuf
    BY <2>2, MapsBack
  <2>5. Sum(m_strBuf) \in Byte
    BY <2>2, SumIsByte
  <2>6. code \in Byte /\ (code + Sum(m_strBuf)) % Base = 0
    BY <2>5, CodeOfSum
  <2> HIDE DEF coded, code
  <2>7. DecryptBuffer(EncryptBuffer) = m_strBuf
    BY <2>1, <2>4 DEF DecryptBuffer
  <2>8. Passes(EncryptBuffer)
    BY <2>1, <2>6, <2>7 DEF Passes
  <2>9. QED BY <1>2, <2>1, <2>3, <2>4, <2>6, <2>8 DEF Plain
<1>3. QED BY <1>1, <1>2

(* A packet that passes does so no longer when its check code or one byte   *)
(* of its body changes.                                                     *)
LEMMA AlteredCodeFails ==
  ASSUME NEW body \in Seq(Byte), NEW c \in Byte, NEW d \in Byte, c # d,
         Passes([body |-> body, code |-> c])
  PROVE  ~Passes([body |-> body, code |-> d])
<1> DEFINE sum == Sum(Mapped(MapRecv, body))
<1>1. sum \in Byte
  BY MapsAre, MappedBytes, SumIsByte
<1>2. (c + sum) % Base = 0
  BY DEF Passes, DecryptBuffer
<1>3. Passes([body |-> body, code |-> d]) => (d + sum) % Base = 0
  BY DEF Passes, DecryptBuffer
<1> HIDE DEF sum
<1>4. (c + sum) % Base # (d + sum) % Base
  BY <1>1, ByteSumsDiffer
<1>5. QED BY <1>2, <1>3, <1>4

LEMMA AlteredBodyFails ==
  ASSUME NEW body \in Seq(Byte), NEW c \in Byte, NEW i \in 1..Len(body), NEW b \in Byte,
         b # body[i], Passes([body |-> body, code |-> c])
  PROVE  ~Passes([body |-> [body EXCEPT ![i] = b], code |-> c])
<1> DEFINE other == [body EXCEPT ![i] = b]
           p == Mapped(MapRecv, body)
           q == Mapped(MapRecv, other)
<1>1. other \in Seq(Byte) /\ Len(other) = Len(body) /\ other[i] = b
      /\ \A j \in 1..Len(body) : j # i => other[j] = body[j]
  OBVIOUS
<1>2. p \in Seq(Byte) /\ Len(p) = Len(body) /\ \A j \in 1..Len(body) : p[j] = MapRecv[body[j]]
  BY MapsAre, MappedBytes
<1> HIDE DEF other
<1>3. q \in Seq(Byte) /\ Len(q) = Len(other)
      /\ \A j \in 1..Len(other) : q[j] = MapRecv[other[j]]
  BY <1>1, MapsAre, MappedBytes
<1>4. (c + Sum(p)) % Base = 0
  BY DEF Passes, DecryptBuffer
<1>5. Passes([body |-> other, code |-> c]) => (c + Sum(q)) % Base = 0
  BY DEF Passes, DecryptBuffer
<1> HIDE DEF p, q
<1>6. p[i] # q[i]
  <2>1. body[i] \in Byte
    OBVIOUS
  <2>2. QED BY <1>1, <1>2, <1>3, <2>1, RecvTells
<1>7. \A j \in 1..Len(p) \ {i} : p[j] = q[j]
  BY <1>1, <1>2, <1>3
<1>8. Sum(p) # Sum(q)
  <2>1. Len(p) = Len(q) /\ i \in 1..Len(p)
    BY <1>1, <1>2, <1>3
  <2>2. QED BY <1>2, <1>3, <1>6, <1>7, <2>1, SumsDiffer
<1>9. Sum(p) \in Byte /\ Sum(q) \in Byte
  BY <1>2, <1>3, SumIsByte
<1>10. (c + Sum(p)) % Base # (c + Sum(q)) % Base
  BY <1>8, <1>9, ByteSumsDiffer
<1>11. QED BY <1>4, <1>5, <1>10 DEF other

--------------------------------------------------------------------------------
(* Writing.                                                                 *)

(* A number of two bytes is its high byte and its low byte.                 *)
LEMMA TwoBytes ==
  ASSUME NEW n \in 0..Base * Base - 1
  PROVE  /\ n \div Base \in Byte /\ n % Base \in Byte
         /\ (n \div Base) * Base + (n % Base) = n
<1> USE BaseBig
<1>1. PICK q, r : q = n \div Base /\ r = n % Base
  OBVIOUS
<1>2. q \in Int /\ r \in Int /\ 0 <= r /\ r < Base /\ n = Base * q + r
  BY <1>1
<1>3. 0 <= q
  <2>1. q <= -1 => Base * q <= -Base
    BY <1>2
  <2>2. QED BY <1>2, <2>1
<1>4. q < Base
  <2>1. q >= Base => Base * q >= Base * Base
    BY <1>2
  <2>2. QED BY <1>2, <2>1
<1>5. q * Base = Base * q
  BY <1>2
<1>6. q \in Byte /\ r \in Byte /\ q * Base + r = n
  BY <1>2, <1>3, <1>4, <1>5 DEF Byte
<1>7. QED BY <1>1, <1>6

LEMMA IntBytesAre ==
  ASSUME NEW n \in 0..Base * Base - 1
  PROVE  /\ IntBytes(n) \in Seq(Byte) /\ Len(IntBytes(n)) = 2
         /\ IntBytes(n)[1] = n \div Base /\ IntBytes(n)[2] = n % Base
BY TwoBytes DEF IntBytes

LEMMA KindsOfFields ==
  ASSUME NEW f \in Fields
  PROVE  \/ f.kind = "short" /\ f.val \in Byte
         \/ f.kind = "int" /\ f.val \in 0..Base * Base - 1
         \/ /\ f.kind = "string" /\ f.val \in Seq(Byte) /\ Len(f.val) \in Nat
            /\ \A i \in 1..Len(f.val) : f.val[i] # 0
            /\ Len(f.val) + 1 < Base * Base - 1
<1>1. CASE f \in [kind : {"short"}, val : Shorts]
  BY <1>1, PacketAssumption
<1>2. CASE f \in [kind : {"int"}, val : Ints]
  BY <1>2, PacketAssumption
<1>3. CASE f \in [kind : {"string"}, val : Strings]
  <2>1. f.kind = "string" /\ f.val \in Strings
    BY <1>3
  <2>2. f.val \in Seq(Byte \ {0}) /\ Len(f.val) + 1 < Base * Base - 1
    BY <2>1, PacketAssumption
  <2>3. f.val \in Seq(Byte) /\ Len(f.val) \in Nat /\ \A i \in 1..Len(f.val) : f.val[i] # 0
    BY <2>2
  <2>4. QED BY <2>1, <2>2, <2>3
<1>4. QED BY <1>1, <1>2, <1>3 DEF Fields

(* What was in a body before is there still.                                *)
Extends(body, buf) ==
  Len(buf) <= Len(body) /\ \A i \in 1..Len(buf) : body[i] = buf[i]

LEMMA WrittenBlock ==
  ASSUME NEW buf \in Seq(Byte), NEW block \in Seq(Byte), Len(buf) <= Room
  PROVE  /\ Written(buf, block) \in Seq(Byte) /\ Len(Written(buf, block)) <= Room
         /\ Extends(Written(buf, block), buf)
         /\ Fits(buf, block) =>
              /\ Len(Written(buf, block)) = Len(buf) + Len(block)
              /\ \A i \in 1..Len(block) : Written(buf, block)[Len(buf) + i] = block[i]
<1>0. Room \in Nat /\ Len(buf) \in Nat /\ Len(block) \in Nat
  BY PacketAssumption
<1>1. CASE Len(buf) + Len(block) > Room
  <2>1. Written(buf, block) = buf /\ ~Fits(buf, block)
    BY <1>0, <1>1 DEF Written, Fits
  <2>2. QED BY <1>0, <2>1 DEF Extends
<1>2. CASE ~(Len(buf) + Len(block) > Room)
  <2> DEFINE new == buf \o block
  <2>1. Written(buf, block) = new
    BY <1>2 DEF Written
  <2>2. new \in Seq(Byte) /\ Len(new) = Len(buf) + Len(block)
        /\ \A i \in 1..Len(buf) : new[i] = buf[i]
    OBVIOUS
  <2>3. \A i \in 1..Len(block) : new[Len(buf) + i] = block[i]
    OBVIOUS
  <2> HIDE DEF new
  <2>4. QED BY <1>0, <1>2, <2>1, <2>2, <2>3 DEF Extends
<1>3. QED BY <1>1, <1>2

LEMMA ExtendsTwice ==
  ASSUME NEW a \in Seq(Byte), NEW b \in Seq(Byte), NEW c \in Seq(Byte),
         Extends(b, a), Extends(c, b)
  PROVE  Extends(c, a)
<1>1. Len(a) \in Nat /\ Len(b) \in Nat /\ Len(c) \in Nat
  OBVIOUS
<1>2. QED BY <1>1 DEF Extends

(* A field in one block.                                                    *)
LEMMA OneBlock ==
  ASSUME NEW block PROVE /\ \A buf : AfterBlocks(buf, <<block>>) = Written(buf, block)
                         /\ Size(<<block>>) = Len(block)
BY DEF AfterBlocks, Size

(* A string, in three: its result, and what it is when all of it fits.      *)
InThree(new, buf, x, y, z) ==
  /\ new \in Seq(Byte) /\ Len(new) <= Room /\ Extends(new, buf)
  /\ Size(<<x, y, z>>) = Len(x) + Len(y) + Len(z)
  /\ Len(buf) + Size(<<x, y, z>>) <= Room =>
       /\ Len(new) = Len(buf) + Len(x) + Len(y) + Len(z)
       /\ \A i \in 1..Len(x) : new[Len(buf) + i] = x[i]
       /\ \A i \in 1..Len(y) : new[Len(buf) + Len(x) + i] = y[i]
       /\ \A i \in 1..Len(z) : new[Len(buf) + Len(x) + Len(y) + i] = z[i]

LEMMA ThreeBlocks ==
  ASSUME NEW buf \in Seq(Byte), Len(buf) <= Room,
         NEW x \in Seq(Byte), NEW y \in Seq(Byte), NEW z \in Seq(Byte)
  PROVE  InThree(AfterBlocks(buf, <<x, y, z>>), buf, x, y, z)
<1> DEFINE new == AfterBlocks(buf, <<x, y, z>>)
           a == Written(buf, x)
           b == Written(a, y)
           c == Written(b, z)
<1>0. Room \in Nat /\ Len(buf) \in Nat /\ Len(x) \in Nat /\ Len(y) \in Nat /\ Len(z) \in Nat
  BY PacketAssumption
<1>1. new = IF Fits(a, y) THEN c ELSE b
  BY DEF AfterBlocks
<1>2. Size(<<x, y, z>>) = Len(x) + Len(y) + Len(z)
  BY DEF Size
<1>3. /\ a \in Seq(Byte) /\ Len(a) <= Room /\ Extends(a, buf)
      /\ Fits(buf, x) => /\ Len(a) = Len(buf) + Len(x)
                         /\ \A i \in 1..Len(x) : a[Len(buf) + i] = x[i]
  BY WrittenBlock
<1> HIDE DEF a
<1>4. /\ b \in Seq(Byte) /\ Len(b) <= Room /\ Extends(b, a)
      /\ Fits(a, y) => /\ Len(b) = Len(a) + Len(y)
                       /\ \A i \in 1..Len(y) : b[Len(a) + i] = y[i]
  BY <1>3, WrittenBlock
<1> HIDE DEF b
<1>5. /\ c \in Seq(Byte) /\ Len(c) <= Room /\ Extends(c, b)
      /\ Fits(b, z) => /\ Len(c) = Len(b) + Len(z)
                       /\ \A i \in 1..Len(z) : c[Len(b) + i] = z[i]
  BY <1>4, WrittenBlock
<1> HIDE DEF c, new
<1>6. Extends(b, buf) /\ Extends(c, a) /\ Extends(c, buf)
  BY <1>3, <1>4, <1>5, ExtendsTwice
<1>7. new \in Seq(Byte) /\ Len(new) <= Room /\ Extends(new, buf)
  BY <1>1, <1>4, <1>5, <1>6
<1>8. ASSUME Len(buf) + Size(<<x, y, z>>) <= Room
      PROVE  /\ Len(new) = Len(buf) + Len(x) + Len(y) + Len(z)
             /\ \A i \in 1..Len(x) : new[Len(buf) + i] = x[i]
             /\ \A i \in 1..Len(y) : new[Len(buf) + Len(x) + i] = y[i]
             /\ \A i \in 1..Len(z) : new[Len(buf) + Len(x) + Len(y) + i] = z[i]
  <2>1. Len(a) = Len(buf) + Len(x)
    BY <1>0, <1>2, <1>3, <1>8 DEF Fits
  <2>2. Fits(buf, x) /\ Fits(a, y)
    BY <1>0, <1>2, <1>8, <2>1 DEF Fits
  <2>3. Len(b) = Len(buf) + Len(x) + Len(y) /\ new = c
    BY <1>1, <1>4, <2>1, <2>2
  <2>4. Fits(b, z)
    BY <1>0, <1>2, <1>8, <2>3 DEF Fits
  <2>5. Len(c) = Len(buf) + Len(x) + Len(y) + Len(z)
    BY <1>5, <2>3, <2>4
  <2>6. ASSUME NEW i \in 1..Len(x) PROVE c[Len(buf) + i] = x[i]
    <3>1. Len(buf) + i \in 1..Len(a)
      BY <1>0, <2>1
    <3>2. c[Len(buf) + i] = a[Len(buf) + i]
      BY <1>6, <3>1 DEF Extends
    <3>3. QED BY <1>3, <2>2, <3>2
  <2>7. ASSUME NEW i \in 1..Len(y) PROVE c[Len(buf) + Len(x) + i] = y[i]
    <3>1. Len(a) + i \in 1..Len(b)
      BY <1>0, <2>1, <2>3
    <3>2. c[Len(a) + i] = b[Len(a) + i]
      BY <1>5, <3>1 DEF Extends
    <3>3. c[Len(a) + i] = y[i]
      BY <1>4, <2>2, <3>2
    <3>4. QED BY <2>1, <3>3
  <2>8. ASSUME NEW i \in 1..Len(z) PROVE c[Len(buf) + Len(x) + Len(y) + i] = z[i]
    BY <1>5, <2>3, <2>4
  <2>9. QED BY <2>3, <2>5, <2>6, <2>7, <2>8
<1>9. InThree(new, buf, x, y, z)
  BY <1>2, <1>7, <1>8 DEF InThree
<1>10. QED BY <1>9 DEF new

(* A field is written behind what is there, whole when there is room.       *)
Follows(new, buf, f) ==
  /\ new \in Seq(Byte) /\ Len(new) <= Room /\ Extends(new, buf)
  /\ Width(f) \in Nat /\ Size(Blocks(f)) = Width(f)
  /\ Len(buf) + Size(Blocks(f)) <= Room =>
       Len(new) = Len(buf) + Width(f) /\ Holds(new, Len(buf), f)

LEMMA FieldWritten ==
  ASSUME NEW f \in Fields, NEW buf \in Seq(Byte), Len(buf) <= Room
  PROVE  Follows(AfterBlocks(buf, Blocks(f)), buf, f)
<1> DEFINE new == AfterBlocks(buf, Blocks(f))
<1>0. Room \in Nat /\ Len(buf) \in Nat
  BY PacketAssumption
<1>1. CASE f.kind = "short" /\ f.val \in Byte
  <2> DEFINE block == <<f.val>>
  <2>1. Blocks(f) = <<block>> /\ Width(f) = 1
    BY <1>1 DEF Blocks, Width
  <2>2. block \in Seq(Byte) /\ Len(block) = 1 /\ block[1] = f.val
    BY <1>1
  <2> HIDE DEF block
  <2>3. new = Written(buf, block) /\ Size(Blocks(f)) = 1
    BY <2>1, <2>2, OneBlock
  <2> HIDE DEF new
  <2>4. /\ new \in Seq(Byte) /\ Len(new) <= Room /\ Extends(new, buf)
        /\ Fits(buf, block) => /\ Len(new) = Len(buf) + Len(block)
                               /\ \A i \in 1..Len(block) : new[Len(buf) + i] = block[i]
    BY <2>2, <2>3, WrittenBlock
  <2>5. ASSUME Len(buf) + Size(Blocks(f)) <= Room
        PROVE  Len(new) = Len(buf) + Width(f) /\ Holds(new, Len(buf), f)
    <3>1. Len(new) = Len(buf) + 1 /\ \A i \in 1..1 : new[Len(buf) + i] = block[i]
      BY <2>2, <2>3, <2>4, <2>5 DEF Fits
    <3>2. new[Len(buf) + 1] = f.val
      BY <2>2, <3>1
    <3>3. QED BY <1>0, <1>1, <2>1, <3>1, <3>2 DEF Holds
  <2>6. Follows(new, buf, f)
    BY <2>1, <2>3, <2>4, <2>5 DEF Follows
  <2>7. QED BY <2>6 DEF new
<1>2. CASE f.kind = "int" /\ f.val \in 0..Base * Base - 1
  <2> DEFINE block == IntBytes(f.val)
  <2>1. Blocks(f) = <<block>> /\ Width(f) = 2
    BY <1>2 DEF Blocks, Width
  <2>2. /\ block \in Seq(Byte) /\ Len(block) = 2
        /\ block[1] = f.val \div Base /\ block[2] = f.val % Base
    BY <1>2, IntBytesAre
  <2> HIDE DEF block
  <2>3. new = Written(buf, block) /\ Size(Blocks(f)) = 2
    BY <2>1, <2>2, OneBlock
  <2> HIDE DEF new
  <2>4. /\ new \in Seq(Byte) /\ Len(new) <= Room /\ Extends(new, buf)
        /\ Fits(buf, block) => /\ Len(new) = Len(buf) + Len(block)
                               /\ \A i \in 1..Len(block) : new[Len(buf) + i] = block[i]
    BY <2>2, <2>3, WrittenBlock
  <2>5. ASSUME Len(buf) + Size(Blocks(f)) <= Room
        PROVE  Len(new) = Len(buf) + Width(f) /\ Holds(new, Len(buf), f)
    <3>0. Len(block) = 2 /\ Fits(buf, block)
      BY <2>2, <2>3, <2>5 DEF Fits
    <3>1. Len(new) = Len(buf) + 2 /\ \A i \in 1..2 : new[Len(buf) + i] = block[i]
      BY <2>4, <3>0
    <3>2. new[Len(buf) + 1] = block[1] /\ new[Len(buf) + 2] = block[2]
      BY <3>1
    <3>3. new[Len(buf) + 1] = f.val \div Base /\ new[Len(buf) + 2] = f.val % Base
      BY <2>2, <3>2
    <3>4. Len(buf) + Width(f) <= Len(new)
      BY <1>0, <2>1, <3>1
    <3>5. QED BY <1>2, <2>1, <3>1, <3>3, <3>4 DEF Holds
  <2>6. Follows(new, buf, f)
    BY <2>1, <2>3, <2>4, <2>5 DEF Follows
  <2>7. QED BY <2>6 DEF new
<1>3. CASE /\ f.kind = "string" /\ f.val \in Seq(Byte) /\ Len(f.val) \in Nat
           /\ Len(f.val) + 1 < Base * Base - 1
  <2> DEFINE x == IntBytes(Len(f.val) + 1)
             z == <<0>>
  <2>1. Blocks(f) = <<x, f.val, z>> /\ Width(f) = Len(f.val) + 3
    BY <1>3 DEF Blocks, Width
  <2>2. /\ x \in Seq(Byte) /\ Len(x) = 2
        /\ x[1] = (Len(f.val) + 1) \div Base /\ x[2] = (Len(f.val) + 1) % Base
    <3>1. Len(f.val) + 1 \in 0..Base * Base - 1
      BY <1>3, BaseBig
    <3>2. QED BY <3>1, IntBytesAre
  <2>3. z \in Seq(Byte) /\ Len(z) = 1 /\ z[1] = 0
    BY BaseBig DEF Byte
  <2> HIDE DEF x, z
  <2>4. /\ new \in Seq(Byte) /\ Len(new) <= Room /\ Extends(new, buf)
        /\ Size(Blocks(f)) = Len(x) + Len(f.val) + Len(z)
        /\ Len(buf) + Size(Blocks(f)) <= Room =>
             /\ Len(new) = Len(buf) + Len(x) + Len(f.val) + Len(z)
             /\ \A i \in 1..Len(x) : new[Len(buf) + i] = x[i]
             /\ \A i \in 1..Len(f.val) : new[Len(buf) + Len(x) + i] = f.val[i]
             /\ \A i \in 1..Len(z) : new[Len(buf) + Len(x) + Len(f.val) + i] = z[i]
    <3>1. new = AfterBlocks(buf, <<x, f.val, z>>) /\ Size(Blocks(f)) = Size(<<x, f.val, z>>)
      BY <2>1
    <3>2. f.val \in Seq(Byte)
      BY <1>3
    <3> DEFINE all == AfterBlocks(buf, <<x, f.val, z>>)
    <3>3. InThree(all, buf, x, f.val, z)
      BY <2>2, <2>3, <3>2, ThreeBlocks
    <3>4. new = all
      BY <3>1
    <3> HIDE DEF new, all
    <3>5. QED BY <3>1, <3>3, <3>4 DEF InThree
  <2> HIDE DEF new
  <2>5. Size(Blocks(f)) = Width(f) /\ Width(f) \in Nat
    BY <1>3, <2>1, <2>2, <2>3, <2>4
  <2>6. ASSUME Len(buf) + Size(Blocks(f)) <= Room
        PROVE  Len(new) = Len(buf) + Width(f) /\ Holds(new, Len(buf), f)
    <3>0. Len(x) = 2 /\ Len(z) = 1
      BY <2>2, <2>3
    <3>1. Len(new) = Len(buf) + 2 + Len(f.val) + 1
      BY <2>4, <2>6, <3>0
    <3>2. new[Len(buf) + 1] = x[1] /\ new[Len(buf) + 2] = x[2]
      <4>1. \A i \in 1..2 : new[Len(buf) + i] = x[i]
        BY <2>4, <2>6, <3>0
      <4>2. QED BY <4>1
    <3>3. /\ new[Len(buf) + 1] = (Len(f.val) + 1) \div Base
          /\ new[Len(buf) + 2] = (Len(f.val) + 1) % Base
      BY <2>2, <3>2
    <3>4. \A i \in 1..Len(f.val) : new[Len(buf) + 2 + i] = f.val[i]
      BY <2>4, <2>6, <3>0
    <3>5. new[Len(buf) + 2 + Len(f.val) + 1] = 0
      <4>1. \A i \in 1..1 : new[Len(buf) + 2 + Len(f.val) + i] = z[i]
        BY <2>4, <2>6, <3>0
      <4>2. 1 \in 1..1 /\ z[1] = 0
        BY <2>3
      <4>3. QED BY <4>1, <4>2, Zenon
    <3>6. Len(new) = Len(buf) + Width(f)
      <4>1. Width(f) = Len(f.val) + 3
        BY <2>1
      <4>2. Len(f.val) \in Nat
        BY <1>3
      <4>3. \A m, n \in Nat : m + 2 + n + 1 = m + (n + 3)
        OBVIOUS
      <4>4. Len(buf) + 2 + Len(f.val) + 1 = Len(buf) + (Len(f.val) + 3)
        BY <1>0, <4>2, <4>3
      <4>5. QED BY <3>1, <4>1, <4>4, Zenon
    <3>7. Len(buf) + Width(f) <= Len(new)
      BY <1>0, <2>5, <3>6
    <3>8. QED BY <1>3, <3>3, <3>4, <3>5, <3>6, <3>7 DEF Holds
  <2>7. Follows(new, buf, f)
    BY <2>4, <2>5, <2>6 DEF Follows
  <2>8. QED BY <2>7 DEF new
<1>4. QED BY <1>1, <1>2, <1>3, KindsOfFields

(* A field stays where it is when more is written.                          *)
LEMMA HoldsOn ==
  ASSUME NEW f \in Fields, NEW body \in Seq(Byte), NEW longer \in Seq(Byte), NEW a \in Nat,
         Holds(body, a, f), Extends(longer, body)
  PROVE  Holds(longer, a, f)
<1>0. Len(body) \in Nat /\ Len(longer) \in Nat /\ Len(body) <= Len(longer)
      /\ \A i \in 1..Len(body) : longer[i] = body[i]
  BY DEF Extends
<1>1. CASE f.kind = "short" /\ f.val \in Byte
  <2>1. Width(f) = 1 /\ a + 1 <= Len(body)
    BY <1>1 DEF Width, Holds
  <2>2. longer[a + 1] = body[a + 1]
    BY <1>0, <2>1
  <2>3. QED BY <1>0, <1>1, <2>1, <2>2 DEF Holds
<1>2. CASE f.kind = "int" /\ f.val \in 0..Base * Base - 1
  <2>1. Width(f) = 2 /\ a + 2 <= Len(body)
    BY <1>2 DEF Width, Holds
  <2>2. longer[a + 1] = body[a + 1] /\ longer[a + 2] = body[a + 2]
    BY <1>0, <2>1
  <2>3. a + Width(f) <= Len(longer)
    BY <1>0, <2>1
  <2>4. QED BY <1>2, <2>2, <2>3 DEF Holds
<1>3. CASE f.kind = "string" /\ f.val \in Seq(Byte) /\ Len(f.val) \in Nat
  <2> DEFINE n == Len(f.val)
  <2>0. n \in Nat /\ Width(f) = n + 3
    BY <1>3 DEF Width
  <2>1. a + (n + 3) <= Len(body)
    BY <2>0 DEF Holds
  <2> HIDE DEF n
  <2>2. longer[a + 1] = body[a + 1] /\ longer[a + 2] = body[a + 2]
        /\ longer[a + 2 + n + 1] = body[a + 2 + n + 1]
    <3>1. /\ a + 1 \in 1..Len(body) /\ a + 2 \in 1..Len(body)
          /\ a + 2 + n + 1 \in 1..Len(body)
      BY <1>0, <2>0, <2>1
    <3>2. QED BY <1>0, <3>1
  <2>3. \A j \in 1..n : longer[a + 2 + j] = body[a + 2 + j]
    <3>1. \A j \in 1..n : a + 2 + j \in 1..Len(body)
      BY <1>0, <2>0, <2>1
    <3>2. QED BY <1>0, <3>1
  <2>4. a + Width(f) <= Len(longer)
    BY <1>0, <2>0, <2>1
  <2>5. QED BY <1>3, <2>2, <2>3, <2>4 DEF Holds, n
<1>4. QED BY <1>1, <1>2, <1>3, KindsOfFields

--------------------------------------------------------------------------------
(* Reading.                                                                 *)

ReadAs(kind, p) ==
  CASE kind = "short"  -> ReadShort(p)
    [] kind = "int"    -> ReadInt(p)
    [] kind = "string" -> ReadString(p)

Packets == [body : Seq(Byte), pos : Nat, code : Byte, got : Seq(Values)]

(* p after n more bytes have been read.                                     *)
Moved(q, p, n) ==
  q.pos = p.pos + n /\ q.body = p.body /\ q.code = p.code /\ q.got = p.got

LEMMA MovedOn ==
  ASSUME NEW p \in Packets, NEW n \in Nat
  PROVE  /\ [p EXCEPT !.pos = @ + n] \in Packets
         /\ Moved([p EXCEPT !.pos = @ + n], p, n)
BY DEF Packets, Moved

(* Field f has been read from p.                                            *)
Reads(r, p, f) == r.val = f.val /\ Moved(r.rest, p, Width(f))

LEMMA ShortReadBack ==
  ASSUME NEW f \in Fields, f.kind = "short", NEW p \in Packets, Holds(p.body, p.pos, f)
  PROVE  Reads(ReadAs("short", p), p, f)
<1>1. Width(f) = 1 /\ Readable(p, 1) /\ p.body[p.pos + 1] = f.val
  BY DEF Width, Holds, Readable
<1>2. ReadAs("short", p) = [val |-> p.body[p.pos + 1], rest |-> [p EXCEPT !.pos = @ + 1]]
  BY <1>1 DEF ReadAs, ReadShort
<1>3. Moved([p EXCEPT !.pos = @ + 1], p, 1)
  BY MovedOn
<1>4. QED BY <1>1, <1>2, <1>3 DEF Reads

(* Where two bytes hold a number, it is read.                               *)
LEMMA IntReadBack ==
  ASSUME NEW n \in 0..Base * Base - 1, NEW p \in Packets, Readable(p, 2),
         p.body[p.pos + 1] = n \div Base, p.body[p.pos + 2] = n % Base
  PROVE  IntAt(p) = n /\ PastInt(p) = [p EXCEPT !.pos = @ + 2]
BY TwoBytes DEF IntAt, PastInt

LEMMA WholeIntReadBack ==
  ASSUME NEW f \in Fields, f.kind = "int", NEW p \in Packets, Holds(p.body, p.pos, f)
  PROVE  Reads(ReadAs("int", p), p, f)
<1>1. Width(f) = 2 /\ Readable(p, 2)
      /\ p.body[p.pos + 1] = f.val \div Base /\ p.body[p.pos + 2] = f.val % Base
  BY DEF Width, Holds, Readable
<1>2. f.val \in 0..Base * Base - 1
  BY KindsOfFields
<1>3. IntAt(p) = f.val /\ PastInt(p) = [p EXCEPT !.pos = @ + 2]
  BY <1>1, <1>2, IntReadBack
<1>4. ReadAs("int", p) = [val |-> f.val, rest |-> [p EXCEPT !.pos = @ + 2]]
  BY <1>3 DEF ReadAs, ReadInt
<1>5. Moved([p EXCEPT !.pos = @ + 2], p, 2)
  BY MovedOn
<1>6. QED BY <1>1, <1>4, <1>5 DEF Reads

LEMMA Least ==
  ASSUME NEW S \in SUBSET Nat, S # {}
  PROVE  \E x \in S : \A y \in S : x <= y
<1> SUFFICES ASSUME \A x \in S : \E y \in S : y < x PROVE FALSE
  OBVIOUS
<1> DEFINE T == {n \in Nat : \A m \in S : m >= n}
<1>1. 0 \in T
  OBVIOUS
<1>2. ASSUME NEW n \in T PROVE n + 1 \in T
  <2> SUFFICES ASSUME NEW m \in S PROVE m >= n + 1
    OBVIOUS
  <2>1. PICK y \in S : y < m
    OBVIOUS
  <2>2. y >= n
    BY <1>2
  <2>3. QED BY <2>1, <2>2
<1>3. T = Nat
  <2> HIDE DEF T
  <2>1. T \in SUBSET Nat
    BY DEF T
  <2>2. QED BY <1>1, <1>2, <2>1, Induction
<1>4. PICK x \in S : TRUE
  OBVIOUS
<1>5. x + 1 \in T
  BY <1>3
<1>6. QED BY <1>5

(* A string ends before its first zero; without one, with the last byte.    *)
LEMMA UpToZeroIs ==
  ASSUME NEW bytes \in Seq(Byte)
  PROVE  /\ UpToZero(bytes) \in Seq(Byte)
         /\ \A n \in Nat :
              n + 1 \in 1..Len(bytes) /\ bytes[n + 1] = 0 /\ (\A i \in 1..n : bytes[i] # 0)
              => UpToZero(bytes) = SubSeq(bytes, 1, n)
<1> DEFINE zeros == {i \in 1..Len(bytes) : bytes[i] = 0}
           z == CHOOSE i \in zeros : \A j \in zeros : i <= j
<1>0. UpToZero(bytes) = IF zeros = {} THEN bytes ELSE SubSeq(bytes, 1, z - 1)
  BY DEF UpToZero
<1>1. zeros \in SUBSET Nat
  OBVIOUS
<1>2. zeros # {} => z \in zeros /\ \A j \in zeros : z <= j
  <2>1. zeros # {} => \E i \in zeros : \A j \in zeros : i <= j
    <3> HIDE DEF zeros
    <3> QED BY <1>1, Least
  <2> QED BY <2>1, Zenon
<1> HIDE DEF z
<1>3. UpToZero(bytes) \in Seq(Byte)
  BY <1>0, <1>2
<1>4. ASSUME NEW n \in Nat, n + 1 \in 1..Len(bytes), bytes[n + 1] = 0,
             \A i \in 1..n : bytes[i] # 0
      PROVE  UpToZero(bytes) = SubSeq(bytes, 1, n)
  <2>1. n + 1 \in zeros
    BY <1>4
  <2>2. z \in zeros /\ z <= n + 1
    BY <1>2, <2>1
  <2>3. z \in Nat /\ z >= 1 /\ bytes[z] = 0
    BY <2>2
  <2>4. ~(z \in 1..n)
    BY <1>4, <2>3
  <2>5. z = n + 1
    BY <2>2, <2>3, <2>4
  <2>6. z - 1 = n
    BY <2>5
  <2>7. QED BY <1>0, <2>1, <2>6
<1>5. QED BY <1>3, <1>4

LEMMA SubString ==
  ASSUME NEW body \in Seq(Byte), NEW a \in Nat, a <= Len(body)
  PROVE  /\ SubSeq(body, a + 1, Len(body)) \in Seq(Byte)
         /\ Len(SubSeq(body, a + 1, Len(body))) = Len(body) - a
         /\ \A i \in 1..Len(body) - a : SubSeq(body, a + 1, Len(body))[i] = body[a + i]
<1> DEFINE len == Len(body)
           s == SubSeq(body, a + 1, len)
<1>1. len \in Nat /\ \A i \in 1..len : body[i] \in Byte
  OBVIOUS
<1>2. s \in Seq(Byte)
  OBVIOUS
<1>3. Len(s) = len - a
  OBVIOUS
<1>4. \A i \in 1..len - a : s[i] = body[a + i]
  OBVIOUS
<1>5. QED BY <1>2, <1>3, <1>4

LEMMA StringReadBack ==
  ASSUME NEW f \in Fields, f.kind = "string", NEW p \in Packets, Holds(p.body, p.pos, f)
  PROVE  Reads(ReadAs("string", p), p, f)
<1> DEFINE len == Len(f.val)
           n == len + 1
           q == [p EXCEPT !.pos = @ + 2]
           tail == SubSeq(q.body, q.pos + 1, Len(q.body))
<1>0. /\ f.val \in Seq(Byte) /\ len \in Nat /\ \A i \in 1..len : f.val[i] # 0
      /\ n < Base * Base - 1
  BY KindsOfFields
<1>1. p.body \in Seq(Byte) /\ p.pos \in Nat /\ Len(p.body) \in Nat
  BY DEF Packets
<1>2. /\ Width(f) = len + 3 /\ p.pos + (len + 3) <= Len(p.body)
      /\ p.body[p.pos + 1] = n \div Base /\ p.body[p.pos + 2] = n % Base
      /\ \A j \in 1..len : p.body[p.pos + 2 + j] = f.val[j]
      /\ p.body[p.pos + 2 + len + 1] = 0
  BY DEF Width, Holds
<1> HIDE DEF len
<1>3. n \in 0..Base * Base - 1 /\ n # Base * Base - 1 /\ n \in Nat
  BY <1>0, BaseBig
<1>4. Readable(p, 2)
  BY <1>0, <1>1, <1>2 DEF Readable
<1>5. IntAt(p) = n /\ PastInt(p) = q
  <2> HIDE DEF n, q
  <2>1. IntAt(p) = n /\ PastInt(p) = [p EXCEPT !.pos = @ + 2]
    BY <1>2, <1>3, <1>4, IntReadBack
  <2>2. QED BY <2>1 DEF q
<1>6. q \in Packets /\ Moved(q, p, 2)
  BY MovedOn
<1> HIDE DEF q
<1>7. q.pos = p.pos + 2 /\ q.body = p.body /\ q.got = p.got /\ q.code = p.code
  BY <1>6 DEF Moved
<1>8. Readable(q, n)
  BY <1>0, <1>1, <1>2, <1>7 DEF Readable
<1>9. ReadAs("string", p) = [val |-> UpToZero(tail), rest |-> PastString(q, n)]
  <2> HIDE DEF n
  <2>1. QED BY <1>3, <1>5, <1>8 DEF ReadAs, ReadString
<1>10. UpToZero(tail) = f.val
  <2>1. q.pos \in Nat /\ q.pos <= Len(q.body) /\ q.body \in Seq(Byte)
    BY <1>0, <1>1, <1>2, <1>7, SMTT(30)
  <2>2. /\ tail \in Seq(Byte) /\ Len(tail) = Len(q.body) - q.pos
        /\ \A i \in 1..Len(q.body) - q.pos : tail[i] = q.body[q.pos + i]
    BY <2>1, SubString
  <2> HIDE DEF tail
  <2>3. n <= Len(q.body) - q.pos
    BY <1>0, <1>1, <1>2, <1>7
  <2>4. \A j \in 1..len : tail[j] = f.val[j]
    <3>1. ASSUME NEW j \in 1..len PROVE tail[j] = f.val[j]
      <4>1. tail[j] = q.body[q.pos + j]
        BY <1>0, <2>1, <2>2, <2>3
      <4>2. q.body[q.pos + j] = p.body[p.pos + 2 + j]
        BY <1>7
      <4>3. QED BY <1>2, <4>1, <4>2
    <3>2. QED BY <3>1
  <2>5. tail[len + 1] = 0
    <3>1. tail[len + 1] = q.body[q.pos + (len + 1)]
      BY <1>0, <2>1, <2>2, <2>3
    <3>2. q.pos + (len + 1) = p.pos + 2 + len + 1
      <4>1. \A a, b \in Nat : (a + 2) + (b + 1) = a + 2 + b + 1
        OBVIOUS
      <4>2. p.pos \in Nat /\ len \in Nat
        BY <1>0, <1>1
      <4>3. (p.pos + 2) + (len + 1) = p.pos + 2 + len + 1
        BY <4>1, <4>2
      <4>4. QED BY <1>7, <4>3
    <3>3. QED BY <1>2, <1>7, <3>1, <3>2
  <2>6. len + 1 \in 1..Len(tail) /\ \A i \in 1..len : tail[i] # 0
    BY <1>0, <2>1, <2>2, <2>3, <2>4, SMTT(30)
  <2>7. UpToZero(tail) = SubSeq(tail, 1, len)
    BY <1>0, <2>2, <2>5, <2>6, UpToZeroIs
  <2>8. SubSeq(tail, 1, len) = f.val
    <3>1. SubSeq(tail, 1, len) \in Seq(Byte) /\ Len(SubSeq(tail, 1, len)) = len
      BY <1>0, <2>2, <2>6
    <3>2. \A i \in 1..len : SubSeq(tail, 1, len)[i] = tail[i]
      BY <1>0, <2>2, <2>6
    <3>3. \A i \in 1..len : SubSeq(tail, 1, len)[i] = f.val[i]
      BY <2>4, <3>2
    <3>4. Len(f.val) = len
      BY DEF len
    <3>5. QED BY <1>0, <3>1, <3>3, <3>4
  <2>9. QED BY <2>7, <2>8
<1>11. Moved(PastString(q, n), p, Width(f))
  <2> DEFINE m == n
  <2>0. m \in Nat /\ 2 + m = len + 3 /\ m = n
    BY <1>0, <1>3
  <2> HIDE DEF m, n
  <2>1. Moved([q EXCEPT !.pos = @ + m], q, m)
    BY <1>6, <2>0, MovedOn
  <2>2. PastString(q, n) = [q EXCEPT !.pos = @ + m]
    BY <2>0 DEF PastString
  <2>3. q.pos + m = p.pos + (len + 3)
    BY <1>1, <1>7, <2>0
  <2>4. QED BY <1>2, <1>7, <2>1, <2>2, <2>3 DEF Moved
<1>12. QED BY <1>9, <1>10, <1>11 DEF Reads

LEMMA FieldReadBack ==
  ASSUME NEW f \in Fields, NEW p \in Packets, Holds(p.body, p.pos, f)
  PROVE  Reads(ReadAs(f.kind, p), p, f)
<1>1. f.kind = "short" \/ f.kind = "int" \/ f.kind = "string"
  BY KindsOfFields
<1>2. CASE f.kind = "short"
  BY <1>2, ShortReadBack
<1>3. CASE f.kind = "int"
  BY <1>3, WholeIntReadBack
<1>4. CASE f.kind = "string"
  BY <1>4, StringReadBack
<1>5. QED BY <1>1, <1>2, <1>3, <1>4

(* Whatever is in the packet, a read yields a value of its type and leaves  *)
(* the position inside.                                                     *)
ReadsSome(r, p, kind) ==
  /\ [kind |-> kind, val |-> r.val] \in Values
  /\ r.rest \in Packets /\ r.rest.pos <= Len(p.body)
  /\ r.rest.body = p.body /\ r.rest.code = p.code /\ r.rest.got = p.got

LEMMA MovedInside ==
  ASSUME NEW p \in Packets, NEW n \in Nat, Readable(p, n)
  PROVE  /\ [p EXCEPT !.pos = @ + n] \in Packets
         /\ [p EXCEPT !.pos = @ + n].pos <= Len(p.body)
         /\ [p EXCEPT !.pos = @ + n].body = p.body
         /\ [p EXCEPT !.pos = @ + n].code = p.code
         /\ [p EXCEPT !.pos = @ + n].got = p.got
<1>1. Moved([p EXCEPT !.pos = @ + n], p, n) /\ [p EXCEPT !.pos = @ + n] \in Packets
  BY MovedOn
<1>2. p.pos + n <= Len(p.body)
  BY DEF Readable
<1>3. QED BY <1>1, <1>2 DEF Moved

LEMMA IntAtIs ==
  ASSUME NEW p \in Packets PROVE IntAt(p) \in 0..Base * Base - 1
<1>1. p.body \in Seq(Byte) /\ p.pos \in Nat
  BY DEF Packets
<1>2. CASE Readable(p, 2)
  <2>1. PICK a, b : a = p.body[p.pos + 1] /\ b = p.body[p.pos + 2]
    OBVIOUS
  <2>2. a \in Byte /\ b \in Byte
    <3>1. p.pos + 1 \in 1..Len(p.body) /\ p.pos + 2 \in 1..Len(p.body)
      BY <1>1, <1>2 DEF Readable
    <3>2. QED BY <1>1, <2>1, <3>1
  <2>3. a \in Nat /\ b \in Nat /\ a <= Base - 1 /\ b <= Base - 1 /\ Base \in Nat
    BY <2>2, BaseBig DEF Byte
  <2>4. a * Base \in Nat /\ a * Base <= (Base - 1) * Base
    BY <2>3
  <2>5. (Base - 1) * Base = Base * Base - Base /\ Base * Base \in Nat
    BY <2>3
  <2>6. a * Base + b \in 0..Base * Base - 1
    BY <2>3, <2>4, <2>5
  <2>7. QED BY <1>2, <2>1, <2>6 DEF IntAt
<1>3. CASE ~Readable(p, 2)
  <2>1. Base * Base - 1 \in 0..Base * Base - 1
    <3>1. Base * Base >= 1
      BY BaseBig
    <3>2. QED BY BaseBig, <3>1
  <2>2. QED BY <1>3, <2>1 DEF IntAt
<1>4. QED BY <1>2, <1>3

LEMMA PastIntIs ==
  ASSUME NEW p \in Packets, p.pos <= Len(p.body)
  PROVE  /\ PastInt(p) \in Packets /\ PastInt(p).pos <= Len(p.body)
         /\ PastInt(p).body = p.body /\ PastInt(p).code = p.code /\ PastInt(p).got = p.got
<1>1. CASE Readable(p, 2)
  BY <1>1, MovedInside DEF PastInt
<1>2. CASE ~Readable(p, 2)
  BY <1>2 DEF PastInt
<1>3. QED BY <1>1, <1>2

LEMMA ValueTypes ==
  /\ \A v \in Byte : [kind |-> "short", val |-> v] \in Values
  /\ \A v \in 0..Base * Base - 1 : [kind |-> "int", val |-> v] \in Values
  /\ \A v \in Seq(Byte) : [kind |-> "string", val |-> v] \in Values
BY DEF Values

LEMMA ShortReadsSome ==
  ASSUME NEW p \in Packets, p.pos <= Len(p.body)
  PROVE  ReadsSome(ReadAs("short", p), p, "short")
<1>0. p.body \in Seq(Byte) /\ p.pos \in Nat
  BY DEF Packets
<1>1. CASE Readable(p, 1)
  <2>1. ReadAs("short", p) = [val |-> p.body[p.pos + 1], rest |-> [p EXCEPT !.pos = @ + 1]]
    BY <1>1 DEF ReadAs, ReadShort
  <2>2. p.body[p.pos + 1] \in Byte
    <3>1. p.pos + 1 \in 1..Len(p.body)
      BY <1>0, <1>1 DEF Readable
    <3>2. QED BY <1>0, <3>1
  <2>3. /\ [p EXCEPT !.pos = @ + 1] \in Packets
        /\ [p EXCEPT !.pos = @ + 1].pos <= Len(p.body)
        /\ [p EXCEPT !.pos = @ + 1].body = p.body
        /\ [p EXCEPT !.pos = @ + 1].code = p.code
        /\ [p EXCEPT !.pos = @ + 1].got = p.got
    BY <1>1, MovedInside
  <2> DEFINE v == p.body[p.pos + 1]
             q == [p EXCEPT !.pos = @ + 1]
  <2> HIDE DEF v, q
  <2>4. [kind |-> "short", val |-> v] \in Values
    BY <2>2, ValueTypes DEF v
  <2>5. ReadAs("short", p) = [val |-> v, rest |-> q]
    BY <2>1 DEF v, q
  <2>6. /\ q \in Packets /\ q.pos <= Len(p.body)
        /\ q.body = p.body /\ q.code = p.code /\ q.got = p.got
    BY <2>3 DEF q
  <2>7. QED BY <2>4, <2>5, <2>6 DEF ReadsSome
<1>2. CASE ~Readable(p, 1)
  <2>1. ReadAs("short", p) = [val |-> Base - 1, rest |-> p]
    BY <1>2 DEF ReadAs, ReadShort
  <2>2. Base - 1 \in Byte
    BY BaseBig DEF Byte
  <2>3. QED BY <2>1, <2>2, ValueTypes DEF ReadsSome
<1>3. QED BY <1>1, <1>2

LEMMA IntReadsSome ==
  ASSUME NEW p \in Packets, p.pos <= Len(p.body)
  PROVE  ReadsSome(ReadAs("int", p), p, "int")
<1>1. ReadAs("int", p) = [val |-> IntAt(p), rest |-> PastInt(p)]
  BY DEF ReadAs, ReadInt
<1>2. [kind |-> "int", val |-> IntAt(p)] \in Values
  BY IntAtIs, ValueTypes
<1>3. QED BY <1>1, <1>2, PastIntIs DEF ReadsSome

LEMMA StringReadsSome ==
  ASSUME NEW p \in Packets, p.pos <= Len(p.body)
  PROVE  ReadsSome(ReadAs("string", p), p, "string")
<1> DEFINE n == IntAt(p)
           q == PastInt(p)
           tail == SubSeq(q.body, q.pos + 1, Len(q.body))
<1>1. /\ q \in Packets /\ q.pos <= Len(p.body)
      /\ q.body = p.body /\ q.code = p.code /\ q.got = p.got
  BY PastIntIs
<1>2. ReadAs("string", p) =
        IF n = Base * Base - 1 \/ ~Readable(q, n)
        THEN [val |-> <<>>, rest |-> q]
        ELSE [val |-> UpToZero(tail), rest |-> PastString(q, n)]
  BY DEF ReadAs, ReadString
<1>3. n \in Nat
  BY IntAtIs, BaseBig
<1> HIDE DEF n, q
<1>4. CASE n = Base * Base - 1 \/ ~Readable(q, n)
  <2>1. ReadAs("string", p) = [val |-> <<>>, rest |-> q]
    BY <1>2, <1>4
  <2> DEFINE none == << >>
  <2>2. none \in Seq(Byte) /\ ReadAs("string", p) = [val |-> none, rest |-> q]
    BY <2>1
  <2> HIDE DEF none
  <2>3. [kind |-> "string", val |-> none] \in Values
    BY <2>2, ValueTypes
  <2>4. QED BY <1>1, <2>2, <2>3 DEF ReadsSome
<1>5. CASE ~(n = Base * Base - 1 \/ ~Readable(q, n))
  <2>1. ReadAs("string", p) = [val |-> UpToZero(tail), rest |-> PastString(q, n)]
    BY <1>2, <1>5
  <2>2. tail \in Seq(Byte)
    <3>1. q.body \in Seq(Byte) /\ q.pos \in Nat /\ q.pos <= Len(q.body)
      BY <1>1 DEF Packets
    <3>2. QED BY <3>1, SubString
  <2> HIDE DEF tail
  <2>3. UpToZero(tail) \in Seq(Byte)
    BY <2>2, UpToZeroIs
  <2>4. /\ PastString(q, n) \in Packets /\ PastString(q, n).pos <= Len(q.body)
        /\ PastString(q, n).body = q.body /\ PastString(q, n).code = q.code
        /\ PastString(q, n).got = q.got
    BY <1>1, <1>3, <1>5, MovedInside DEF PastString
  <2>5. QED BY <1>1, <2>1, <2>3, <2>4, ValueTypes DEF ReadsSome
<1>6. QED BY <1>4, <1>5

LEMMA ReadIsTyped ==
  ASSUME NEW f \in Fields, NEW p \in Packets, p.pos <= Len(p.body)
  PROVE  ReadsSome(ReadAs(f.kind, p), p, f.kind)
<1>1. f.kind = "short" \/ f.kind = "int" \/ f.kind = "string"
  BY KindsOfFields
<1>2. QED BY <1>1, ShortReadsSome, IntReadsSome, StringReadsSome

--------------------------------------------------------------------------------
(* The invariant holds in the beginning, and in a packet begun anew.        *)

(* TypeOK, conjunct by conjunct.                                            *)
LEMMA TypesAre ==
  TypeOK <=>
    /\ m_strBuf \in Seq(Byte) /\ Len(m_strBuf) <= Room
    /\ m_isCheckCode \in BOOLEAN /\ cbCheckCode \in Byte
    /\ phase \in {"writing", "ended", "sent", "reading"}
    /\ fields \in Seq(Fields) /\ Len(fields) <= MaxFields
    /\ refused \in 0..Len(fields)
    /\ packet \in Packets /\ packet.pos <= Len(packet.body)
    /\ Len(packet.got) <= Len(fields)
    /\ altered \in BOOLEAN
BY Zenon DEF TypeOK, Packets

LEMMA TypesAreNext ==
  TypeOK' <=>
    /\ m_strBuf' \in Seq(Byte) /\ Len(m_strBuf') <= Room
    /\ m_isCheckCode' \in BOOLEAN /\ cbCheckCode' \in Byte
    /\ phase' \in {"writing", "ended", "sent", "reading"}
    /\ fields' \in Seq(Fields) /\ Len(fields') <= MaxFields
    /\ refused' \in 0..Len(fields')
    /\ packet' \in Packets /\ packet'.pos <= Len(packet'.body)
    /\ Len(packet'.got) <= Len(fields')
    /\ altered' \in BOOLEAN
BY Zenon DEF TypeOK, Packets

LEMMA EmptyIsLaidOut ==
  ASSUME m_strBuf = <<>>, fields = <<>>, refused = 0, packet = NoPacket
  PROVE  Layout
<1> DEFINE at == [i \in Nat |-> 0]
<1>1. WholeFields = 0 /\ at \in [Nat -> Nat] /\ \A i \in Nat : at[i] = 0
  BY DEF WholeFields
<1>2. Len(fields) = 0 /\ Len(m_strBuf) = 0 /\ Len(packet.got) = 0 /\ packet.pos = 0
  BY DEF NoPacket
<1> HIDE DEF at
<1>3. LaidOut(at)
  BY <1>1, <1>2 DEF LaidOut, Chain
<1>4. QED BY <1>1, <1>3 DEF Layout

LEMMA NoPacketIsTyped == NoPacket \in Packets /\ NoPacket.pos = 0 /\ Len(NoPacket.got) = 0
BY BaseBig DEF NoPacket, Packets, Byte

LEMMA InitHolds == ASSUME Init PROVE IInv
<1>1. TypeOK
  <2>1. packet \in Packets /\ packet.pos = 0 /\ Len(packet.got) = 0
    BY NoPacketIsTyped DEF Init
  <2>2. packet.pos <= Len(packet.body) /\ Len(packet.got) <= Len(fields)
    BY <2>1 DEF Packets, Init
  <2>3. Len(m_strBuf) = 0 /\ Len(fields) = 0 /\ Room >= 0 /\ MaxFields >= 0
    BY PacketAssumption DEF Init
  <2>4. m_strBuf \in Seq(Byte) /\ fields \in Seq(Fields) /\ cbCheckCode \in Byte
    BY BaseBig DEF Init, Byte
  <2>5. Len(m_strBuf) <= Room /\ Len(fields) <= MaxFields /\ refused \in 0..Len(fields)
    BY <2>3, PacketAssumption DEF Init
  <2>6. m_isCheckCode \in BOOLEAN /\ altered \in BOOLEAN
        /\ phase \in {"writing", "ended", "sent", "reading"}
    BY DEF Init
  <2>7. QED BY <2>1, <2>2, <2>4, <2>5, <2>6, TypesAre
<1>2. Sealed
  BY DEF Init, Sealed
<1>3. Layout
  BY EmptyIsLaidOut DEF Init
<1>4. QED BY <1>1, <1>2, <1>3 DEF IInv

LEMMA EmptyIsLaidOutNext ==
  ASSUME m_strBuf' = <<>>, fields' = <<>>, refused' = 0, packet' = NoPacket
  PROVE  Layout'
<1> DEFINE at == [i \in Nat |-> 0]
<1>1. WholeFields' = 0 /\ at \in [Nat -> Nat] /\ \A i \in Nat : at[i] = 0
  BY DEF WholeFields
<1>2. Len(fields') = 0 /\ Len(m_strBuf') = 0 /\ Len(packet'.got) = 0 /\ packet'.pos = 0
  BY DEF NoPacket
<1> HIDE DEF at
<1>3. LaidOut(at)'
  BY <1>1, <1>2 DEF LaidOut, Chain
<1>4. QED BY <1>1, <1>3 DEF Layout

LEMMA BeginHolds == ASSUME IInv, Begin PROVE IInv'
<1>0. TypeOK /\ packet' = NoPacket /\ m_strBuf' = <<>> /\ fields' = <<>> /\ refused' = 0
  BY DEF IInv, Begin
<1>1. TypeOK'
  <2>1. packet' \in Packets /\ packet'.pos = 0 /\ Len(packet'.got) = 0
    BY <1>0, NoPacketIsTyped
  <2>2. packet'.pos <= Len(packet'.body) /\ Len(packet'.got) <= Len(fields')
    BY <1>0, <2>1 DEF Packets
  <2>3. Len(m_strBuf') = 0 /\ Len(fields') = 0 /\ Room >= 0 /\ MaxFields >= 0
    BY <1>0, PacketAssumption
  <2>4. m_strBuf' \in Seq(Byte) /\ fields' \in Seq(Fields) /\ cbCheckCode' \in Byte
    BY <1>0 DEF Begin, TypeOK
  <2>5. Len(m_strBuf') <= Room /\ Len(fields') <= MaxFields /\ refused' \in 0..Len(fields')
    BY <1>0, <2>3, PacketAssumption
  <2>6. m_isCheckCode' \in BOOLEAN /\ altered' \in BOOLEAN
        /\ phase' \in {"writing", "ended", "sent", "reading"}
    BY DEF Begin
  <2>7. QED BY <2>1, <2>2, <2>4, <2>5, <2>6, TypesAreNext
<1>2. Sealed'
  BY DEF Begin, Sealed
<1>3. Layout'
  BY <1>0, EmptyIsLaidOutNext
<1>4. QED BY <1>1, <1>2, <1>3 DEF IInv

LEMMA EndHolds == ASSUME IInv, End PROVE IInv'
<1>1. TypeOK'
  <2>1. TypeOK /\ UNCHANGED <<m_strBuf, fields, refused, packet, altered>>
    BY DEF IInv, End
  <2>2. 0 \in Byte
    BY BaseBig DEF Byte
  <2>3. cbCheckCode' \in Byte /\ m_isCheckCode' \in BOOLEAN
        /\ phase' \in {"writing", "ended", "sent", "reading"}
    BY <2>2 DEF End
  <2>4. QED BY <2>1, <2>3, TypesAre, TypesAreNext
<1>2. ~m_isCheckCode /\ packet = NoPacket
  BY DEF IInv, Sealed, End
<1>3. Sealed'
  BY <1>2 DEF End, Sealed
<1>4. Plain' = Plain /\ WholeFields' = WholeFields
  BY <1>2 DEF End, Plain, WholeFields
<1>5. Layout'
  <2>1. PICK at \in [Nat -> Nat] : LaidOut(at)
    BY DEF IInv, Layout
  <2>2. LaidOut(at)'
    BY <1>4, <2>1 DEF LaidOut, End
  <2>3. QED BY <2>2 DEF Layout
<1>6. QED BY <1>1, <1>3, <1>5 DEF IInv

(* Writing behind the whole fields leaves them where they are.              *)
LEMMA WholeStay ==
  ASSUME NEW at \in [Nat -> Nat], LaidOut(at), fields \in Seq(Fields),
         Plain \in Seq(Byte), Plain' \in Seq(Byte), Extends(Plain', Plain),
         WholeFields' = WholeFields, WholeFields \in 0..Len(fields),
         \A i \in 1..Len(fields) : fields'[i] = fields[i],
         refused' # 0, packet' = packet
  PROVE  LaidOut(at)'
<1>1. ASSUME NEW i \in 1..WholeFields PROVE Holds(Plain', at[i], fields'[i])
  <2>0. i \in 1..Len(fields) /\ i \in Nat
    OBVIOUS
  <2>1. fields[i] \in Fields /\ fields'[i] = fields[i] /\ at[i] \in Nat
    BY <2>0
  <2>2. Holds(Plain, at[i], fields[i])
    BY DEF LaidOut, Chain
  <2>3. QED BY <2>1, <2>2, HoldsOn
<1>2. \A i \in 1..WholeFields : at[i + 1] = at[i] + Width(fields'[i])
  <2>1. ASSUME NEW i \in 1..WholeFields PROVE at[i + 1] = at[i] + Width(fields'[i])
    <3>1. fields'[i] = fields[i]
      OBVIOUS
    <3>2. QED BY <3>1 DEF LaidOut, Chain
  <2>2. QED BY <2>1
<1>3. \A i \in 1..Len(packet.got) : i <= WholeFields => packet.got[i] = fields'[i]
  <2>1. ASSUME NEW i \in 1..Len(packet.got), i <= WholeFields PROVE packet.got[i] = fields'[i]
    <3>1. i \in Int /\ i >= 1
      OBVIOUS
    <3>2. fields'[i] = fields[i]
      BY <2>1, <3>1
    <3>3. QED BY <2>1, <3>2 DEF LaidOut
  <2>2. QED BY <2>1
<1>4. Chain(at, Plain', fields', WholeFields')
  BY <1>1, <1>2 DEF Chain
<1>5. QED BY <1>3, <1>4 DEF LaidOut

LEMMA WholeAre ==
  ASSUME TypeOK PROVE WholeFields \in 0..Len(fields) /\ Len(fields) \in Nat
<1>1. Len(fields) \in Nat /\ refused \in 0..Len(fields)
  BY TypesAre
<1>2. QED BY <1>1 DEF WholeFields

(* One more field behind those that lie one after the other.                *)
LEMMA ChainGrows ==
  ASSUME NEW n \in Nat, NEW at \in [Nat -> Nat], NEW fs, NEW gs, NEW f \in Fields,
         NEW buf \in Seq(Byte), NEW new \in Seq(Byte),
         \A i \in 1..n : fs[i] \in Fields /\ gs[i] = fs[i], gs[n + 1] = f,
         Chain(at, buf, fs, n), at[n + 1] = Len(buf),
         Follows(new, buf, f), Len(buf) + Size(Blocks(f)) <= Room
  PROVE  \E next \in [Nat -> Nat] :
           next[1] = at[1] /\ next[n + 2] = Len(new) /\ Chain(next, new, gs, n + 1)
<1> DEFINE next == [at EXCEPT ![n + 2] = Len(new)]
<1>0. /\ Len(buf) \in Nat /\ Width(f) \in Nat /\ Len(new) \in Nat /\ Extends(new, buf)
      /\ Len(new) = Len(buf) + Width(f) /\ Holds(new, Len(buf), f)
  BY DEF Follows
<1>1. next \in [Nat -> Nat] /\ next[n + 2] = Len(new)
  <2>1. Len(new) \in Nat /\ n + 2 \in Nat
    BY <1>0
  <2>2. QED BY <2>1
<1>2. \A i \in 1..n + 1 : next[i] = at[i]
  OBVIOUS
<1> HIDE DEF next
<1>3. ASSUME NEW i \in 1..n + 1
      PROVE  Holds(new, next[i], gs[i]) /\ next[i + 1] = next[i] + Width(gs[i])
  <2>1. CASE i = n + 1
    <3>1. next[i] = Len(buf) /\ gs[i] = f
      BY <1>2, <2>1
    <3>2. i + 1 = n + 2
      BY <2>1
    <3>3. next[i + 1] = Len(buf) + Width(f)
      BY <1>0, <1>1, <3>2
    <3>4. QED BY <1>0, <3>1, <3>3
  <2>2. CASE i \in 1..n
    <3>1. next[i] = at[i] /\ next[i + 1] = at[i + 1] /\ at[i] \in Nat
      <4>1. i \in 1..n + 1 /\ i + 1 \in 1..n + 1 /\ i \in Nat
        BY <2>2
      <4>2. QED BY <1>2, <4>1
    <3>2. gs[i] = fs[i] /\ fs[i] \in Fields
      BY <2>2
    <3>3. Holds(buf, at[i], fs[i]) /\ at[i + 1] = at[i] + Width(fs[i])
      BY <2>2 DEF Chain
    <3>4. Holds(new, at[i], fs[i])
      BY <1>0, <3>1, <3>2, <3>3, HoldsOn
    <3>5. QED BY <3>1, <3>2, <3>3, <3>4
  <2>3. i = n + 1 \/ i \in 1..n
    OBVIOUS
  <2>4. QED BY <2>1, <2>2, <2>3
<1>4. Chain(next, new, gs, n + 1)
  BY <1>3 DEF Chain
<1>5. next[1] = at[1]
  <2>1. 1 \in 1..n + 1
    OBVIOUS
  <2>2. QED BY <1>2, <2>1
<1>6. QED BY <1>1, <1>4, <1>5

(* A field that fits is the next whole one.                                 *)
LEMMA WholeGrow ==
  ASSUME TypeOK, NEW at \in [Nat -> Nat], LaidOut(at), NEW f \in Fields,
         Plain = m_strBuf, Plain' = m_strBuf',
         Follows(m_strBuf', m_strBuf, f), Len(m_strBuf) + Size(Blocks(f)) <= Room,
         fields' = Append(fields, f), refused = 0, refused' = 0,
         packet' = packet, Len(packet.got) = 0
  PROVE  Layout'
<1>0. Len(fields) \in Nat /\ fields \in Seq(Fields) /\ m_strBuf \in Seq(Byte)
  BY TypesAre
<1>1. WholeFields = Len(fields)
  BY DEF WholeFields
<1>2. /\ Len(fields') = Len(fields) + 1 /\ fields'[Len(fields) + 1] = f
      /\ \A i \in 1..Len(fields) : fields[i] \in Fields /\ fields'[i] = fields[i]
  <2>1. \A i \in 1..Len(fields) : fields[i] \in Fields
    BY <1>0
  <2>2. fields' = Append(fields, f)
    OBVIOUS
  <2>3. Len(fields') = Len(fields) + 1 /\ fields'[Len(fields) + 1] = f
    BY <1>0, <2>2
  <2>4. \A i \in 1..Len(fields) : fields'[i] = fields[i]
    BY <1>0, <2>2
  <2>5. QED BY <2>1, <2>3, <2>4
<1>3. WholeFields' = Len(fields) + 1
  BY <1>2 DEF WholeFields
<1>4. Chain(at, m_strBuf, fields, Len(fields)) /\ at[Len(fields) + 1] = Len(m_strBuf)
  BY <1>1 DEF LaidOut
<1>5. packet.pos = at[1] /\ at[1] = 0
  <2>1. Len(packet.got) <= WholeFields /\ Len(packet.got) + 1 = 1
    BY <1>0, <1>1
  <2>2. QED BY <2>1 DEF LaidOut
<1>6. m_strBuf' \in Seq(Byte)
  BY DEF Follows
<1>7. PICK next \in [Nat -> Nat] :
        /\ next[1] = at[1] /\ next[Len(fields) + 2] = Len(m_strBuf')
        /\ Chain(next, m_strBuf', fields', Len(fields) + 1)
  <2> DEFINE n == Len(fields)
             new == m_strBuf'
             gs == fields'
  <2>1. /\ n \in Nat /\ gs[n + 1] = f /\ \A i \in 1..n : fields[i] \in Fields /\ gs[i] = fields[i]
        /\ Chain(at, m_strBuf, fields, n) /\ at[n + 1] = Len(m_strBuf)
        /\ Follows(new, m_strBuf, f) /\ new \in Seq(Byte) /\ m_strBuf \in Seq(Byte)
    BY <1>0, <1>2, <1>4, <1>6
  <2> HIDE DEF n, new, gs
  <2>2. \E next \in [Nat -> Nat] :
          next[1] = at[1] /\ next[n + 2] = Len(new) /\ Chain(next, new, gs, n + 1)
    BY <2>1, ChainGrows
  <2>3. QED BY <2>2 DEF n, new, gs
<1>8. LaidOut(next)'
  <2>1. next[1] = 0 /\ packet'.pos = next[Len(packet'.got) + 1] /\ Len(packet'.got) = 0
    <3>1. Len(packet'.got) + 1 = 1
      OBVIOUS
    <3>2. QED BY <1>5, <1>7, <3>1
  <2>2. next[Len(fields') + 1] = Len(m_strBuf')
    <3>1. Len(fields') + 1 = Len(fields) + 2
      BY <1>0, <1>2
    <3>2. QED BY <1>7, <3>1
  <2>3. Chain(next, Plain', fields', WholeFields')
    BY <1>3, <1>7
  <2>4. \A i \in 1..Len(packet'.got) : i <= WholeFields' => packet'.got[i] = fields'[i]
    BY <2>1
  <2>5. QED BY <2>1, <2>2, <2>3, <2>4 DEF LaidOut
<1>9. QED BY <1>8 DEF Layout

LEMMA WriteHolds == ASSUME IInv, NEW f \in Fields, Write(f) PROVE IInv'
<1>0. /\ TypeOK /\ Sealed /\ ~m_isCheckCode /\ packet = NoPacket /\ phase = "writing"
      /\ UNCHANGED <<m_isCheckCode, cbCheckCode, phase, packet, altered>>
  BY DEF IInv, Sealed, Write
<1>1. /\ m_strBuf \in Seq(Byte) /\ Len(m_strBuf) <= Room
      /\ fields \in Seq(Fields) /\ Len(fields) \in Nat /\ refused \in 0..Len(fields)
  BY <1>0, TypesAre
<1>2. Follows(m_strBuf', m_strBuf, f)
  <2>1. m_strBuf' = AfterBlocks(m_strBuf, Blocks(f))
    BY DEF Write
  <2>2. QED BY <1>1, <2>1, FieldWritten
<1>3. fields' = Append(fields, f) /\ Len(fields) < MaxFields
  BY DEF Write
<1>4. /\ fields' \in Seq(Fields) /\ Len(fields') = Len(fields) + 1
      /\ \A i \in 1..Len(fields) : fields'[i] = fields[i]
  BY <1>1, <1>3
<1>5. \/ /\ refused = 0 /\ refused' = Len(fields) + 1
      \/ /\ refused = 0 /\ Len(m_strBuf) + Size(Blocks(f)) <= Room /\ refused' = 0
      \/ /\ refused # 0 /\ refused' = refused
  <2>1. refused' = IF refused = 0 /\ Len(m_strBuf) + Size(Blocks(f)) > Room
                   THEN Len(fields') ELSE refused
    BY DEF Write
  <2>2. Len(m_strBuf) \in Nat /\ Size(Blocks(f)) \in Nat /\ Room \in Nat
    BY <1>1, <1>2, PacketAssumption DEF Follows
  <2>3. QED BY <1>4, <2>1, <2>2
<1>6. TypeOK'
  <2>1. refused' \in 0..Len(fields')
    BY <1>1, <1>4, <1>5
  <2>2. Len(fields') <= MaxFields
    BY <1>1, <1>3, <1>4, PacketAssumption
  <2>3. packet' \in Packets /\ packet'.pos <= Len(packet'.body) /\ Len(packet'.got) <= Len(fields')
    <3>1. packet \in Packets /\ packet.pos <= Len(packet.body) /\ packet' = packet
          /\ Len(packet.got) = 0
      BY <1>0, TypesAre, NoPacketIsTyped
    <3>2. QED BY <1>1, <1>4, <3>1
  <2>4. m_isCheckCode' \in BOOLEAN /\ altered' \in BOOLEAN /\ cbCheckCode' \in Byte
        /\ phase' \in {"writing", "ended", "sent", "reading"}
    BY <1>0, TypesAre
  <2>5. m_strBuf' \in Seq(Byte) /\ Len(m_strBuf') <= Room
    BY <1>2 DEF Follows
  <2>6. QED BY <1>4, <2>1, <2>2, <2>3, <2>4, <2>5, TypesAreNext
<1>7. Sealed'
  BY <1>0 DEF Sealed
<1>8. Layout'
  <2>1. PICK at \in [Nat -> Nat] : LaidOut(at)
    BY DEF IInv, Layout
  <2>2. Plain = m_strBuf /\ Plain' = m_strBuf'
    BY <1>0 DEF Plain
  <2>3. Len(packet.got) = 0 /\ packet' = packet
    BY <1>0, NoPacketIsTyped
  <2>4. CASE refused = 0 /\ Len(m_strBuf) + Size(Blocks(f)) <= Room /\ refused' = 0
    BY <1>0, <1>2, <1>3, <2>1, <2>2, <2>3, <2>4, WholeGrow
  <2>5. ASSUME \/ /\ refused = 0 /\ refused' = Len(fields) + 1
               \/ /\ refused # 0 /\ refused' = refused
        PROVE  Layout'
    <3>1. WholeFields' = WholeFields /\ WholeFields \in 0..Len(fields) /\ refused' # 0
      <4>1. Len(fields) \in Nat /\ refused \in 0..Len(fields) /\ Len(fields') = Len(fields) + 1
        BY <1>1, <1>4
      <4>2. CASE refused = 0 /\ refused' = Len(fields) + 1
        <5>1. WholeFields = Len(fields) /\ WholeFields' = (Len(fields) + 1) - 1 /\ refused' # 0
          BY <4>1, <4>2 DEF WholeFields
        <5>2. QED BY <4>1, <5>1
      <4>3. CASE refused # 0 /\ refused' = refused
        <5>1. WholeFields = refused - 1 /\ WholeFields' = refused - 1 /\ refused' # 0
          BY <4>3 DEF WholeFields
        <5>2. QED BY <4>1, <4>3, <5>1
      <4>4. QED BY <2>5, <4>2, <4>3
    <3>2. Plain \in Seq(Byte) /\ Plain' \in Seq(Byte) /\ Extends(Plain', Plain)
      BY <1>1, <1>2, <2>2 DEF Follows
    <3>3. LaidOut(at)'
      BY <1>1, <1>4, <2>1, <2>3, <3>1, <3>2, WholeStay
    <3>4. QED BY <3>3 DEF Layout
  <2>6. QED BY <1>5, <2>4, <2>5
<1>9. QED BY <1>6, <1>7, <1>8 DEF IInv

(* What both sendings do to the sender's packet.                            *)
Encrypted ==
  /\ phase \in {"ended", "sent", "reading"}
  /\ m_strBuf' = EncryptBuffer.body /\ cbCheckCode' = EncryptBuffer.code
  /\ m_isCheckCode' = TRUE
  /\ UNCHANGED <<fields, refused>>

LEMMA EncryptedFacts ==
  ASSUME IInv, Encrypted
  PROVE  /\ Plain' = Plain /\ Len(m_strBuf') = Len(m_strBuf)
         /\ m_strBuf' \in Seq(Byte) /\ cbCheckCode' \in Byte
         /\ DecryptBuffer(EncryptBuffer) = Plain
         /\ Passes(EncryptBuffer)
         /\ EncryptBuffer = [body |-> m_strBuf', code |-> cbCheckCode']
<1>1. TypeOK /\ Sealed
  BY DEF IInv
<1>2. /\ EncryptBuffer.body \in Seq(Byte) /\ Len(EncryptBuffer.body) = Len(m_strBuf)
      /\ EncryptBuffer.code \in Byte /\ Passes(EncryptBuffer)
      /\ Mapped(MapRecv, EncryptBuffer.body) = Plain
  BY <1>1, EncryptedPasses
<1>3. m_strBuf' = EncryptBuffer.body /\ cbCheckCode' = EncryptBuffer.code /\ m_isCheckCode'
  BY DEF Encrypted
<1>4. Plain' = Plain
  BY <1>2, <1>3 DEF Plain
<1>5. DecryptBuffer(EncryptBuffer) = Plain
  BY <1>2 DEF DecryptBuffer
<1>6. EncryptBuffer = [body |-> EncryptBuffer.body, code |-> EncryptBuffer.code]
  BY DEF EncryptBuffer
<1>7. QED BY <1>2, <1>3, <1>4, <1>5, <1>6

(* The fields are where they were, and the receiver has read none.          *)
LEMMA EncryptedHolds ==
  ASSUME IInv, Encrypted, phase' \in {"sent", "reading"}, altered' \in BOOLEAN,
         packet' \in Packets, packet'.pos = 0, Len(packet'.got) = 0,
         phase' = "sent" => altered' /\ packet' = NoPacket,
         phase' = "reading" => ~altered' /\ packet'.body = Plain
  PROVE  IInv'
<1>0. TypeOK /\ UNCHANGED <<fields, refused>> /\ m_isCheckCode'
  BY DEF IInv, Encrypted
<1>1. TypeOK'
  <2>1. m_strBuf' \in Seq(Byte) /\ Len(m_strBuf') <= Room /\ cbCheckCode' \in Byte
    BY <1>0, EncryptedFacts, TypesAre
  <2>2. packet'.pos <= Len(packet'.body) /\ Len(packet'.got) <= Len(fields')
    BY <1>0, TypesAre DEF Packets
  <2>3. fields' \in Seq(Fields) /\ Len(fields') <= MaxFields /\ refused' \in 0..Len(fields')
    BY <1>0, TypesAre
  <2>4. m_isCheckCode' \in BOOLEAN /\ phase' \in {"writing", "ended", "sent", "reading"}
    BY <1>0
  <2>5. QED BY <2>1, <2>2, <2>3, <2>4, TypesAreNext
<1>2. Sealed'
  <2>1. Passes([body |-> m_strBuf', code |-> cbCheckCode']) /\ Plain' = Plain
    BY EncryptedFacts
  <2>2. Passes([body |-> m_strBuf, code |-> cbCheckCode])'
    BY <2>1 DEF Passes, DecryptBuffer
  <2>3. phase' \notin {"writing", "ended"}
    OBVIOUS
  <2>4. QED BY <1>0, <2>1, <2>2, <2>3 DEF Sealed
<1>3. Layout'
  <2>1. PICK at \in [Nat -> Nat] : LaidOut(at)
    BY DEF IInv, Layout
  <2>2. Plain' = Plain /\ WholeFields' = WholeFields /\ Len(m_strBuf') = Len(m_strBuf)
    BY <1>0, EncryptedFacts DEF WholeFields
  <2>3. Chain(at, Plain', fields', WholeFields') /\ at[1] = 0
    BY <1>0, <2>1, <2>2 DEF LaidOut
  <2>4. refused' = 0 => at[Len(fields') + 1] = Len(m_strBuf')
    BY <1>0, <2>1, <2>2 DEF LaidOut
  <2>5. packet'.pos = at[Len(packet'.got) + 1]
    <3>1. Len(packet'.got) + 1 = 1
      OBVIOUS
    <3>2. QED BY <2>3, <3>1
  <2>6. \A i \in 1..Len(packet'.got) : i <= WholeFields' => packet'.got[i] = fields'[i]
    OBVIOUS
  <2>7. LaidOut(at)'
    BY <2>3, <2>4, <2>5, <2>6 DEF LaidOut
  <2>8. QED BY <2>7 DEF Layout
<1>4. QED BY <1>1, <1>2, <1>3 DEF IInv

LEMMA SendHolds == ASSUME IInv, SendMsg PROVE IInv'
<1>1. Encrypted
  BY DEF SendMsg, Encrypted
<1>2. Passes(EncryptBuffer) /\ DecryptBuffer(EncryptBuffer) = Plain /\ Plain \in Seq(Byte)
      /\ EncryptBuffer.code \in Byte
  <2>1. EncryptBuffer.code = cbCheckCode'
    BY <1>1 DEF Encrypted
  <2>2. QED BY <1>1, <2>1, EncryptedFacts, PlainBytes DEF IInv
<1>3. /\ packet' = [body |-> Plain, pos |-> 0, code |-> EncryptBuffer.code, got |-> <<>>]
      /\ phase' = "reading"
  BY <1>2 DEF SendMsg, Delivered
<1>4. altered' = FALSE
  BY DEF SendMsg
<1>5. packet' \in Packets /\ packet'.pos = 0 /\ Len(packet'.got) = 0 /\ packet'.body = Plain
  BY <1>2, <1>3 DEF Packets
<1>6. phase' \in {"sent", "reading"} /\ phase' # "sent" /\ altered' \in BOOLEAN
  BY <1>3, <1>4
<1>7. QED BY <1>1, <1>4, <1>5, <1>6, EncryptedHolds

LEMMA SendAlteredHolds == ASSUME IInv, SendMsgAltered PROVE IInv'
<1> DEFINE e == EncryptBuffer
<1>1. Encrypted
  BY DEF SendMsgAltered, Encrypted
<1>2. /\ e.body \in Seq(Byte) /\ e.code \in Byte /\ Passes(e)
      /\ e = [body |-> e.body, code |-> e.code]
  <2>1. e.body = m_strBuf' /\ e.code = cbCheckCode'
    BY <1>1 DEF Encrypted
  <2>2. QED BY <1>1, <2>1, EncryptedFacts
<1>3. PICK b \in Byte, i \in 0..Len(e.body) :
        /\ b # (IF i = 0 THEN e.code ELSE e.body[i])
        /\ LET p == IF i = 0 THEN [e EXCEPT !.code = b] ELSE [e EXCEPT !.body[i] = b]
           IN  Delivered(p) /\ phase' = IF Passes(p) THEN "reading" ELSE "sent"
  BY DEF SendMsgAltered
<1> DEFINE p == IF i = 0 THEN [e EXCEPT !.code = b] ELSE [e EXCEPT !.body[i] = b]
<1>4. Delivered(p) /\ phase' = IF Passes(p) THEN "reading" ELSE "sent"
  BY <1>3
<1> HIDE DEF e
<1>5. ~Passes(p)
  <2>1. CASE i = 0
    <3>1. p = [body |-> e.body, code |-> b]
      BY <1>2, <2>1
    <3>2. b # e.code /\ Passes([body |-> e.body, code |-> e.code])
      BY <1>2, <1>3, <2>1
    <3>3. QED BY <1>2, <3>1, <3>2, AlteredCodeFails
  <2>2. CASE i # 0
    <3>1. p = [body |-> [e.body EXCEPT ![i] = b], code |-> e.code]
      BY <1>2, <2>2
    <3>2. b # e.body[i] /\ Passes([body |-> e.body, code |-> e.code])
      BY <1>2, <1>3, <2>2
    <3>3. i \in 1..Len(e.body)
      BY <1>2, <2>2
    <3>4. QED BY <1>2, <3>1, <3>2, <3>3, AlteredBodyFails
  <2>3. QED BY <2>1, <2>2
<1> HIDE DEF p
<1>6. packet' = NoPacket /\ phase' = "sent"
  BY <1>4, <1>5 DEF Delivered
<1>7. altered'
  BY DEF SendMsgAltered
<1>8. QED BY <1>1, <1>6, <1>7, NoPacketIsTyped, EncryptedHolds

LEMMA ReadHolds == ASSUME IInv, Read PROVE IInv'
<1> DEFINE k == Len(packet.got) + 1
           f == fields[k]
           r == ReadAs(f.kind, packet)
           v == [kind |-> f.kind, val |-> r.val]
<1>0. /\ TypeOK /\ Sealed /\ phase = "reading" /\ Len(packet.got) < Len(fields)
      /\ UNCHANGED <<m_strBuf, m_isCheckCode, cbCheckCode, phase, fields, refused, altered>>
  BY DEF IInv, Read
<1>1. /\ packet \in Packets /\ packet.pos <= Len(packet.body) /\ packet.got \in Seq(Values)
      /\ fields \in Seq(Fields) /\ Len(fields) \in Nat /\ Len(packet.got) \in Nat
  BY <1>0, TypesAre DEF Packets
<1>2. k \in 1..Len(fields) /\ f \in Fields
  BY <1>0, <1>1
<1>3. packet' = [r.rest EXCEPT !.got = Append(@, v)]
  BY DEF Read, ReadAs
<1> HIDE DEF f, r
<1>4. ReadsSome(r, packet, f.kind)
  BY <1>1, <1>2, ReadIsTyped DEF r
<1> HIDE DEF v
<1>5. v \in Values /\ r.rest \in Packets /\ r.rest.pos <= Len(packet.body)
      /\ r.rest.body = packet.body /\ r.rest.code = packet.code /\ r.rest.got = packet.got
  BY <1>4 DEF ReadsSome, v
<1>6. packet'.body = packet.body /\ packet'.pos = r.rest.pos
      /\ packet'.got = Append(packet.got, v)
  BY <1>3, <1>5 DEF Packets
<1>7. packet' \in Packets
  <2>1. Append(packet.got, v) \in Seq(Values)
    BY <1>1, <1>5
  <2>2. packet' = [r.rest EXCEPT !.got = Append(packet.got, v)]
    BY <1>3, <1>5
  <2>3. QED BY <1>5, <2>1, <2>2 DEF Packets
<1>8. Len(packet'.got) = k /\ packet'.got[k] = v
      /\ \A i \in 1..Len(packet.got) : packet'.got[i] = packet.got[i]
  BY <1>1, <1>6
<1>9. TypeOK'
  <2>1. packet'.pos <= Len(packet'.body) /\ Len(packet'.got) <= Len(fields')
    BY <1>0, <1>1, <1>2, <1>5, <1>6, <1>8
  <2>2. QED BY <1>0, <1>7, <2>1, TypesAre, TypesAreNext
<1>10. Sealed'
  <2>1. Plain' = Plain /\ Passes([body |-> m_strBuf, code |-> cbCheckCode])'
                            = Passes([body |-> m_strBuf, code |-> cbCheckCode])
    BY <1>0 DEF Plain, Passes, DecryptBuffer
  <2>2. QED BY <1>0, <1>6, <2>1 DEF Sealed
<1>11. PICK at \in [Nat -> Nat] : LaidOut(at)
  BY DEF IInv, Layout
<1>12. Plain' = Plain /\ WholeFields' = WholeFields /\ WholeFields \in 0..Len(fields)
  BY <1>0, WholeAre DEF Plain, WholeFields
<1>13. k <= WholeFields => v = fields[k] /\ packet'.pos = at[k + 1]
  <2> SUFFICES ASSUME k <= WholeFields PROVE v = f /\ packet'.pos = at[k + 1]
    BY DEF f
  <2>1. packet.pos = at[k]
    BY <1>1, <1>11, <1>12 DEF LaidOut
  <2>2. Holds(Plain, at[k], f) /\ at[k + 1] = at[k] + Width(f)
    <3>1. k \in 1..WholeFields
      BY <1>2, <1>12, SMTT(30)
    <3>2. QED BY <1>11, <3>1 DEF LaidOut, Chain, f
  <2>3. packet.body = Plain
    BY <1>0 DEF Sealed
  <2>4. Reads(r, packet, f)
    BY <1>1, <1>2, <2>1, <2>2, <2>3, FieldReadBack DEF r
  <2>5. r.val = f.val /\ r.rest.pos = at[k + 1]
    BY <2>1, <2>2, <2>4 DEF Reads, Moved
  <2>6. v = f
    BY <1>2, <2>5 DEF v, Fields
  <2>7. QED BY <1>6, <2>5, <2>6
<1>14. Layout'
  <2>1. ASSUME NEW i \in 1..k, i <= WholeFields PROVE packet'.got[i] = fields[i]
    <3>1. CASE i = k
      BY <1>8, <1>13, <2>1, <3>1
    <3>2. CASE i \in 1..Len(packet.got)
      BY <1>8, <1>11, <2>1, <3>2 DEF LaidOut
    <3>3. i = k \/ i \in 1..Len(packet.got)
      <4>1. Len(packet.got) \in Nat
        BY <1>1
      <4>2. \A n \in Nat : \A j \in 1..n + 1 : j = n + 1 \/ j \in 1..n
        OBVIOUS
      <4>3. QED BY <4>1, <4>2
    <3>4. QED BY <3>1, <3>2, <3>3
  <2>2. LaidOut(at)'
    <3>1. Chain(at, Plain', fields', WholeFields') /\ at[1] = 0
          /\ (refused' = 0 => at[Len(fields') + 1] = Len(m_strBuf'))
      BY <1>0, <1>11, <1>12 DEF LaidOut
    <3>2. Len(packet'.got) <= WholeFields' => packet'.pos = at[Len(packet'.got) + 1]
      BY <1>8, <1>12, <1>13
    <3>3. \A i \in 1..Len(packet'.got) : i <= WholeFields' => packet'.got[i] = fields'[i]
      BY <1>0, <1>8, <1>12, <2>1
    <3>4. QED BY <3>1, <3>2, <3>3 DEF LaidOut
  <2>3. QED BY <2>2 DEF Layout
<1>15. QED BY <1>9, <1>10, <1>14 DEF IInv

LEMMA NextHolds == ASSUME IInv, [Next]_vars PROVE IInv'
<1>1. CASE Next
  BY <1>1, WriteHolds, EndHolds, BeginHolds, SendHolds, SendAlteredHolds, ReadHolds DEF Next
<1>2. CASE UNCHANGED vars
  <2>1. UNCHANGED <<m_strBuf, m_isCheckCode, cbCheckCode, phase, fields, refused, packet, altered>>
    BY <1>2 DEF vars
  <2>2. TypeOK'
    BY <2>1, TypesAre, TypesAreNext DEF IInv
  <2>3. Sealed'
    BY <2>1 DEF IInv, Sealed, Plain, Passes, DecryptBuffer
  <2>4. Plain' = Plain /\ WholeFields' = WholeFields
    BY <2>1 DEF Plain, WholeFields
  <2>5. PICK at \in [Nat -> Nat] : LaidOut(at)
    BY DEF IInv, Layout
  <2>6. LaidOut(at)'
    BY <2>1, <2>4, <2>5 DEF LaidOut
  <2>7. QED BY <2>2, <2>3, <2>6 DEF IInv, Layout
<1>3. QED BY <1>1, <1>2

--------------------------------------------------------------------------------
LEMMA Invariant == Spec => []IInv
<1>1. Init => IInv
  BY InitHolds
<1>2. IInv /\ [Next]_vars => IInv'
  BY NextHolds
<1>3. QED BY <1>1, <1>2, PTL DEF Spec

(* Packets have their types: no field is written past the end of the        *)
(* buffer, and no read moves the position past what was received.           *)
THEOREM PacketTypes == Spec => []TypeOK
<1>1. IInv => TypeOK
  BY DEF IInv
<1>2. QED BY <1>1, Invariant, PTL

(* What is read is what was written, field by field, in every packet that   *)
(* was not altered, up to the first field that did not fit, no matter to    *)
(* how many receivers the packet was sent before.                           *)
THEOREM WhatIsWrittenIsRead == Spec => []ReadsWhatWasWritten
<1>1. IInv => ReadsWhatWasWritten
  <2> SUFFICES ASSUME IInv, NEW i \in 1..Len(packet.got), refused = 0 \/ i < refused
               PROVE  packet.got[i] = fields[i]
    BY DEF ReadsWhatWasWritten
  <2>1. PICK at \in [Nat -> Nat] : LaidOut(at)
    BY DEF IInv, Layout
  <2>2. Len(packet.got) <= Len(fields) /\ refused \in 0..Len(fields)
        /\ Len(packet.got) \in Nat /\ Len(fields) \in Nat
    <3>1. fields \in Seq(Fields) /\ packet \in Packets /\ refused \in 0..Len(fields)
          /\ Len(packet.got) <= Len(fields)
      BY TypesAre DEF IInv
    <3>2. packet.got \in Seq(Values)
      BY <3>1 DEF Packets
    <3>3. Len(packet.got) \in Nat
      BY <3>2
    <3>4. Len(fields) \in Nat
      BY <3>1
    <3>5. QED BY <3>1, <3>3, <3>4
  <2>3. i <= WholeFields
    <3>1. CASE refused = 0
      BY SMTT(30), <2>2, <3>1 DEF WholeFields
    <3>2. CASE i < refused
      BY <2>2, <3>2 DEF WholeFields
    <3>3. QED BY <3>1, <3>2
  <2>4. QED BY <2>1, <2>3 DEF LaidOut
<1>2. QED BY <1>1, Invariant, PTL

(* A packet that arrives as it was sent is read, and one of which a byte or *)
(* the check code has changed never is.                                     *)
THEOREM AlteredIsRefused == Spec => []CheckCodeTells
<1>1. IInv => CheckCodeTells
  <2> SUFFICES ASSUME IInv, phase \in {"sent", "reading"} PROVE (phase = "sent") = altered
    BY DEF CheckCodeTells
  <2>2. altered \in BOOLEAN
    BY TypesAre DEF IInv
  <2>3. (phase = "sent" => altered) /\ (phase = "reading" => ~altered)
    BY DEF IInv, Sealed
  <2>4. (phase = "sent") <=> altered
    BY <2>3
  <2>5. QED BY <2>2, <2>4
<1>2. QED BY <1>1, Invariant, PTL
================================================================================
