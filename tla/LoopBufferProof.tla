---------------------------- MODULE LoopBufferProof ----------------------------
(****************************************************************************)
(* The ring of LoopBuffer is a bounded byte queue, for every size, every    *)
(* set of blocks and every length.  RingInv is the inductive invariant: the *)
(* types, and the count of the bytes between the pointers.                  *)
(****************************************************************************)
EXTENDS LoopBuffer, SequenceTheorems, TLAPS

RingInv == TypeOK /\ NeverOverfull

--------------------------------------------------------------------------------
(* A block copied into the cells leaves the cells holding bytes, when the   *)
(* copied part of the block exists.                                         *)
LEMMA CopiedType ==
  ASSUME NEW cells \in [Cells -> Byte], NEW at \in Int, NEW from \in Nat,
         NEW n \in Int, NEW block \in Seq(Byte), from + n <= Len(block)
  PROVE  Copied(cells, at, block, from, n) \in [Cells -> Byte]
<1> SUFFICES ASSUME NEW k \in Cells
             PROVE (IF at <= k /\ k < at + n THEN block[from + k - at + 1]
                                             ELSE cells[k]) \in Byte
  BY DEF Copied
<1>1. CASE at <= k /\ k < at + n
  <2>1. from + k - at + 1 \in 1 .. Len(block)
    BY <1>1, SizeAssumption DEF Cells, count
  <2>2. block[from + k - at + 1] \in Byte
    BY <2>1, ElementOfSeq
  <2>3. QED BY <1>1, <2>2
<1>2. CASE ~(at <= k /\ k < at + n)
  BY <1>2
<1>3. QED BY <1>1, <1>2

(* How many bytes Peek, Erase and Get take: what was asked for, or what     *)
(* there is; and where rptr_ is left.                                       *)
LEMMA TakenProperties ==
  ASSUME RingInv, NEW n \in Nat
  PROVE  /\ Taken(n) = Smaller(n, DataCount)
         /\ Taken(n) \in 0 .. DataCount
         /\ After(n) \in 0 .. tptr
         /\ After(n) = Cell(Taken(n) + 1) \/ After(n) = tptr
         /\ wptr >= rptr => After(n) = rptr + Taken(n) /\ After(n) <= wptr
         /\ wptr < rptr /\ ~Wraps(n) => After(n) = rptr + Taken(n) /\ wptr < After(n)
         /\ Wraps(n) => After(n) = rptr + Taken(n) - tptr /\ After(n) <= wptr
BY SizeAssumption
DEF RingInv, TypeOK, NeverOverfull, Taken, After, Wraps, Smaller, DataCount,
    FreeCount, tptr, count, Cell

(* What Peek and Get copy out is the front of the contents.                 *)
LEMMA SeenProperties ==
  ASSUME RingInv, NEW n \in Nat
  PROVE  /\ Seen(n) \in Seq(Byte)
         /\ Len(Seen(n)) = Taken(n)
         /\ \A i \in 1 .. Taken(n) : Seen(n)[i] = buf[Cell(i)]
<1>1. Taken(n) \in Nat /\ Taken(n) <= DataCount /\ DataCount \in Nat
  BY TakenProperties DEF RingInv, NeverOverfull
<1>2. ASSUME NEW i \in 1 .. Taken(n)
      PROVE  /\ Seen(n)[i] = buf[Cell(i)]
             /\ Seen(n)[i] \in Byte
  <2>1. Cell(i) \in Cells
    BY <1>1, SizeAssumption
    DEF RingInv, TypeOK, NeverOverfull, DataCount, Cell, Cells, tptr, count
  <2>2. Seen(n)[i] = IF Wraps(n) /\ i > tptr - rptr
                     THEN buf[i - (tptr - rptr) - 1] ELSE buf[rptr + i - 1]
    BY DEF Seen
  <2>3. Cell(i) = IF Wraps(n) /\ i > tptr - rptr
                  THEN i - (tptr - rptr) - 1 ELSE rptr + i - 1
    BY <1>1, SizeAssumption
    DEF RingInv, TypeOK, NeverOverfull, DataCount, Cell, Wraps, Taken, Smaller,
        tptr, count
  <2>4. buf[Cell(i)] \in Byte
    BY <2>1 DEF RingInv, TypeOK
  <2>5. QED BY <2>2, <2>3, <2>4
<1>3. Seen(n) \in [1 .. Taken(n) -> Byte]
  BY <1>2 DEF Seen
<1>4. Seen(n) \in Seq(Byte)
  BY <1>1, <1>3, SeqDef
<1>5. Len(Seen(n)) = Taken(n)
  BY <1>1, <1>3, <1>4, LenProperties
<1>6. QED BY <1>2, <1>4, <1>5

--------------------------------------------------------------------------------
LEMMA InitRingInv == Init => RingInv
BY SizeAssumption, EmptySeq
DEF Init, RingInv, TypeOK, NeverOverfull, DataCount, FreeCount, Reply, Cells,
    tptr, count

(* The numbers the pointers are, for the arithmetic of the steps.           *)
LEMMA PointerRange ==
  ASSUME RingInv
  PROVE  /\ wptr \in Nat /\ rptr \in Nat /\ Size \in Nat \ {0}
         /\ wptr <= Size + 1 /\ rptr <= Size + 1
         /\ wptr >= rptr => wptr - rptr <= Size
         /\ wptr < rptr => rptr - wptr >= 1
         /\ count = Size + 1 /\ tptr = Size + 1
         /\ FreeCount = IF wptr >= rptr THEN Size - (wptr - rptr)
                                       ELSE rptr - wptr - 1
BY SizeAssumption
DEF RingInv, TypeOK, NeverOverfull, DataCount, FreeCount, tptr, count

(* What NeverOverfull and the range of the pointers ask of the next state.  *)
LEMMA NextPointers ==
  ASSUME NEW w \in Nat, NEW r \in Nat, wptr' = w, rptr' = r,
         w <= Size + 1, r <= Size + 1, w >= r => w - r <= Size
  PROVE  wptr' \in 0 .. tptr /\ rptr' \in 0 .. tptr /\ NeverOverfull'
BY SizeAssumption DEF NeverOverfull, DataCount, FreeCount, tptr, count

LEMMA PutRingInv ==
  ASSUME RingInv, NEW block \in Blocks, Put(block)
  PROVE  RingInv'
<1> USE SizeAssumption
<1>0. block \in Seq(Byte) /\ Len(block) \in Nat /\ << >> \in Seq(Byte)
  BY BlocksAssumption, LenProperties, EmptySeq
<1>1. CASE PutStraight(block)
  <2>1. buf' \in [Cells -> Byte]
    BY <1>0, <1>1, CopiedType DEF PutStraight, RingInv, TypeOK, tptr, count
  <2>2. wptr' \in 0 .. tptr /\ rptr' \in 0 .. tptr /\ NeverOverfull'
    <3>1. wptr' = wptr + Len(block) /\ rptr' = rptr /\ Len(block) <= FreeCount
          /\ wptr >= rptr /\ tptr - wptr >= Len(block)
      BY <1>1 DEF Put, PutStraight
    <3>2. QED BY <1>0, <3>1, PointerRange, NextPointers
  <2>3. result' \in [ret : Nat, bytes : Seq(Byte)]
    BY <1>0, <1>1 DEF PutStraight, Reply
  <2>4. QED BY <2>1, <2>2, <2>3 DEF RingInv, TypeOK, Cells, tptr, count
<1>2. CASE PutWrapped(block)
  <2> DEFINE part == tptr - wptr
             rest == Smaller(Len(block) - part, rptr - 1)
  <2>1. /\ part \in Nat /\ part <= Len(block)
        /\ rest \in Nat /\ part + rest <= Len(block)
    <3>1. wptr >= rptr /\ part < Len(block) /\ Len(block) <= FreeCount
      BY <1>2 DEF Put, PutWrapped
    <3>2. /\ tptr = Size + 1 /\ wptr \in Nat /\ rptr \in Nat /\ Size \in Nat
          /\ wptr <= Size + 1 /\ Len(block) <= Size - (wptr - rptr)
      BY <3>1, PointerRange
    <3>3. part \in Nat /\ part <= Len(block) /\ rptr >= 1
      BY <1>0, <3>1, <3>2
    <3> HIDE DEF part
    <3>4. CASE Len(block) - part <= rptr - 1
      <4>1. rest = Len(block) - part
        BY <3>4 DEF Smaller
      <4>2. QED BY <1>0, <3>3, <4>1
    <3>5. CASE ~(Len(block) - part <= rptr - 1)
      <4>1. rest = rptr - 1
        BY <3>5 DEF Smaller
      <4>2. QED BY <1>0, <3>2, <3>3, <3>5, <4>1
    <3>6. QED BY <3>4, <3>5
  <2>2. Copied(buf, wptr, block, 0, part) \in [Cells -> Byte]
    <3> HIDE DEF part, rest
    <3>1. buf \in [Cells -> Byte] /\ wptr \in Int
      BY PointerRange DEF RingInv, TypeOK
    <3>2. part \in Int /\ 0 + part <= Len(block)
      BY <2>1
    <3>3. QED BY <1>0, <3>1, <3>2, CopiedType
  <2>3. buf' \in [Cells -> Byte]
    <3> HIDE DEF part, rest
    <3>1. Copied(Copied(buf, wptr, block, 0, part), 0, block, part, rest)
            \in [Cells -> Byte]
      BY <1>0, <2>1, <2>2, CopiedType
    <3>2. QED BY <1>2, <3>1 DEF PutWrapped, part, rest
  <2>4. wptr' \in 0 .. tptr /\ rptr' \in 0 .. tptr /\ NeverOverfull'
    <3>1. wptr' = rest /\ rptr' = rptr /\ wptr >= rptr /\ rest <= rptr - 1
      <4>1. wptr' = rest /\ rptr' = rptr /\ wptr >= rptr
        BY <1>2 DEF Put, PutWrapped
      <4>2. rest <= rptr - 1
        BY <1>0, <2>1, PointerRange DEF Smaller
      <4>3. QED BY <4>1, <4>2
    <3> HIDE DEF part, rest
    <3>2. /\ rest \in Nat /\ rptr \in Nat /\ rest <= Size + 1 /\ rptr <= Size + 1
          /\ ~(rest >= rptr)
      BY <2>1, <3>1, PointerRange
    <3>3. QED BY <3>1, <3>2, NextPointers
  <2>5. result' \in [ret : Nat, bytes : Seq(Byte)]
    BY <1>0, <1>2, <2>1 DEF PutWrapped, Reply
  <2>6. QED BY <2>3, <2>4, <2>5 DEF RingInv, TypeOK, Cells, tptr, count
<1>3. CASE PutInGap(block)
  <2> DEFINE n == Smaller(Len(block), rptr - wptr - 1)
  <2>1. n \in Nat /\ n <= Len(block)
    BY <1>0, <1>3
    DEF PutInGap, RingInv, TypeOK, Smaller, tptr, count
  <2>2. buf' \in [Cells -> Byte]
    BY <1>0, <1>3, <2>1, CopiedType
    DEF PutInGap, RingInv, TypeOK, tptr, count
  <2>3. wptr' \in 0 .. tptr /\ rptr' \in 0 .. tptr /\ NeverOverfull'
    <3>1. wptr' = wptr + n /\ rptr' = rptr /\ wptr < rptr /\ n <= rptr - wptr - 1
      <4>1. wptr' = wptr + n /\ rptr' = rptr /\ wptr < rptr
        BY <1>3 DEF Put, PutInGap
      <4>2. n <= rptr - wptr - 1
        BY <1>0, PointerRange DEF Smaller
      <4>3. QED BY <4>1, <4>2
    <3> HIDE DEF n
    <3>2. QED BY <2>1, <3>1, PointerRange, NextPointers
  <2>4. result' \in [ret : Nat, bytes : Seq(Byte)]
    BY <1>0, <1>3, <2>1 DEF PutInGap, Reply
  <2>5. QED BY <2>2, <2>3, <2>4 DEF RingInv, TypeOK, Cells, tptr, count
<1>4. QED BY <1>1, <1>2, <1>3 DEF Put

(* Peek, Erase, Get and Reset leave the cells and wptr_ alone or empty the  *)
(* ring.                                                                    *)
LEMMA ReadRingInv ==
  ASSUME RingInv, NEW n \in Lengths, Peek(n) \/ Erase(n) \/ Get(n)
  PROVE  RingInv'
<1>1. n \in Nat
  BY LengthsAssumption
<1>2. /\ Taken(n) \in Nat
      /\ Seen(n) \in Seq(Byte)
      /\ << >> \in Seq(Byte)
  BY <1>1, TakenProperties, SeenProperties, EmptySeq DEF RingInv, NeverOverfull
<1>3. result' \in [ret : Nat, bytes : Seq(Byte)]
  <2>1. CASE Peek(n) \/ Get(n)
    BY <1>2, <2>1 DEF Peek, Get, Reply
  <2>2. CASE Erase(n)
    BY <1>2, <2>2 DEF Erase, Reply
  <2>3. QED BY <2>1, <2>2
<1>4. /\ wptr' = wptr /\ buf' = buf
      /\ rptr' \in {rptr, After(n)}
  BY DEF Peek, Erase, Get
<1>5. /\ After(n) \in Nat /\ After(n) <= Size + 1
      /\ wptr >= After(n) => wptr - After(n) <= Size
  <2>1. tptr = Size + 1 /\ Taken(n) \in Nat /\ After(n) \in 0 .. tptr
    BY <1>2, <1>1, TakenProperties, PointerRange
  <2>2. CASE wptr >= rptr
    BY <1>1, <2>1, <2>2, TakenProperties, PointerRange
  <2>3. CASE Wraps(n)
    BY <2>1, <2>3, PointerRange DEF Wraps, After, Smaller
  <2>4. CASE wptr < rptr /\ ~Wraps(n)
    BY <1>1, <2>1, <2>4, TakenProperties, PointerRange
  <2>5. QED BY <2>2, <2>3, <2>4, PointerRange
<1>6. wptr' \in 0 .. tptr /\ rptr' \in 0 .. tptr /\ NeverOverfull'
  BY <1>4, <1>5, PointerRange, NextPointers
<1>7. QED BY <1>3, <1>4, <1>6 DEF RingInv, TypeOK, Cells, tptr, count

LEMMA NextRingInv == RingInv /\ [Next]_vars => RingInv'
<1> SUFFICES ASSUME RingInv, [Next]_vars PROVE RingInv'
  OBVIOUS
<1>1. CASE \E block \in Blocks : Put(block)
  BY <1>1, PutRingInv
<1>2. CASE \E n \in Lengths : Peek(n) \/ Erase(n) \/ Get(n)
  BY <1>2, ReadRingInv
<1>3. CASE Reset
  <2>1. wptr' \in 0 .. tptr /\ rptr' \in 0 .. tptr /\ NeverOverfull'
    BY <1>3, SizeAssumption, NextPointers DEF Reset
  <2>2. buf' \in [Cells -> Byte]
    BY <1>3 DEF Reset, RingInv, TypeOK
  <2>3. result' \in [ret : Nat, bytes : Seq(Byte)]
    BY <1>3, EmptySeq DEF Reset, Reply
  <2> QED BY <2>1, <2>2, <2>3 DEF RingInv, TypeOK, Cells, tptr, count
<1>4. CASE UNCHANGED vars
  BY <1>4
  DEF vars, RingInv, TypeOK, NeverOverfull, DataCount, FreeCount, Cells, tptr,
      count
<1>5. QED BY <1>1, <1>2, <1>3, <1>4 DEF Next

LEMMA RingInvariant == Spec => []RingInv
BY InitRingInv, NextRingInv, PTL DEF Spec

(* The pointers of CLoopBuffer stay inside the allocation of Init, for a    *)
(* buffer of any size.                                                      *)
THEOREM PointersStayInside == Spec => []TypeOK
<1>1. RingInv => TypeOK
  BY DEF RingInv
<1>2. QED BY <1>1, RingInvariant, PTL

(* FreeCount and DataCount always add up to the size asked for, so the size *)
(* that Put cuts a block to is never negative and a full ring is never      *)
(* mistaken for an empty one.                                               *)
THEOREM RingNeverOverfull == Spec => []NeverOverfull
<1>1. RingInv => NeverOverfull
  BY DEF RingInv
<1>2. QED BY <1>1, RingInvariant, PTL
--------------------------------------------------------------------------------
(* The bytes from rptr_ to wptr_ form a sequence as long as DataCount says. *)
ContentsOK ==
  /\ Contents \in Seq(Byte)
  /\ Len(Contents) = DataCount
  /\ DataCount \in Nat
  /\ \A i \in 1 .. DataCount : Cell(i) \in Cells /\ Contents[i] = buf[Cell(i)]

LEMMA ContentsProperties == RingInv => ContentsOK
<1> SUFFICES ASSUME RingInv PROVE ContentsOK
  OBVIOUS
<1>1. DataCount \in Nat
  BY DEF RingInv, NeverOverfull
<1>2. ASSUME NEW i \in 1 .. DataCount
      PROVE  Cell(i) \in Cells
  BY SizeAssumption
  DEF RingInv, TypeOK, NeverOverfull, DataCount, Cell, Cells, tptr, count
<1>3. Contents \in [1 .. DataCount -> Byte]
  BY <1>2 DEF Contents, RingInv, TypeOK
<1>4. Contents \in Seq(Byte)
  BY <1>1, <1>3, SeqDef
<1>5. Len(Contents) = DataCount
  BY <1>1, <1>3, <1>4, LenProperties
<1>6. QED BY <1>1, <1>2, <1>4, <1>5 DEF ContentsOK, Contents

(* A block that fits is found after the bytes that were there, whichever of *)
(* the three ways it was stored.                                            *)
LEMMA PutCells ==
  ASSUME RingInv, NEW block \in Blocks, Put(block)
  PROVE  /\ DataCount' = DataCount + Len(block)
         /\ \A i \in 1 .. DataCount : buf'[Cell(i)'] = buf[Cell(i)]
         /\ \A i \in DataCount + 1 .. DataCount + Len(block) :
              buf'[Cell(i)'] = block[i - DataCount]
         /\ result' = Reply(Len(block), << >>)
<1>0. /\ Len(block) \in Nat /\ Len(block) <= FreeCount /\ rptr' = rptr
      /\ Size \in Nat \ {0} /\ count = Size + 1 /\ tptr = Size + 1
      /\ wptr \in 0 .. Size + 1 /\ rptr \in 0 .. Size + 1
  BY BlocksAssumption, LenProperties, PointerRange DEF Put
<1>1. CASE PutStraight(block)
  <2>1. /\ wptr >= rptr /\ wptr + Len(block) <= Size + 1
        /\ wptr' = wptr + Len(block)
        /\ result' = Reply(Len(block), << >>)
    BY <1>0, <1>1 DEF PutStraight
  <2>2. \A k \in Cells : buf'[k] = IF wptr <= k /\ k < wptr + Len(block)
                                   THEN block[k - wptr + 1] ELSE buf[k]
    BY <1>0, <1>1 DEF PutStraight, Copied, Cells
  <2>3. /\ DataCount = wptr - rptr
        /\ DataCount' = DataCount + Len(block)
    BY <1>0, <2>1 DEF DataCount
  <2>4. ASSUME NEW i \in 1 .. DataCount
        PROVE  /\ Cell(i)' = Cell(i) /\ Cell(i) \in Cells
               /\ Cell(i) < wptr
    BY <1>0, <2>1, <2>3 DEF Cell, Cells
  <2> DEFINE d == wptr - rptr
  <2>5. ASSUME NEW i \in d + 1 .. d + Len(block)
        PROVE  /\ Cell(i)' = wptr + (i - d) - 1
               /\ wptr + (i - d) - 1 \in Cells
    BY <1>0, <2>1 DEF Cell, Cells
  <2>6. \A i \in 1 .. DataCount : buf'[Cell(i)'] = buf[Cell(i)]
    BY <1>0, <2>2, <2>4 DEF Cells
  <2>7. \A i \in d + 1 .. d + Len(block) : buf'[Cell(i)'] = block[i - d]
    BY <1>0, <2>2, <2>5
  <2>8. QED BY <2>1, <2>3, <2>6, <2>7
<1>2. CASE PutWrapped(block)
  <2> DEFINE part == Size + 1 - wptr
             rest == Len(block) - part
  <2>1. /\ wptr >= rptr /\ part < Len(block)
        /\ Len(block) <= Size - (wptr - rptr)
    BY <1>0, <1>2, PointerRange DEF PutWrapped
  <2>2. Smaller(Len(block) - part, rptr - 1) = rest
    BY <1>0, <2>1 DEF Smaller
  <2>3. part \in Nat /\ rest \in Nat /\ rest < rptr /\ part + rest = Len(block)
    BY <1>0, <2>1
  <2>4. /\ wptr' = rest
        /\ result' = Reply(Len(block), << >>)
        /\ buf' = Copied(Copied(buf, wptr, block, 0, part), 0, block, part, rest)
    BY <1>0, <1>2, <2>2, <2>3 DEF PutWrapped
  <2>5. \A k \in Cells : buf'[k] = IF 0 <= k /\ k < rest THEN block[part + k - 0 + 1]
                                   ELSE IF wptr <= k /\ k < wptr + part
                                   THEN block[0 + k - wptr + 1] ELSE buf[k]
    <3> DEFINE first == Copied(buf, wptr, block, 0, part)
    <3>1. \A k \in Cells : first[k] = IF wptr <= k /\ k < wptr + part
                                      THEN block[0 + k - wptr + 1] ELSE buf[k]
      BY DEF Copied
    <3> HIDE DEF first
    <3>2. \A k \in Cells : Copied(first, 0, block, part, rest)[k]
                             = IF 0 <= k /\ k < 0 + rest
                               THEN block[part + k - 0 + 1] ELSE first[k]
      BY DEF Copied
    <3>3. buf' = Copied(first, 0, block, part, rest)
      BY <2>4 DEF first
    <3> HIDE DEF rest
    <3>4. QED BY <2>3, <3>1, <3>2, <3>3
  <2>6. /\ DataCount = wptr - rptr
        /\ DataCount' = DataCount + Len(block)
    BY <1>0, <2>1, <2>3, <2>4 DEF DataCount
  <2> HIDE DEF part, rest
  <2>7. ASSUME NEW i \in 1 .. DataCount
        PROVE  /\ Cell(i)' = Cell(i) /\ Cell(i) \in Cells
               /\ Cell(i) \in Nat /\ rest <= Cell(i) /\ Cell(i) < wptr
    BY <1>0, <2>1, <2>3, <2>6 DEF Cell, Cells
  <2>8. \A i \in 1 .. DataCount : buf'[Cell(i)'] = buf[Cell(i)]
    BY <1>0, <2>3, <2>5, <2>7
  <2> DEFINE d == wptr - rptr
  <2>9. ASSUME NEW i \in d + 1 .. d + Len(block)
        PROVE  buf'[Cell(i)'] = block[i - d]
    <3> DEFINE j == i - d
    <3>0. j \in 1 .. Len(block)
      BY <1>0
    <3>1. CASE j <= part
      <4>1. Cell(i)' = wptr + j - 1 /\ wptr + j - 1 \in Cells
        BY <1>0, <2>1, <2>3, <3>0, <3>1 DEF Cell, Cells, part
      <4>2. ~(wptr + j - 1 < rest) /\ wptr + j - 1 < wptr + part /\ 0 + (wptr + j - 1) - wptr + 1 = j
        BY <1>0, <2>1, <2>3, <3>0, <3>1
      <4>3. QED BY <1>0, <2>5, <3>0, <4>1, <4>2, SMTT(30)
    <3>2. CASE j > part
      <4>1. Cell(i)' = j - part - 1 /\ j - part - 1 \in Cells
        BY <1>0, <2>1, <2>3, <3>0, <3>2 DEF Cell, Cells, part
      <4>2. j - part - 1 < rest /\ part + (j - part - 1) - 0 + 1 = j /\ 0 <= j - part - 1
        BY <2>3, <3>0, <3>2
      <4>3. QED BY <2>5, <4>1, <4>2
    <3>3. QED BY <2>3, <3>0, <3>1, <3>2
  <2>10. QED BY <2>4, <2>6, <2>8, <2>9
<1>3. CASE PutInGap(block)
  <2>1. /\ wptr < rptr /\ Len(block) <= rptr - wptr - 1
        /\ Smaller(Len(block), rptr - wptr - 1) = Len(block)
    BY <1>0, <1>3, PointerRange DEF PutInGap, Smaller
  <2>2. /\ wptr' = wptr + Len(block)
        /\ result' = Reply(Len(block), << >>)
        /\ buf' = Copied(buf, wptr, block, 0, Len(block))
    BY <1>3, <2>1 DEF PutInGap
  <2>3. \A k \in Cells : buf'[k] = IF wptr <= k /\ k < wptr + Len(block)
                                   THEN block[0 + k - wptr + 1] ELSE buf[k]
    BY <2>2 DEF Copied
  <2>4. /\ DataCount = Size + 1 - (rptr - wptr)
        /\ DataCount' = DataCount + Len(block)
    BY <1>0, <2>1, <2>2 DEF DataCount
  <2>5. ASSUME NEW i \in 1 .. DataCount
        PROVE  /\ Cell(i)' = Cell(i) /\ Cell(i) \in Cells /\ Cell(i) \in Nat
               /\ Cell(i) < wptr \/ Cell(i) >= wptr + Len(block)
    BY <1>0, <2>1, <2>4 DEF Cell, Cells
  <2> DEFINE d == Size + 1 - (rptr - wptr)
  <2>6. ASSUME NEW i \in d + 1 .. d + Len(block)
        PROVE  /\ Cell(i)' = wptr + (i - d) - 1
               /\ wptr + (i - d) - 1 \in Cells
    BY <1>0, <2>1 DEF Cell, Cells
  <2>7. \A i \in 1 .. DataCount : buf'[Cell(i)'] = buf[Cell(i)]
    BY <1>0, <2>3, <2>5
  <2>8. ASSUME NEW i \in d + 1 .. d + Len(block)
        PROVE  buf'[Cell(i)'] = block[i - d]
    BY <1>0, <2>3, <2>6
  <2>9. QED BY <2>2, <2>4, <2>7, <2>8
<1>4. QED BY <1>1, <1>2, <1>3 DEF Put

LEMMA PutImplements ==
  ASSUME RingInv, RingInv', NEW block \in Blocks, Put(block)
  PROVE  Queue!Put(block)
<1>1. /\ block \in Seq(Byte) /\ Len(block) \in Nat
      /\ Len(block) <= FreeCount
  BY BlocksAssumption, LenProperties DEF Put
<1>2. /\ Contents \in Seq(Byte) /\ Len(Contents) = DataCount /\ DataCount \in Nat
      /\ \A i \in 1 .. DataCount : Contents[i] = buf[Cell(i)]
  BY ContentsProperties DEF ContentsOK
<1>3. /\ Contents' \in Seq(Byte) /\ Len(Contents') = DataCount'
      /\ \A i \in 1 .. DataCount' : Contents'[i] = buf'[Cell(i)']
  <2>1. ContentsOK'
    BY ContentsProperties, PTL
  <2>2. QED BY <2>1 DEF ContentsOK
<1>4. Len(Contents') = DataCount + Len(block)
  BY <1>3, PutCells
<1>5. /\ Contents \o block \in Seq(Byte)
      /\ Len(Contents \o block) = DataCount + Len(block)
      /\ \A i \in 1 .. DataCount + Len(block) :
           (Contents \o block)[i] = IF i <= DataCount THEN Contents[i] ELSE block[i - DataCount]
  BY <1>1, <1>2, ConcatProperties
<1>6. ASSUME NEW i \in 1 .. Len(Contents')
      PROVE  Contents'[i] = (Contents \o block)[i]
  <2>1. CASE i <= DataCount
    BY <1>1, <1>2, <1>3, <1>4, <1>5, <2>1, PutCells
  <2>2. CASE i > DataCount
    <3>1. i \in DataCount + 1 .. DataCount + Len(block)
      BY <1>1, <1>2, <1>4, <2>2
    <3>2. buf'[Cell(i)'] = block[i - DataCount]
      BY <3>1, PutCells
    <3>3. QED BY <1>1, <1>2, <1>3, <1>4, <1>5, <2>2, <3>1, <3>2
  <2>3. QED BY <1>1, <1>2, <1>4, <2>1, <2>2
<1>7. Contents' = Contents \o block
  BY <1>3, <1>4, <1>5, <1>6, SeqEqual
<1>8. Len(Contents) + Len(block) <= Size
  BY <1>1, <1>2, PointerRange DEF RingInv, NeverOverfull
<1>9. QED BY <1>7, <1>8, PutCells DEF Queue!Put, Queue!Reply, Reply
(* Peek and Get copy out what is at the front of the queue.                 *)
LEMMA SeenIsFront ==
  ASSUME RingInv, NEW n \in Nat
  PROVE  /\ Queue!Front(n) = Seen(n)
         /\ Len(Queue!Front(n)) = Taken(n)
<1>1. /\ Contents \in Seq(Byte) /\ Len(Contents) = DataCount /\ DataCount \in Nat
      /\ \A i \in 1 .. DataCount : Contents[i] = buf[Cell(i)]
  BY ContentsProperties DEF ContentsOK
<1>2. /\ Taken(n) \in Nat /\ Taken(n) <= DataCount
      /\ Queue!Smaller(n, DataCount) = Taken(n)
  <2>1. Taken(n) = Smaller(n, DataCount) /\ Taken(n) \in 0 .. DataCount
    BY TakenProperties
  <2>2. Queue!Smaller(n, DataCount) = Smaller(n, DataCount)
    BY DEF Queue!Smaller, Smaller
  <2>3. QED BY <1>1, <2>1, <2>2
<1>3. Queue!Front(n) = SubSeq(Contents, 1, Taken(n))
  BY <1>1, <1>2 DEF Queue!Front
<1>4. /\ SubSeq(Contents, 1, Taken(n)) \in Seq(Byte)
      /\ Len(SubSeq(Contents, 1, Taken(n))) = Taken(n)
      /\ \A i \in 1 .. Taken(n) : SubSeq(Contents, 1, Taken(n))[i] = Contents[i]
  BY <1>1, <1>2, SubSeqProperties
<1>5. SubSeq(Contents, 1, Taken(n)) = Seen(n)
  <2>1. /\ Seen(n) \in Seq(Byte) /\ Len(Seen(n)) = Taken(n)
        /\ \A i \in 1 .. Taken(n) : Seen(n)[i] = buf[Cell(i)]
    BY SeenProperties
  <2>2. \A i \in 1 .. Taken(n) : SubSeq(Contents, 1, Taken(n))[i] = Seen(n)[i]
    BY <1>1, <1>2, <1>4, <2>1
  <2> HIDE DEF Contents
  <2>3. QED BY <1>4, <2>1, <2>2, SeqEqual
<1>6. QED BY <1>3, <1>4, <1>5

(* What Erase and Get leave is the rest of the queue.                       *)
LEMMA AfterIsRest ==
  ASSUME RingInv, RingInv', NEW n \in Nat,
         wptr' = wptr, buf' = buf, rptr' = After(n)
  PROVE  Contents' = SubSeq(Contents, Len(Queue!Front(n)) + 1, Len(Contents))
<1>1. /\ Contents \in Seq(Byte) /\ Len(Contents) = DataCount /\ DataCount \in Nat
      /\ \A i \in 1 .. DataCount : Contents[i] = buf[Cell(i)]
  BY ContentsProperties DEF ContentsOK
<1>2. /\ Contents' \in Seq(Byte) /\ Len(Contents') = DataCount' /\ DataCount' \in Nat
      /\ \A i \in 1 .. DataCount' : Contents'[i] = buf'[Cell(i)']
  <2>1. ContentsOK'
    BY ContentsProperties, PTL
  <2>2. QED BY <2>1 DEF ContentsOK
<1>3. Taken(n) \in Nat /\ Taken(n) <= DataCount
  BY <1>1, TakenProperties
<1>4. /\ DataCount' = DataCount - Taken(n)
      /\ \A i \in 1 .. DataCount - Taken(n) : Cell(i)' = Cell(Taken(n) + i)
  <2>1. CASE wptr >= rptr
    <3>1. /\ rptr' = rptr + Taken(n) /\ rptr' <= wptr
          /\ DataCount = wptr - rptr
      BY <2>1, TakenProperties DEF DataCount
    <3>2. QED BY <1>3, <2>1, <3>1, PointerRange DEF DataCount, Cell
  <2>2. CASE wptr < rptr /\ ~Wraps(n)
    <3>1. /\ rptr' = rptr + Taken(n) /\ wptr < rptr' /\ rptr' <= Size + 1
          /\ DataCount = Size + 1 - (rptr - wptr)
      BY <2>2, TakenProperties, PointerRange DEF DataCount
    <3>2. QED BY <1>3, <2>2, <3>1, PointerRange DEF DataCount, Cell
  <2>3. CASE Wraps(n)
    <3>1. wptr < rptr /\ DataCount = Size + 1 - (rptr - wptr)
      BY <2>3, PointerRange DEF DataCount, Wraps
    <3>2. /\ rptr' = rptr + Taken(n) - (Size + 1)
          /\ rptr' \in 0 .. Size + 1 /\ rptr' <= wptr
      BY <2>3, TakenProperties, PointerRange
    <3>3. DataCount' = wptr - rptr'
      BY <3>2 DEF DataCount
    <3>4. DataCount' = DataCount - Taken(n)
      BY <1>3, <3>1, <3>2, <3>3, PointerRange
    <3>5. ASSUME NEW i \in 1 .. DataCount - Taken(n)
          PROVE  Cell(i)' = Cell(Taken(n) + i)
      BY <1>3, <3>1, <3>2, PointerRange DEF Cell
    <3>6. QED BY <3>4, <3>5
  <2>4. QED BY <2>1, <2>2, <2>3, PointerRange
<1> DEFINE rest == SubSeq(Contents, Taken(n) + 1, DataCount)
<1>5. /\ rest \in Seq(Byte)
      /\ Len(rest) = DataCount - Taken(n)
      /\ \A i \in 1 .. DataCount - Taken(n) : rest[i] = Contents[Taken(n) + i]
  BY <1>1, <1>3, SubSeqProperties
<1> HIDE DEF rest
<1>6. ASSUME NEW i \in 1 .. DataCount - Taken(n)
      PROVE  Contents'[i] = rest[i]
  <2>1. Taken(n) + i \in 1 .. DataCount
    BY <1>1, <1>3
  <2>2. QED BY <1>1, <1>2, <1>4, <1>5, <2>1
<1>7. Contents' = rest
  BY <1>1, <1>2, <1>3, <1>4, <1>5, <1>6, SeqEqual
<1>8. QED BY <1>1, <1>7, SeenIsFront DEF rest

LEMMA ReadImplements ==
  ASSUME RingInv, RingInv', NEW n \in Lengths, Peek(n) \/ Erase(n) \/ Get(n)
  PROVE  Queue!Peek(n) \/ Queue!Erase(n) \/ Queue!Get(n)
<1>1. n \in Nat
  BY LengthsAssumption
<1>2. CASE Peek(n)
  <2>1. Contents' = Contents
    BY <1>2 DEF Peek, Contents, DataCount, Cell, tptr, count
  <2>2. QED BY <1>1, <1>2, <2>1, SeenIsFront
            DEF Peek, Queue!Peek, Queue!Reply, Reply
<1>3. CASE Erase(n)
  <2>1. Contents' = SubSeq(Contents, Len(Queue!Front(n)) + 1, Len(Contents))
    BY <1>1, <1>3, AfterIsRest DEF Erase
  <2>2. QED BY <1>1, <1>3, <2>1, SeenIsFront
            DEF Erase, Queue!Erase, Queue!Reply, Reply
<1>4. CASE Get(n)
  <2>1. Contents' = SubSeq(Contents, Len(Queue!Front(n)) + 1, Len(Contents))
    BY <1>1, <1>4, AfterIsRest DEF Get
  <2>2. QED BY <1>1, <1>4, <2>1, SeenIsFront
            DEF Get, Queue!Get, Queue!Reply, Reply
<1>5. QED BY <1>2, <1>3, <1>4

(* An empty ring is an empty queue.                                         *)
LEMMA EmptyContents ==
  ASSUME wptr = 0, rptr = 0
  PROVE  Contents = << >>
BY DEF Contents, DataCount

LEMMA InitImplements == Init => Queue!Init
BY EmptyContents DEF Init, Queue!Init, Queue!Reply, Reply

LEMMA NextImplements ==
  RingInv /\ RingInv' /\ [Next]_vars => [Queue!Next]_(Queue!vars)
<1> SUFFICES ASSUME RingInv, RingInv', [Next]_vars
             PROVE  [Queue!Next]_(Queue!vars)
  OBVIOUS
<1>1. CASE \E block \in Blocks : Put(block)
  BY <1>1, PutImplements DEF Queue!Next
<1>2. CASE \E n \in Lengths : Peek(n) \/ Erase(n) \/ Get(n)
  BY <1>2, ReadImplements DEF Queue!Next
<1>3. CASE Reset
  <2>1. Contents' = << >>
    BY <1>3 DEF Reset, Contents, DataCount
  <2>2. QED BY <1>3, <2>1 DEF Reset, Queue!Next, Queue!Reset, Queue!Reply, Reply
<1>4. CASE UNCHANGED vars
  BY <1>4 DEF vars, Queue!vars, Contents, DataCount, Cell, tptr, count
<1>5. QED BY <1>1, <1>2, <1>3, <1>4 DEF Next

(* CLoopBuffer is the bounded byte queue its callers take it for: whatever  *)
(* the positions of the two pointers, whatever was put and however little   *)
(* the socket took, bytes leave in the order in which they came, none lost  *)
(* and none twice.                                                          *)
THEOREM RingIsByteQueue == Spec => ImplementsByteQueue
BY InitImplements, NextImplements, RingInvariant, PTL
DEF Spec, ImplementsByteQueue, Queue!Spec
================================================================================
