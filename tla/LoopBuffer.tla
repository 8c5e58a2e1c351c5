------------------------------ MODULE LoopBuffer -------------------------------
(****************************************************************************)
(* CLoopBuffer (GameLib/LoopBuffer.cpp): the ring that holds the bytes a    *)
(* connection has accepted for sending and the kernel has not taken yet.    *)
(*                                                                          *)
(* The C++ object keeps four pointers into one allocation of bufsize + 1    *)
(* bytes.  Here a pointer is its distance from hptr_, so hptr_ is 0, tptr_  *)
(* is count_, and wptr_ and rptr_ range over 0 .. count_: both can stand AT *)
(* tptr_, one past the last byte, and wrap only at their next use.  The     *)
(* class is used by one thread (the event loop); a call is one step.        *)
(****************************************************************************)
EXTENDS Integers, Sequences

CONSTANTS
  Size,     (* the number of bytes the buffer was created for (bufsize)     *)
  Byte,     (* what a cell of the buffer holds                              *)
  Blocks,   (* the blocks of bytes a caller may put                         *)
  Lengths   (* the lengths a caller may ask for                             *)

ASSUME SizeAssumption == Size \in Nat \ {0}
ASSUME BlocksAssumption == Blocks \subseteq Seq(Byte)
ASSUME LengthsAssumption == Lengths \subseteq Nat

VARIABLES
  buf,      (* the cells buf_[0 .. count_ - 1]                              *)
  wptr,     (* wptr_ - hptr_                                                *)
  rptr,     (* rptr_ - hptr_                                                *)
  result    (* what the last call returned and copied out                   *)

vars == <<buf, wptr, rptr, result>>

(* Init() allocates one byte more than it was asked for.                    *)
count == Size + 1
tptr  == count
Cells == 0 .. count - 1

Smaller(m, n) == IF m <= n THEN m ELSE n

(* A wrong FreeCount: the cell that keeps a full ring from looking empty is *)
(* given away once the writer has wrapped.                                  *)
FreeCountGivesGap == IF wptr >= rptr THEN count - (wptr - rptr) - 1
                                     ELSE rptr - wptr

FreeCount == IF wptr >= rptr THEN count - (wptr - rptr) - 1
                             ELSE rptr - wptr - 1

DataCount == IF wptr >= rptr THEN wptr - rptr
                             ELSE count - (rptr - wptr)

(* memcpy(hptr_ + at, block + from, n)                                      *)
Copied(cells, at, block, from, n) ==
  [k \in Cells |-> IF at <= k /\ k < at + n THEN block[from + k - at + 1]
                                            ELSE cells[k]]

Reply(n, bytes) == [ret |-> n, bytes |-> bytes]

Init ==
  /\ buf \in [Cells -> Byte]
  /\ wptr = 0
  /\ rptr = 0
  /\ result = Reply(0, << >>)

--------------------------------------------------------------------------------
(* Put: the three ways a block is stored.                                   *)

(* wptr_ is not behind rptr_ and the block fits before the end.             *)
PutStraight(block) ==
  /\ wptr >= rptr
  /\ tptr - wptr >= Len(block)
  /\ buf' = Copied(buf, wptr, block, 0, Len(block))
  /\ wptr' = wptr + Len(block)
  /\ result' = Reply(Len(block), << >>)

(* wptr_ is not behind rptr_ and the block wraps: what fits goes to the     *)
(* end, the rest to the head, cut so that wptr_ stays one short of rptr_.   *)
PutWrapped(block) ==
  LET part == tptr - wptr
      rest == Smaller(Len(block) - part, rptr - 1)
  IN  /\ wptr >= rptr
      /\ part < Len(block)
      /\ buf' = Copied(Copied(buf, wptr, block, 0, part), 0, block, part, rest)
      /\ wptr' = rest
      /\ result' = Reply(part + rest, << >>)

(* wptr_ has wrapped and rptr_ has not: only the gap between them is free.  *)
PutInGap(block) ==
  LET n == Smaller(Len(block), rptr - wptr - 1)
  IN  /\ wptr < rptr
      /\ buf' = Copied(buf, wptr, block, 0, n)
      /\ wptr' = wptr + n
      /\ result' = Reply(n, << >>)

(* TcpHandler::Send, the one caller, puts a block only when it fits.        *)
Put(block) ==
  /\ Len(block) <= FreeCount
  /\ PutStraight(block) \/ PutWrapped(block) \/ PutInGap(block)
  /\ UNCHANGED rptr

--------------------------------------------------------------------------------
(* Peek, Erase and Get follow the same pointers: Taken(n) is how many bytes *)
(* they return, After(n) is where Erase and Get leave rptr_, Seen(n) what   *)
(* Peek and Get copy out.                                                   *)

(* Whether the bytes asked for lie on both sides of the end.                *)
Wraps(n) == wptr < rptr /\ tptr - rptr < n

Taken(n) ==
  IF wptr >= rptr THEN Smaller(n, wptr - rptr)
  ELSE IF Wraps(n) THEN (tptr - rptr) + Smaller(n - (tptr - rptr), wptr)
  ELSE n

(* A wrong After: the reader does not wrap with the bytes.                  *)
AfterPastEnd(n) == rptr + Taken(n)

After(n) == IF Wraps(n) THEN Smaller(n - (tptr - rptr), wptr)
                        ELSE rptr + Taken(n)

(* A wrong Seen: the second copy starts one byte after the head.            *)
SeenShifted(n) ==
  [i \in 1 .. Taken(n) |->
     IF Wraps(n) /\ i > tptr - rptr THEN buf[i - (tptr - rptr)]
                                    ELSE buf[rptr + i - 1]]

Seen(n) ==
  [i \in 1 .. Taken(n) |->
     IF Wraps(n) /\ i > tptr - rptr THEN buf[i - (tptr - rptr) - 1]
                                    ELSE buf[rptr + i - 1]]

Peek(n) ==
  /\ result' = Reply(Taken(n), Seen(n))
  /\ UNCHANGED <<buf, wptr, rptr>>

Erase(n) ==
  /\ rptr' = After(n)
  /\ result' = Reply(Taken(n), << >>)
  /\ UNCHANGED <<buf, wptr>>

Get(n) ==
  /\ rptr' = After(n)
  /\ result' = Reply(Taken(n), Seen(n))
  /\ UNCHANGED <<buf, wptr>>

Reset ==
  /\ wptr' = 0
  /\ rptr' = 0
  /\ result' = Reply(0, << >>)
  /\ UNCHANGED buf

Next ==
  \/ \E block \in Blocks : Put(block)
  \/ \E n \in Lengths : Peek(n) \/ Erase(n) \/ Get(n)
  \/ Reset

Spec == Init /\ [][Next]_vars

--------------------------------------------------------------------------------
(* The pointers stay inside the allocation, the cells hold bytes.           *)
TypeOK ==
  /\ buf \in [Cells -> Byte]
  /\ wptr \in 0 .. tptr
  /\ rptr \in 0 .. tptr
  /\ result \in [ret : Nat, bytes : Seq(Byte)]

(* The ring never claims more data than it was created for: FreeCount is    *)
(* never negative and a full ring is never taken for an empty one, so the   *)
(* size - 1 cut in Put never goes below zero (a negative memcpy length).    *)
NeverOverfull ==
  /\ DataCount \in 0 .. Size
  /\ DataCount + FreeCount = Size

(* The bytes from rptr_ to wptr_, in reading order.                         *)
Cell(i) == IF rptr + i - 1 < tptr THEN rptr + i - 1 ELSE rptr + i - 1 - tptr
Contents == [i \in 1 .. DataCount |-> buf[Cell(i)]]

(* The ring implements the bounded byte queue: no call loses, repeats or    *)
(* reorders a byte, whatever the positions of the two pointers.             *)
Queue == INSTANCE ByteQueue WITH queue <- Contents
ImplementsByteQueue == Queue!Spec
================================================================================
