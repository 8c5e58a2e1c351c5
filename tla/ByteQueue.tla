------------------------------- MODULE ByteQueue -------------------------------
(****************************************************************************)
(* What the send buffer of a connection promises to the code that uses it   *)
(* (TcpHandler::Send and TcpHandler::handle_output): a first-in first-out   *)
(* queue of bytes that holds at most Size of them.  Nothing is said about   *)
(* where the bytes are kept; LoopBuffer does that.                          *)
(*                                                                          *)
(* result is what the last call gave back to its caller: the number it      *)
(* returned and the bytes it copied out.                                    *)
(****************************************************************************)
EXTENDS Integers, Sequences

CONSTANTS
  Size,     (* the number of bytes the buffer was created for (bufsize)     *)
  Blocks,   (* the blocks of bytes a caller may put                         *)
  Lengths   (* the lengths a caller may ask for                             *)

VARIABLES
  queue,    (* the bytes put and not yet taken, oldest first                *)
  result    (* what the last call returned                                  *)

vars == <<queue, result>>

Smaller(m, n) == IF m <= n THEN m ELSE n

(* The first n bytes of the queue, or all of them when there are fewer.     *)
Front(n) == SubSeq(queue, 1, Smaller(n, Len(queue)))

Reply(n, bytes) == [ret |-> n, bytes |-> bytes]

Init ==
  /\ queue = << >>
  /\ result = Reply(0, << >>)

(* A block that fits is appended whole.                                     *)
Put(block) ==
  /\ Len(queue) + Len(block) <= Size
  /\ queue' = queue \o block
  /\ result' = Reply(Len(block), << >>)

Peek(n) ==
  /\ result' = Reply(Len(Front(n)), Front(n))
  /\ UNCHANGED queue

Erase(n) ==
  /\ queue' = SubSeq(queue, Len(Front(n)) + 1, Len(queue))
  /\ result' = Reply(Len(Front(n)), << >>)

Get(n) ==
  /\ queue' = SubSeq(queue, Len(Front(n)) + 1, Len(queue))
  /\ result' = Reply(Len(Front(n)), Front(n))

Reset ==
  /\ queue' = << >>
  /\ result' = Reply(0, << >>)

Next ==
  \/ \E block \in Blocks : Put(block)
  \/ \E n \in Lengths : Peek(n) \/ Erase(n) \/ Get(n)
  \/ Reset

Spec == Init /\ [][Next]_vars
================================================================================
