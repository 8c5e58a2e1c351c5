----------------------------- MODULE MCHallLink -----------------------------
(* Packets of the length of a header and one byte more, a header of three  *)
(* bytes, two of them the length, received three bytes at a time, of which *)
(* any two in the middle of a packet may look like a policy request; messages *)
(* of two units and a ring of three, so that a message can be half sent    *)
(* and the next one not fit; one break.                                    *)
EXTENDS HallLink
MCLens == {3, 4}
=============================================================================
