---------------------------- MODULE MCEventLoop ----------------------------
(* Three connections for two descriptors: one waits while both are taken,   *)
(* and a descriptor is used again while events of its last owner are still  *)
(* in the batch.  A ring of one unit: one answer is kept, two do not fit.   *)
EXTENDS EventLoop
MCFd == {1, 2}
=============================================================================
