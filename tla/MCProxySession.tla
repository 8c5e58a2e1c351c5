--------------------------- MODULE MCProxySession ---------------------------
(* Two users, the proxy ids 0 (which is none), 1 and 2, three addresses:   *)
(* room for a dangling pointer, its cell used again, and a third player.   *)
EXTENDS ProxySession, TLC
CONSTANTS u1, u2, a1, a2, a3
MCUsers == {u1, u2}
MCProxies == 0..2
MCAddr == {a1, a2, a3}
MCSymmetry == Permutations(MCUsers) \cup Permutations(MCAddr)
=============================================================================
