---------------------------- MODULE MCTimerWheel ----------------------------
(* Two timers, two cells and three wheels of two slots, the clock running   *)
(* through the coarsest wheel once and a half: every distance, every        *)
(* position of the hands, every lag.                                        *)
EXTENDS TimerWheel, TLC
CONSTANTS t1, t2, c1, c2
MCTimers == {t1, t2}
MCCells == {c1, c2}
MCDelays == 1..8
MCSymmetry == Permutations(MCTimers) \cup Permutations(MCCells)
=============================================================================
