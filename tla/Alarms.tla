------------------------------- MODULE Alarms -------------------------------
(***************************************************************************)
(* What the timers promise to TimerEvent and its users: a timer that is    *)
(* started rings once, not before its time, the earliest first, and one    *)
(* that is stopped does not ring.  TimerWheel is shown to implement it.    *)
(***************************************************************************)
EXTENDS Integers

CONSTANTS Timers,   \* the TimerEvents
          Delays,   \* the delays they are started with, in clock ticks
          Null

Off == -1

VARIABLES now,      \* times(NULL)
          deadline, \* timer -> when it is to ring, or Off
          rang      \* the timer that this step rings, or Null

vars == <<now, deadline, rang>>

Init == now \in Nat /\ deadline = [t \in Timers |-> Off] /\ rang = Null

Silence == rang' = Null /\ UNCHANGED <<now, deadline>>

Tick == now' = now + 1 /\ rang' = Null /\ UNCHANGED deadline

Start(t, d) ==
  /\ deadline' = [deadline EXCEPT ![t] = now + d]
  /\ rang' = Null
  /\ UNCHANGED now

Stop(t) ==
  /\ deadline' = [deadline EXCEPT ![t] = Off]
  /\ rang' = Null
  /\ UNCHANGED now

Ring(t) ==
  /\ deadline[t] # Off /\ deadline[t] <= now
  /\ \A s \in Timers : deadline[s] # Off => deadline[t] <= deadline[s]
  /\ deadline' = [deadline EXCEPT ![t] = Off]
  /\ rang' = t
  /\ UNCHANGED now

Next ==
  \/ Tick \/ Silence
  \/ \E t \in Timers : Stop(t) \/ Ring(t) \/ \E d \in Delays : Start(t, d)

Spec == Init /\ [][Next]_vars
=============================================================================
