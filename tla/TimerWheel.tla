----------------------------- MODULE TimerWheel -----------------------------
(***************************************************************************)
(* The timers of the server: TimerEvent (GameLib/TimerEvent.cpp) over      *)
(* start_timer and stop_timer (timer.c), which take their cells from a     *)
(* pool (plex.h), over the hierarchy of wheels of mtimer.c.  A cell is in  *)
(* a slot of the wheel that fits its distance and is moved down, to a      *)
(* finer wheel, when the hand of the coarser one reaches its slot.         *)
(*                                                                         *)
(* run_timer may be called late, so the wheels may be behind the clock,    *)
(* and the callback of a timer may start or stop any timer while the       *)
(* wheels turn.  Timers of one slot ring in any order.                     *)
(***************************************************************************)
EXTENDS Integers, FiniteSets

CONSTANTS Timers,    \* the TimerEvents
          Cells,     \* the cells of timer_plex
          Delays,    \* the delays timers are started with, in clock ticks
          Wheels,    \* how many wheels there are: tv1 to tv5
          TVR_SIZE, TVN_SIZE,   \* powers of two: >> is \div, & with the mask is %
          MaxTime,   \* bound: the clock ends
          Null

ASSUME WheelAssumption ==
  /\ Wheels \in Nat \ {0, 1}
  /\ TVR_SIZE \in Nat \ {0} /\ TVN_SIZE \in Nat \ {0}
  /\ Delays \subseteq Nat \ {0} /\ MaxTime \in Nat
  /\ Null \notin Cells /\ Null \notin Timers

VARIABLES now,            \* times(NULL)
          timer_jiffies,  \* the tick the wheels do next
          jiffies,        \* up to where run_stimer_list runs, or Idle
          cell,           \* timer_plex: what each cell holds
          m_ev,           \* timer -> its cell (m_ev.timer) or Null
          m_bHaveStart,
          rang            \* the timer whose callback this step called, or Null

vars == <<now, timer_jiffies, jiffies, cell, m_ev, m_bHaveStart, rang>>

Idle == -1
Free == <<0, 0>>          \* the place of a cell that is in the pool
Work == <<0, 1>>          \* the work list of run_stimer_list

Size(w) == IF w = 1 THEN TVR_SIZE ELSE TVN_SIZE

\* The ticks of one slot of a wheel: a turn of the next finer one.
Width[w \in 1..Wheels] == IF w = 1 THEN 1 ELSE Width[w - 1] * Size(w - 1)

Slots == UNION {{<<w, i>> : i \in 0..(Size(w) - 1)} : w \in 1..Wheels}

TypeOK ==
  /\ now \in 0..MaxTime /\ timer_jiffies \in 0..(MaxTime + 1)
  /\ jiffies \in 0..MaxTime \cup {Idle}
  /\ cell \in [Cells -> [ctx : Timers \cup {Null}, expires : Nat,
                        at : Slots \cup {Free, Work}]]
  /\ m_ev \in [Timers -> Cells \cup {Null}]
  /\ m_bHaveStart \in [Timers -> BOOLEAN]
  /\ rang \in Timers \cup {Null}

Empty == [ctx |-> Null, expires |-> 0, at |-> Free]

\* init_timer at some time of the clock.
Init ==
  /\ now \in 0..(Size(1) - 1) /\ now <= MaxTime
  /\ timer_jiffies = now /\ jiffies = Idle
  /\ cell = [c \in Cells |-> Empty]
  /\ m_ev = [t \in Timers |-> Null]
  /\ m_bHaveStart = [t \in Timers |-> FALSE]
  /\ rang = Null

Tick ==
  /\ now < MaxTime
  /\ now' = now + 1
  /\ rang' = Null
  /\ UNCHANGED <<timer_jiffies, jiffies, cell, m_ev, m_bHaveStart>>

\* The slot of wheel w that the hand is at when it is tick t.
Index(w, t) == (t \div Width[w]) % Size(w)

\* The finest wheel whose one turn reaches the distance, or the last one.
WheelFor(distance) ==
  CHOOSE w \in 1..Wheels :
    /\ distance < Width[w] * Size(w) \/ w = Wheels
    /\ \A v \in 1..(w - 1) : distance >= Width[v] * Size(v)

\* A wrong internal_add_timer, which goes by the clock and not by the wheels.
SlotByClock(expires, t) ==
  LET w == WheelFor(expires - now) IN <<w, Index(w, expires)>>

\* internal_add_timer when the wheels are at tick t.
SlotFor(expires, t) ==
  IF expires < t THEN <<1, Index(1, t)>>
  ELSE LET w == WheelFor(expires - t) IN <<w, Index(w, expires)>>

\* stimer_del and plex_free.
Freed(c) == [cell EXCEPT ![c] = Empty]

\* A wrong StartTimer, which does not stop the timer that runs.
KeptCells(t) == cell

\* The cells when StartTimer has stopped the timer that runs, if any.
StoppedCells(t) == IF m_bHaveStart[t] /\ m_ev[t] # Null THEN Freed(m_ev[t]) ELSE cell

\* start_timer in the cell plex_alloc gives; plex_expand sees to it that one is
\* there.
StartTimer(t, d) ==
  LET cells == StoppedCells(t) IN
  /\ now + d <= MaxTime
  /\ \E c \in Cells :
       /\ cells[c].at = Free
       /\ cell' = [cells EXCEPT ![c] = [ctx |-> t, expires |-> now + d,
                                        at |-> SlotFor(now + d, timer_jiffies)]]
       /\ m_ev' = [m_ev EXCEPT ![t] = c]
  /\ m_bHaveStart' = [m_bHaveStart EXCEPT ![t] = TRUE]
  /\ rang' = Null
  /\ UNCHANGED <<now, timer_jiffies, jiffies>>

\* StopTimer; m_bHaveStart stays as it is.
StopTimer(t) ==
  /\ m_bHaveStart[t] /\ m_ev[t] # Null
  /\ cell' = Freed(m_ev[t])
  /\ m_ev' = [m_ev EXCEPT ![t] = Null]
  /\ rang' = Null
  /\ UNCHANGED <<now, timer_jiffies, jiffies, m_bHaveStart>>

run_timer ==
  /\ jiffies = Idle
  /\ now >= timer_jiffies
  /\ jiffies' = now
  /\ rang' = Null
  /\ UNCHANGED <<now, timer_jiffies, cell, m_ev, m_bHaveStart>>

\* A wrong cascade, which empties the second wheel only.
CascadesSecond(w) == w = 2 /\ Index(1, timer_jiffies) = 0

\* The wheels whose slot is moved down at this tick: the hands of all finer wheels
\* are back at the beginning.
Cascades(w) == w > 1 /\ \A v \in 1..(w - 1) : Index(v, timer_jiffies) = 0

Cascaded(c) ==
  IF \E w \in 1..Wheels : Cascades(w) /\ cell[c].at = <<w, Index(w, timer_jiffies)>>
  THEN SlotFor(cell[c].expires, timer_jiffies) ELSE cell[c].at

WorkEmpty == \A c \in Cells : cell[c].at # Work

\* One tick of run_stimer_list: cascade, and what the slot of tv1 holds is work.
Turn ==
  /\ jiffies # Idle /\ WorkEmpty
  /\ jiffies >= timer_jiffies
  /\ cell' = [c \in Cells |->
       [cell[c] EXCEPT !.at = IF Cascaded(c) = <<1, Index(1, timer_jiffies)>>
                              THEN Work ELSE Cascaded(c)]]
  /\ timer_jiffies' = timer_jiffies + 1
  /\ rang' = Null
  /\ UNCHANGED <<now, jiffies, m_ev, m_bHaveStart>>

RunEnds ==
  /\ jiffies # Idle /\ WorkEmpty
  /\ jiffies < timer_jiffies
  /\ jiffies' = Idle
  /\ rang' = Null
  /\ UNCHANGED <<now, timer_jiffies, cell, m_ev, m_bHaveStart>>

\* on_timer: the cell is given back before the callback (OnTimer), whose calls of
\* StartTimer and StopTimer follow.
Ring(c) ==
  /\ cell[c].at = Work
  /\ cell' = Freed(c)
  /\ m_ev' = [m_ev EXCEPT ![cell[c].ctx] = Null]
  /\ m_bHaveStart' = [m_bHaveStart EXCEPT ![cell[c].ctx] = FALSE]
  /\ rang' = cell[c].ctx
  /\ UNCHANGED <<now, timer_jiffies, jiffies>>

Next ==
  \/ Tick \/ run_timer \/ Turn \/ RunEnds
  \/ \E c \in Cells : Ring(c)
  \/ \E t \in Timers : StopTimer(t) \/ \E d \in Delays : StartTimer(t, d)

Spec == Init /\ [][Next]_vars

-----------------------------------------------------------------------------
(* Properties.                                                             *)

\* No timer is passed over: what is in a wheel is still to come, and what is on
\* the work list is of the tick that is being done, however late the wheels turn.
NonePassed ==
  \A c \in Cells :
    /\ cell[c].at \in Slots => cell[c].expires >= timer_jiffies
    /\ cell[c].at = Work => cell[c].expires = timer_jiffies - 1

\* A cell is in a list exactly when one timer owns it: none is lost for the pool,
\* none is used for two timers, and no list holds a cell of the pool.
CellsOwned ==
  \A c \in Cells :
    /\ cell[c].at # Free => cell[c].ctx \in Timers /\ m_ev[cell[c].ctx] = c
    /\ \A t \in Timers : m_ev[t] = c => cell[c].at # Free /\ cell[c].ctx = t

\* The wheels keep the promise of Alarms: a timer rings once, never before its
\* time and never before an earlier one, unless it is stopped or started anew.
Deadline == [t \in Timers |-> IF m_ev[t] = Null THEN -1 ELSE cell[m_ev[t]].expires]

Promise == INSTANCE Alarms WITH deadline <- Deadline

ImplementsAlarms == Promise!Spec
=============================================================================
