--------------------------- MODULE TimerWheelProof ---------------------------
(***************************************************************************)
(* The wheels of TimerWheel for any number of wheels, slots, timers and    *)
(* cells: a timer is in a slot its hand reaches in time (InPlace), so none *)
(* is passed over, a cell belongs to one timer, and the wheels implement   *)
(* Alarms.                                                                 *)
(***************************************************************************)
EXTENDS TimerWheel, WellFoundedInduction, TLAPS

-----------------------------------------------------------------------------
(* Numbers.                                                                 *)

LEMMA Least ==
  ASSUME NEW S \in SUBSET Nat, S # {}
  PROVE  \E x \in S : \A y \in S : x <= y
<1> DEFINE R == OpToRel(<, Nat)
<1>1. \A i, j \in Nat : i < j => <<i, j>> \in R
  BY DEF OpToRel
<1>2. IsWellFoundedOn(R, Nat)
  BY NatLessThanWellFounded
<1> HIDE DEF R
<1>3. PICK x \in S : \A y \in S : ~ (<<y, x>> \in R)
  BY <1>2, WFMin
<1>4. ASSUME NEW y \in S PROVE x <= y
  <2>1. x \in Nat /\ y \in Nat
    OBVIOUS
  <2>2. ~ (y < x)
    BY <1>1, <1>3, <2>1
  <2>3. QED BY <2>1, <2>2
<1>5. QED BY <1>4

LEMMA Induction ==
  ASSUME NEW S \in SUBSET Nat, 0 \in S, \A n \in S : n + 1 \in S
  PROVE  S = Nat
<1> SUFFICES ASSUME Nat \ S # {} PROVE FALSE
  OBVIOUS
<1>1. PICK x \in Nat \ S : \A y \in Nat \ S : x <= y
  BY Least
<1>2. x # 0
  OBVIOUS
<1>3. x - 1 \in Nat /\ ~(x <= x - 1)
  BY <1>1, <1>2
<1>4. x - 1 \in S
  BY <1>1, <1>3
<1>5. QED BY <1>1, <1>4

LEMMA MulLess ==
  ASSUME NEW b \in Nat \ {0}, NEW q \in Nat, NEW p \in Nat, q < p
  PROVE  b * q + b <= b * p
<1>1. PICK e \in Nat : p = q + 1 + e
  OBVIOUS
<1>2. b * p = b * q + b + b * e
  BY <1>1
<1>3. b * e \in Nat /\ b * q \in Nat
  OBVIOUS
<1>4. QED BY <1>2, <1>3

LEMMA DivUnique ==
  ASSUME NEW a \in Nat, NEW b \in Nat \ {0}, NEW q \in Nat, NEW r \in 0..b - 1, a = b * q + r
  PROVE  a \div b = q /\ a % b = r
<1>0. PICK p, s : p = a \div b /\ s = a % b
  OBVIOUS
<1>1. p \in Nat /\ s \in 0..b - 1 /\ a = b * p + s
  BY <1>0
<1>2. b * p \in Nat /\ b * q \in Nat
  BY <1>1
<1>3. ~(p < q)
  <2>1. p < q => b * p + b <= b * q
    BY <1>1, MulLess
  <2>2. QED BY <2>1, <1>1, <1>2
<1>4. ~(q < p)
  <2>1. q < p => b * q + b <= b * p
    BY <1>1, MulLess
  <2>2. QED BY <2>1, <1>1, <1>2
<1>5. p = q
  BY <1>1, <1>3, <1>4
<1>6. b * p = b * q
  BY <1>5
<1>7. s = r
  BY <1>1, <1>2, <1>6
<1>8. QED BY <1>0, <1>5, <1>7

\* Two ticks of one turn with the same remainder are one.
LEMMA SameSlot ==
  ASSUME NEW e \in Nat, NEW t \in Nat, NEW b \in Nat \ {0},
         t <= e, e < t + b, e % b = t % b
  PROVE  e = t
<1>0. PICK p, q, s : p = e \div b /\ q = t \div b /\ s = e % b /\ s = t % b
  OBVIOUS
<1>1. /\ p \in Nat /\ s \in 0..b - 1 /\ e = b * p + s
      /\ q \in Nat /\ t = b * q + s
  BY <1>0
<1>2. b * p \in Nat /\ b * q \in Nat
  BY <1>1
<1>3. ~(p < q)
  <2>1. p < q => b * p + b <= b * q
    BY <1>1, MulLess
  <2>2. QED BY <2>1, <1>1, <1>2
<1>4. ~(q < p)
  <2>1. q < p => b * q + b <= b * p
    BY <1>1, MulLess
  <2>2. QED BY <2>1, <1>1, <1>2
<1>5. p = q
  BY <1>1, <1>3, <1>4
<1>6. b * p = b * q
  BY <1>5
<1>7. QED BY <1>1, <1>6

\* A number of whole turns is at the beginning of a turn.
LEMMA WholeTurns ==
  ASSUME NEW b \in Nat \ {0}, NEW s \in Nat \ {0}, NEW m \in Nat, NEW t \in Nat,
         t = b * (s * m)
  PROVE  (t \div b) % s = 0
<1>1. s * m \in Nat /\ 0 \in 0..b - 1 /\ 0 \in 0..s - 1
  OBVIOUS
<1>2. t = b * (s * m) + 0
  BY <1>1
<1> DEFINE q == s * m
<1>3. q \in Nat /\ t = b * q + 0 /\ q = s * m + 0
  BY <1>1, <1>2
<1> HIDE DEF q
<1>4. t \div b = q
  BY <1>1, <1>3, DivUnique
<1>5. q % s = 0
  BY <1>1, <1>3, DivUnique
<1>6. QED BY <1>4, <1>5

-----------------------------------------------------------------------------
(* The widths of the wheels.                                                *)

LEMMA SizeType == \A w : Size(w) \in Nat \ {0}
BY WheelAssumption DEF Size

IsWidth(f, n) == f = [w \in 1..n |-> IF w = 1 THEN 1 ELSE f[w - 1] * Size(w - 1)]

LEMMA WidthExists ==
  ASSUME NEW n \in Nat
  PROVE  \E f : IsWidth(f, n)
<1> DEFINE S == {m \in Nat : \E f : IsWidth(f, m)}
<1>1. 0 \in S
  <2>1. 1..0 = {}
    OBVIOUS
  <2> DEFINE g == [w \in 1..0 |-> 1]
  <2>2. g = [w \in 1..0 |-> IF w = 1 THEN 1 ELSE g[w - 1] * Size(w - 1)]
    BY <2>1
  <2>3. IsWidth(g, 0)
    BY <2>2 DEF IsWidth
  <2>4. QED BY <2>3
<1>2. ASSUME NEW m \in S PROVE m + 1 \in S
  <2>0. PICK f : IsWidth(f, m)
    BY <1>2
  <2>1. f = [w \in 1..m |-> IF w = 1 THEN 1 ELSE f[w - 1] * Size(w - 1)]
    BY <2>0 DEF IsWidth
  <2> DEFINE D(w) == IF w = 1 THEN 1 ELSE f[w - 1] * Size(w - 1)
             g == [w \in 1..m + 1 |-> D(w)]
             E(w) == IF w = 1 THEN 1 ELSE g[w - 1] * Size(w - 1)
  <2>2. ASSUME NEW w \in 1..m + 1 PROVE g[w] = E(w)
    <3>1. g[w] = D(w)
      OBVIOUS
    <3>2. w # 1 => g[w - 1] = f[w - 1]
      <4> SUFFICES ASSUME w # 1 PROVE g[w - 1] = f[w - 1]
        OBVIOUS
      <4>1. w - 1 \in 1..m + 1 /\ w - 1 \in 1..m
        BY <1>2
      <4>2. g[w - 1] = D(w - 1)
        BY <4>1
      <4>3. f[w - 1] = D(w - 1)
        BY <2>1, <4>1
      <4>4. QED BY <4>2, <4>3
    <3>3. QED BY <3>1, <3>2
  <2>3. g = [w \in 1..m + 1 |-> E(w)]
    BY <2>2
  <2>4. IsWidth(g, m + 1)
    BY <2>3 DEF IsWidth
  <2>5. m + 1 \in Nat
    BY <1>2
  <2>6. QED BY <2>4, <2>5
<1>3. S = Nat
  <2> HIDE DEF S
  <2>1. S \in SUBSET Nat
    BY DEF S
  <2>2. QED BY <1>1, <1>2, <2>1, Induction
<1>4. QED BY <1>3

\* A slot of a wheel is one turn of the next finer one.
LEMMA WidthIs ==
  /\ Width[1] = 1
  /\ \A w \in 1..Wheels - 1 : Width[w + 1] = Width[w] * Size(w)
<1>1. Width = [w \in 1..Wheels |-> IF w = 1 THEN 1 ELSE Width[w - 1] * Size(w - 1)]
  <2>0. PICK f : IsWidth(f, Wheels)
    BY WidthExists, WheelAssumption
  <2>1. \E g : g = [w \in 1..Wheels |-> IF w = 1 THEN 1 ELSE g[w - 1] * Size(w - 1)]
    BY <2>0 DEF IsWidth
  <2>2. QED BY <2>1, Zenon DEF Width
<1>2. 1 \in 1..Wheels
  BY WheelAssumption
<1>3. ASSUME NEW w \in 1..Wheels - 1
      PROVE  Width[w + 1] = Width[w] * Size(w)
  <2>1. w + 1 \in 1..Wheels /\ w + 1 # 1 /\ (w + 1) - 1 = w
    BY WheelAssumption
  <2>2. QED BY <1>1, <2>1
<1>4. QED BY <1>1, <1>2, <1>3

LEMMA WidthType == \A w \in 1..Wheels : Width[w] \in Nat \ {0}
<1> DEFINE S == {n \in Nat : n + 1 <= Wheels => Width[n + 1] \in Nat \ {0}}
<1>0. Wheels \in Nat
  BY WheelAssumption
<1>1. 0 \in S
  BY WidthIs
<1>2. ASSUME NEW n \in S PROVE n + 1 \in S
  <2> SUFFICES ASSUME (n + 1) + 1 <= Wheels PROVE Width[(n + 1) + 1] \in Nat \ {0}
    OBVIOUS
  <2>1. n + 1 \in 1..Wheels - 1 /\ n + 1 <= Wheels
    BY <1>0
  <2>2. Width[(n + 1) + 1] = Width[n + 1] * Size(n + 1)
    BY <2>1, WidthIs
  <2>3. Width[n + 1] \in Nat \ {0} /\ Size(n + 1) \in Nat \ {0}
    BY <1>2, <2>1, SizeType
  <2>4. \A a, b \in Nat \ {0} : a * b \in Nat \ {0}
    OBVIOUS
  <2>5. QED BY <2>2, <2>3, <2>4
<1>3. S = Nat
  <2> HIDE DEF S
  <2>1. S \in SUBSET Nat
    BY DEF S
  <2>2. QED BY <1>1, <1>2, <2>1, Induction
<1>4. ASSUME NEW w \in 1..Wheels PROVE Width[w] \in Nat \ {0}
  <2>1. w - 1 \in Nat /\ (w - 1) + 1 = w /\ w <= Wheels
    BY <1>0
  <2>2. w - 1 \in S
    BY <1>3, <2>1
  <2>3. QED BY <2>1, <2>2
<1>5. QED BY <1>4

\* A coarser wheel's slot is whole turns of every finer wheel.
LEMMA WidthDivides ==
  ASSUME NEW v \in 1..Wheels, NEW w \in 1..Wheels, v < w
  PROVE  \E m \in Nat : Width[w] = Width[v] * (Size(v) * m)
<1> DEFINE S == {n \in Nat : v + 1 + n <= Wheels =>
                   \E m \in Nat : Width[v + 1 + n] = Width[v] * (Size(v) * m)}
<1>0. Wheels \in Nat /\ v \in Nat /\ w \in Nat /\ 1 <= v
  BY WheelAssumption
<1>1. 0 \in S
  <2> SUFFICES ASSUME v + 1 <= Wheels
               PROVE  Width[v + 1] = Width[v] * (Size(v) * 1)
    <3>1. v + 1 + 0 = v + 1
      BY <1>0
    <3>2. QED BY <3>1
  <2>1. v \in 1..Wheels - 1
    BY <1>0
  <2>2. Width[v + 1] = Width[v] * Size(v)
    BY <2>1, WidthIs
  <2>3. Size(v) * 1 = Size(v)
    BY SizeType
  <2>4. QED BY <2>2, <2>3
<1>2. ASSUME NEW n \in S PROVE n + 1 \in S
  <2> SUFFICES ASSUME v + 1 + (n + 1) <= Wheels
               PROVE  \E m \in Nat : Width[v + 1 + (n + 1)] = Width[v] * (Size(v) * m)
    OBVIOUS
  <2> DEFINE k == v + 1 + n
  <2>1. k \in 1..Wheels - 1 /\ k <= Wheels /\ v + 1 + (n + 1) = k + 1
    BY <1>0
  <2>2. PICK m \in Nat : Width[k] = Width[v] * (Size(v) * m)
    BY <1>2, <2>1
  <2> HIDE DEF k
  <2>3. Width[k + 1] = Width[k] * Size(k)
    BY <2>1, WidthIs
  <2>4. Width[v] \in Nat /\ Size(v) \in Nat /\ Size(k) \in Nat
    BY WidthType, SizeType
  <2>5. \A a, b, c \in Nat : (a * (b * m)) * c = a * (b * (m * c)) /\ m * c \in Nat
    OBVIOUS
  <2>6. Width[k + 1] = Width[v] * (Size(v) * (m * Size(k))) /\ m * Size(k) \in Nat
    BY <2>2, <2>3, <2>4, <2>5
  <2>7. QED BY <2>1, <2>6
<1>3. S = Nat
  <2> HIDE DEF S
  <2>1. S \in SUBSET Nat
    BY DEF S
  <2>2. QED BY <1>1, <1>2, <2>1, Induction
<1>4. w - v - 1 \in Nat /\ v + 1 + (w - v - 1) = w /\ w <= Wheels
  BY <1>0
<1>5. w - v - 1 \in S
  BY <1>3, <1>4
<1>6. QED BY <1>4, <1>5

-----------------------------------------------------------------------------
(* The slot of a cell.                                                      *)

\* Where a cell that expires at e is to be when the wheels do tick t next: in the
\* finest wheel only when its hand comes by in this turn, in a coarser one only when
\* the slot is moved down no later than e.
InPlace(at, e, t) ==
  /\ at[2] = Index(at[1], e)
  /\ t <= e
  /\ IF at[1] = 1 THEN e < t + Size(1) ELSE t <= Width[at[1]] * (e \div Width[at[1]])

LEMMA SlotIsPair ==
  ASSUME NEW s \in Slots
  PROVE  s[1] \in 1..Wheels /\ s = <<s[1], s[2]>> /\ s # Free /\ s # Work
BY DEF Slots, Free, Work

LEMMA IndexSlot ==
  ASSUME NEW w \in 1..Wheels, NEW t \in Nat
  PROVE  <<w, Index(w, t)>> \in Slots
<1>1. Width[w] \in Nat \ {0} /\ Size(w) \in Nat \ {0}
  BY WidthType, SizeType
<1>2. PICK q, b : q = t \div Width[w] /\ b = Size(w)
  OBVIOUS
<1>3. q \in Nat /\ b \in Nat \ {0}
  BY <1>1, <1>2
<1>4. q % b \in 0..b - 1
  BY <1>3
<1>5. QED BY <1>2, <1>4 DEF Index, Slots

LEMMA FirstIndex == \A t \in Nat : Index(1, t) = t % Size(1)
BY WidthIs DEF Index

\* The wheel of a distance.
LEMMA WheelForIs ==
  ASSUME NEW d \in Nat
  PROVE  /\ WheelFor(d) \in 1..Wheels
         /\ WheelFor(d) = 1 => d < Size(1)
         /\ WheelFor(d) # 1 => d >= Width[WheelFor(d)]
<1> DEFINE Fits(w) == d < Width[w] * Size(w) \/ w = Wheels
           S == {w \in 1..Wheels : Fits(w)}
<1>0. Wheels \in Nat /\ 1 \in 1..Wheels /\ 1 # Wheels /\ Wheels \in 1..Wheels
  BY WheelAssumption
<1>1. S # {} /\ S \in SUBSET Nat
  BY <1>0
<1>2. PICK w \in S : \A v \in S : w <= v
  <2> HIDE DEF S
  <2>1. QED BY <1>1, Least
<1>3. \A v \in 1..w - 1 : d >= Width[v] * Size(v)
  <2> SUFFICES ASSUME NEW v \in 1..w - 1 PROVE d >= Width[v] * Size(v)
    OBVIOUS
  <2>1. v \in 1..Wheels /\ v \notin S
    BY <1>0, <1>2
  <2>2. ~ (d < Width[v] * Size(v))
    BY <2>1
  <2>3. Width[v] * Size(v) \in Nat
    <3>1. Width[v] \in Nat /\ Size(v) \in Nat
      BY <2>1, WidthType, SizeType
    <3>2. QED BY <3>1
  <2>4. QED BY <2>2, <2>3
<1>4. w \in 1..Wheels /\ Fits(w)
  BY <1>2
<1>5. /\ WheelFor(d) \in 1..Wheels /\ Fits(WheelFor(d))
      /\ \A v \in 1..WheelFor(d) - 1 : d >= Width[v] * Size(v)
  <2>1. \E u \in 1..Wheels : Fits(u) /\ \A v \in 1..(u - 1) : d >= Width[v] * Size(v)
    BY <1>3, <1>4
  <2>2. QED BY <2>1, Zenon DEF WheelFor
<1>6. ASSUME WheelFor(d) = 1 PROVE d < Size(1)
  <2>1. d < Width[1] * Size(1)
    BY <1>0, <1>5, <1>6
  <2>2. QED BY <2>1, WidthIs, SizeType
<1>7. ASSUME WheelFor(d) # 1 PROVE d >= Width[WheelFor(d)]
  <2> DEFINE v == WheelFor(d) - 1
  <2>1. v \in 1..WheelFor(d) - 1 /\ v \in 1..Wheels - 1 /\ v + 1 = WheelFor(d)
    BY <1>0, <1>5, <1>7
  <2>2. d >= Width[v] * Size(v)
    BY <1>5, <2>1
  <2>3. Width[v + 1] = Width[v] * Size(v)
    BY <2>1, WidthIs
  <2>4. QED BY <2>1, <2>2, <2>3
<1>8. QED BY <1>5, <1>6, <1>7

\* internal_add_timer puts a cell where its hand comes by in time; but for the finest
\* wheel, strictly later than now.
LEMMA SlotForPlaces ==
  ASSUME NEW e \in Nat, NEW t \in Nat, t <= e
  PROVE  /\ SlotFor(e, t) \in Slots
         /\ InPlace(SlotFor(e, t), e, t)
         /\ SlotFor(e, t)[1] # 1 => t + 1 <= e /\ InPlace(SlotFor(e, t), e, t + 1)
<1>1. PICK w : w = WheelFor(e - t)
  OBVIOUS
<1>2. SlotFor(e, t) = <<w, Index(w, e)>>
  BY <1>1 DEF SlotFor
<1>3. /\ w \in 1..Wheels
      /\ w = 1 => e - t < Size(1)
      /\ w # 1 => e - t >= Width[w]
  <2>1. e - t \in Nat
    OBVIOUS
  <2>2. QED BY <1>1, <2>1, WheelForIs
<1>4. SlotFor(e, t) \in Slots
  BY <1>2, <1>3, IndexSlot
<1>5. CASE w = 1
  <2>1. e < t + Size(1)
    BY <1>3, <1>5, SizeType
  <2>2. QED BY <1>2, <1>4, <1>5, <2>1 DEF InPlace
<1>6. CASE w # 1
  <2>1. PICK b, q, r : b = Width[w] /\ q = e \div Width[w] /\ r = e % Width[w]
    OBVIOUS
  <2>2. b \in Nat \ {0}
    BY <1>3, <2>1, WidthType
  <2>3. q \in Nat /\ r \in 0..b - 1 /\ e = b * q + r
    <3>1. q = e \div b /\ r = e % b
      BY <2>1
    <3>2. QED BY <2>2, <3>1
  <2>4. b * q \in Nat
    BY <2>2, <2>3
  <2>5. e - t >= b
    BY <1>3, <1>6, <2>1
  <2>6. t + 1 <= b * q /\ t + 1 <= e
    BY <2>2, <2>3, <2>4, <2>5
  <2>7. t <= b * q
    BY <2>4, <2>6
  <2>8. InPlace(<<w, Index(w, e)>>, e, t) /\ InPlace(<<w, Index(w, e)>>, e, t + 1)
    BY <1>6, <2>1, <2>6, <2>7 DEF InPlace
  <2>9. QED BY <1>2, <1>4, <2>6, <2>8
<1>7. QED BY <1>5, <1>6

\* A slot whose hand is at e when it is at the first tick of the slot.
LEMMA SlotBegins ==
  ASSUME NEW w \in 1..Wheels, NEW e \in Nat, NEW t \in Nat,
         t = Width[w] * (e \div Width[w])
  PROVE  /\ Index(w, e) = Index(w, t)
         /\ \A v \in 1..(w - 1) : Index(v, t) = 0
<1>0. Wheels \in Nat
  BY WheelAssumption
<1>1. PICK b, q : b = Width[w] /\ q = e \div Width[w]
  OBVIOUS
<1>2. b \in Nat \ {0}
  BY <1>1, WidthType
<1>3. q \in Nat
  <2>1. q = e \div b
    BY <1>1
  <2>2. QED BY <1>2, <2>1
<1>4. t \div b = q
  <2>1. t = b * q + 0 /\ 0 \in 0..b - 1
    BY <1>1, <1>2, <1>3
  <2>2. QED BY <1>2, <1>3, <2>1, DivUnique
<1>5. Index(w, e) = Index(w, t)
  BY <1>1, <1>4 DEF Index
<1>6. ASSUME NEW v \in 1..(w - 1) PROVE Index(v, t) = 0
  <2>1. v \in 1..Wheels /\ v < w
    BY <1>0
  <2>2. PICK m \in Nat : Width[w] = Width[v] * (Size(v) * m)
    BY <2>1, WidthDivides
  <2>3. PICK a, s : a = Width[v] /\ s = Size(v)
    OBVIOUS
  <2>4. a \in Nat \ {0} /\ s \in Nat \ {0}
    BY <2>1, <2>3, WidthType, SizeType
  <2>5. t = (a * (s * m)) * q
    BY <1>1, <2>2, <2>3
  <2>6. t = a * (s * (m * q)) /\ m * q \in Nat
    BY <1>3, <2>4, <2>5
  <2>7. (t \div a) % s = 0
    BY <2>4, <2>6, WholeTurns
  <2>8. QED BY <2>3, <2>7 DEF Index
<1>7. QED BY <1>5, <1>6

\* One tick of the wheels: a cell that is moved down or stays is in place for the
\* next tick, and the slot that becomes work holds the cells of this tick.
LEMMA TurnPlaces ==
  ASSUME NEW e \in Nat, NEW t \in Nat, NEW at \in Slots, InPlace(at, e, t), NEW new,
         \/ new = SlotFor(e, t)
         \/ /\ new = at
            /\ ~(/\ at[1] > 1
                 /\ \A v \in 1..(at[1] - 1) : Index(v, t) = 0
                 /\ at = <<at[1], Index(at[1], t)>>)
  PROVE  /\ new \in Slots
         /\ new = <<1, Index(1, t)>> => e = t
         /\ new # <<1, Index(1, t)>> => InPlace(new, e, t + 1)
<1>0. t <= e /\ Size(1) \in Nat \ {0}
  BY SizeType DEF InPlace
<1>1. new \in Slots /\ InPlace(new, e, t)
  BY <1>0, SlotForPlaces
<1>2. new[1] \in 1..Wheels /\ new = <<new[1], new[2]>> /\ new[2] = Index(new[1], e)
  BY <1>1, SlotIsPair DEF InPlace
<1>3. CASE new[1] = 1
  <2>1. e < t + Size(1)
    BY <1>1, <1>3 DEF InPlace
  <2>2. new = <<1, Index(1, e)>>
    BY <1>2, <1>3
  <2>3. Index(1, e) = Index(1, t) => e = t
    BY <1>0, <2>1, FirstIndex, SameSlot
  <2>4. new = <<1, Index(1, t)>> => e = t
    BY <2>2, <2>3
  <2>5. new # <<1, Index(1, t)>> => e # t
    BY <2>2
  <2>6. e # t => InPlace(new, e, t + 1)
    <3>1. e # t => t + 1 <= e /\ e < (t + 1) + Size(1)
      BY <1>0, <2>1
    <3>2. QED BY <1>2, <1>3, <3>1 DEF InPlace
  <2>7. QED BY <1>1, <2>4, <2>5, <2>6
<1>4. CASE new[1] # 1
  <2>1. new # <<1, Index(1, t)>>
    BY <1>4
  <2>2. InPlace(new, e, t + 1)
    <3>1. CASE new = SlotFor(e, t)
      BY <1>0, <1>4, <3>1, SlotForPlaces
    <3>2. CASE new = at /\ ~(/\ at[1] > 1
                             /\ \A v \in 1..(at[1] - 1) : Index(v, t) = 0
                             /\ at = <<at[1], Index(at[1], t)>>)
      <4>1. PICK w, b, q, r : w = at[1] /\ b = Width[w] /\ q = e \div b /\ r = e % b
        OBVIOUS
      <4>2. w \in 1..Wheels /\ w > 1 /\ at = <<w, Index(w, e)>>
        BY <1>2, <1>4, <3>2, <4>1
      <4>3. b \in Nat \ {0}
        BY <4>1, <4>2, WidthType
      <4>4. q \in Nat /\ r \in 0..b - 1 /\ e = b * q + r /\ b * q \in Nat
        BY <4>1, <4>3
      <4>5. t <= b * q
        BY <1>1, <3>2, <4>1, <4>2 DEF InPlace
      <4>6. t # b * q
        <5>1. t = b * q => /\ Index(w, e) = Index(w, t)
                           /\ \A v \in 1..(w - 1) : Index(v, t) = 0
          BY <4>1, <4>2, SlotBegins
        <5>2. QED BY <3>2, <4>1, <4>2, <5>1
      <4>7. t + 1 <= b * q /\ t + 1 <= e
        BY <4>4, <4>5, <4>6
      <4>8. QED BY <1>2, <3>2, <4>1, <4>2, <4>7 DEF InPlace
    <3>3. QED BY <3>1, <3>2
  <2>3. QED BY <1>1, <2>1, <2>2
<1>5. QED BY <1>3, <1>4

-----------------------------------------------------------------------------
(* The inductive invariant.                                                 *)

Cell == [ctx : Timers \cup {Null}, expires : Nat, at : Slots \cup {Free, Work}]

\* The wheels are never ahead of the clock, and every cell is in place.
WheelInv ==
  /\ timer_jiffies <= now + 1
  /\ jiffies # Idle => jiffies <= now
  /\ \A c \in Cells :
       /\ cell[c].at \in Slots => InPlace(cell[c].at, cell[c].expires, timer_jiffies)
       /\ cell[c].at = Work => cell[c].expires = timer_jiffies - 1

\* StartTimer stops a timer that has a cell.
Started == \A t \in Timers : m_ev[t] # Null => m_bHaveStart[t]

IInv == TypeOK /\ WheelInv /\ CellsOwned /\ Started

LEMMA Places == Free \notin Slots /\ Work \notin Slots /\ Free # Work
<1>1. Free # Work
  BY DEF Free, Work
<1>2. QED BY <1>1, SlotIsPair

LEMMA TypeFacts ==
  ASSUME TypeOK
  PROVE  /\ now \in Nat /\ timer_jiffies \in Nat /\ now <= MaxTime /\ MaxTime \in Nat
         /\ cell \in [Cells -> Cell]
         /\ \A c \in Cells : /\ cell[c].ctx \in Timers \cup {Null} /\ cell[c].expires \in Nat
                             /\ cell[c].at \in Slots \cup {Free, Work}
         /\ m_ev \in [Timers -> Cells \cup {Null}] /\ m_bHaveStart \in [Timers -> BOOLEAN]
         /\ Null \notin Cells /\ Null \notin Timers
<1>1. cell \in [Cells -> Cell]
  BY DEF TypeOK, Cell
<1>2. ASSUME NEW c \in Cells
      PROVE  /\ cell[c].ctx \in Timers \cup {Null} /\ cell[c].expires \in Nat
             /\ cell[c].at \in Slots \cup {Free, Work}
  <2>1. cell[c] \in Cell
    BY <1>1
  <2>2. QED BY <2>1 DEF Cell
<1>3. MaxTime \in Nat /\ Null \notin Cells /\ Null \notin Timers
  BY WheelAssumption
<1>4. now \in 0..MaxTime /\ timer_jiffies \in 0..(MaxTime + 1)
  BY DEF TypeOK
<1>5. now \in Nat /\ timer_jiffies \in Nat /\ now <= MaxTime
  BY <1>3, <1>4
<1>6. QED BY <1>1, <1>2, <1>3, <1>5 DEF TypeOK

LEMMA FreedCell ==
  ASSUME TypeOK, NEW c \in Cells
  PROVE  /\ Freed(c) \in [Cells -> Cell]
         /\ Empty \in Cell /\ Empty.at = Free /\ Empty.ctx = Null
         /\ \A x \in Cells : Freed(c)[x] = IF x = c THEN Empty ELSE cell[x]
<1>1. Empty \in Cell /\ Empty.at = Free /\ Empty.ctx = Null
  BY DEF Empty, Cell
<1>2. cell \in [Cells -> Cell]
  BY TypeFacts
<1>3. QED BY <1>1, <1>2 DEF Freed

\* A cell goes back to the pool, and the timer it belongs to forgets it.
LEMMA FreeStep ==
  ASSUME IInv, NEW t \in Timers, NEW c \in Cells, m_ev[t] = c, cell' = Freed(c),
         m_ev' = [m_ev EXCEPT ![t] = Null],
         UNCHANGED <<now, timer_jiffies, jiffies>>
  PROVE  /\ cell' \in [Cells -> Cell] /\ m_ev' \in [Timers -> Cells \cup {Null}]
         /\ WheelInv' /\ CellsOwned'
<1>0. TypeOK /\ WheelInv /\ CellsOwned
  BY DEF IInv
<1>1. /\ cell' \in [Cells -> Cell] /\ Empty.at = Free
      /\ \A x \in Cells : cell'[x] = IF x = c THEN Empty ELSE cell[x]
  BY <1>0, FreedCell
<1>2. /\ m_ev' \in [Timers -> Cells \cup {Null}] /\ Null \notin Cells
      /\ \A s \in Timers : m_ev'[s] = IF s = t THEN Null ELSE m_ev[s]
  BY <1>0, TypeFacts
<1>3. ASSUME NEW x \in Cells
      PROVE  /\ cell'[x].at \in Slots =>
                  InPlace(cell'[x].at, cell'[x].expires, timer_jiffies')
             /\ cell'[x].at = Work => cell'[x].expires = timer_jiffies' - 1
  <2>1. CASE x = c
    BY <1>1, <2>1, Places
  <2>2. CASE x # c
    BY <1>0, <1>1, <2>2 DEF WheelInv
  <2>3. QED BY <2>1, <2>2
<1>4. WheelInv'
  <2>1. timer_jiffies' <= now' + 1 /\ (jiffies' # Idle => jiffies' <= now')
    BY <1>0 DEF WheelInv, Idle
  <2>2. QED BY <1>3, <2>1 DEF WheelInv, InPlace, Index
<1>5. ASSUME NEW x \in Cells
      PROVE  /\ cell'[x].at # Free => cell'[x].ctx \in Timers /\ m_ev'[cell'[x].ctx] = x
             /\ \A s \in Timers : m_ev'[s] = x => cell'[x].at # Free /\ cell'[x].ctx = s
  <2>0. /\ cell[c].ctx = t
        /\ cell[x].at # Free => cell[x].ctx \in Timers /\ m_ev[cell[x].ctx] = x
        /\ \A s \in Timers : m_ev[s] = x => cell[x].at # Free /\ cell[x].ctx = s
    BY <1>0 DEF CellsOwned
  <2>1. CASE x = c
    BY <1>1, <1>2, <2>0, <2>1
  <2>2. CASE x # c
    BY <1>1, <1>2, <2>0, <2>2
  <2>3. QED BY <2>1, <2>2
<1>6. QED BY <1>1, <1>2, <1>4, <1>5 DEF CellsOwned

LEMMA StopInv == ASSUME IInv, NEW t \in Timers, StopTimer(t) PROVE IInv'
<1>0. TypeOK /\ m_ev[t] \in Cells
  <2>1. TypeOK
    BY DEF IInv
  <2>2. QED BY <2>1, TypeFacts DEF StopTimer
<1>1. /\ cell' \in [Cells -> Cell] /\ m_ev' \in [Timers -> Cells \cup {Null}]
      /\ WheelInv' /\ CellsOwned'
  <2>1. /\ cell' = Freed(m_ev[t]) /\ m_ev' = [m_ev EXCEPT ![t] = Null]
        /\ UNCHANGED <<now, timer_jiffies, jiffies>>
    BY DEF StopTimer
  <2>2. QED BY <1>0, <2>1, FreeStep
<1>2. TypeOK'
  BY <1>0, <1>1 DEF TypeOK, Cell, StopTimer
<1>3. Started'
  BY <1>0, TypeFacts DEF IInv, Started, StopTimer
<1>4. QED BY <1>1, <1>2, <1>3 DEF IInv

LEMMA RingInv == ASSUME IInv, NEW c \in Cells, Ring(c) PROVE IInv'
<1>0. TypeOK
  BY DEF IInv
<1>1. cell[c].ctx \in Timers /\ m_ev[cell[c].ctx] = c
  BY Places DEF IInv, CellsOwned, Ring
<1>2. /\ cell' \in [Cells -> Cell] /\ m_ev' \in [Timers -> Cells \cup {Null}]
      /\ WheelInv' /\ CellsOwned'
  <2>1. /\ cell' = Freed(c) /\ m_ev' = [m_ev EXCEPT ![cell[c].ctx] = Null]
        /\ UNCHANGED <<now, timer_jiffies, jiffies>>
    BY DEF Ring
  <2>2. QED BY <1>1, <2>1, FreeStep
<1>3. TypeOK'
  <2>1. m_bHaveStart' \in [Timers -> BOOLEAN]
    BY <1>0 DEF TypeOK, Ring
  <2>2. QED BY <1>0, <1>1, <1>2, <2>1 DEF TypeOK, Cell, Ring
<1>4. Started'
  BY <1>0, <1>1, TypeFacts DEF IInv, Started, Ring
<1>5. QED BY <1>2, <1>3, <1>4 DEF IInv

\* StartTimer has stopped the timer that runs: no cell is left with it.
LEMMA StoppedIs ==
  ASSUME IInv, NEW t \in Timers
  PROVE  /\ StoppedCells(t) \in [Cells -> Cell]
         /\ \A x \in Cells : StoppedCells(t)[x] = IF m_ev[t] = x THEN Empty ELSE cell[x]
<1>0. /\ TypeOK /\ cell \in [Cells -> Cell] /\ Null \notin Cells
      /\ m_ev[t] \in Cells \cup {Null}
  BY TypeFacts DEF IInv
<1>1. CASE m_ev[t] = Null
  BY <1>0, <1>1 DEF StoppedCells
<1>2. CASE m_ev[t] # Null
  <2>1. m_ev[t] \in Cells /\ StoppedCells(t) = Freed(m_ev[t])
    BY <1>0, <1>2 DEF IInv, Started, StoppedCells
  <2>2. QED BY <1>0, <2>1, FreedCell
<1>3. QED BY <1>1, <1>2

LEMMA StartInv ==
  ASSUME IInv, NEW t \in Timers, NEW d \in Delays, StartTimer(t, d)
  PROVE  /\ IInv'
         /\ m_ev'[t] \in Cells /\ cell'[m_ev'[t]].expires = now + d
         /\ \A s \in Timers : s # t => m_ev'[s] = m_ev[s]
         /\ \A s \in Timers : s # t /\ m_ev[s] # Null => cell'[m_ev[s]] = cell[m_ev[s]]
<1>0. /\ TypeOK /\ WheelInv /\ CellsOwned
      /\ now \in Nat /\ timer_jiffies \in Nat /\ Null \notin Cells
      /\ d \in Nat \ {0} /\ m_ev \in [Timers -> Cells \cup {Null}]
  BY TypeFacts, WheelAssumption DEF IInv
<1> DEFINE cells == StoppedCells(t)
           e == now + d
<1>1. PICK c \in Cells :
        /\ cells[c].at = Free
        /\ cell' = [cells EXCEPT ![c] = [ctx |-> t, expires |-> e,
                                         at |-> SlotFor(e, timer_jiffies)]]
        /\ m_ev' = [m_ev EXCEPT ![t] = c]
  BY DEF StartTimer
<1>2. /\ cells \in [Cells -> Cell]
      /\ \A x \in Cells : cells[x] = IF m_ev[t] = x THEN Empty ELSE cell[x]
  BY StoppedIs
<1> HIDE DEF cells
<1>3. e \in Nat /\ timer_jiffies <= e /\ timer_jiffies - 1 \in Int
  BY <1>0 DEF WheelInv
<1> DEFINE at == SlotFor(e, timer_jiffies)
           new == [ctx |-> t, expires |-> e, at |-> at]
<1>4. at \in Slots /\ InPlace(at, e, timer_jiffies)
  BY <1>0, <1>3, SlotForPlaces
<1> HIDE DEF e, at
<1>5. new \in Cell /\ new.ctx = t /\ new.expires = e /\ new.at = at
  BY <1>3, <1>4 DEF Cell
<1> HIDE DEF new
<1>6. cell' = [cells EXCEPT ![c] = new]
  BY <1>1 DEF new, at
<1>7. /\ cell' \in [Cells -> Cell]
      /\ \A x \in Cells : cell'[x] = IF x = c THEN new
                                     ELSE IF m_ev[t] = x THEN Empty ELSE cell[x]
  BY <1>2, <1>5, <1>6
<1>8. /\ m_ev' \in [Timers -> Cells \cup {Null}]
      /\ \A s \in Timers : m_ev'[s] = IF s = t THEN c ELSE m_ev[s]
  BY <1>0, <1>1
<1>9. UNCHANGED <<now, timer_jiffies, jiffies>>
  BY DEF StartTimer
<1>10. Empty.at = Free
  BY DEF Empty
<1>11. TypeOK'
  <2>1. m_bHaveStart' \in [Timers -> BOOLEAN] /\ rang' = Null
    BY <1>0 DEF TypeOK, StartTimer
  <2>2. QED BY <1>0, <1>7, <1>8, <1>9, <2>1 DEF TypeOK, Cell
<1>12. WheelInv'
  <2>1. ASSUME NEW x \in Cells
        PROVE  /\ cell'[x].at \in Slots =>
                    InPlace(cell'[x].at, cell'[x].expires, timer_jiffies')
               /\ cell'[x].at = Work => cell'[x].expires = timer_jiffies' - 1
    <3>1. CASE x = c
      BY <1>4, <1>5, <1>7, <1>9, <3>1, Places
    <3>2. CASE x # c /\ m_ev[t] = x
      BY <1>7, <1>10, <3>2, Places
    <3>3. CASE x # c /\ m_ev[t] # x
      BY <1>0, <1>7, <1>9, <3>3 DEF WheelInv
    <3>4. QED BY <3>1, <3>2, <3>3
  <2>2. timer_jiffies' <= now' + 1 /\ (jiffies' # Idle => jiffies' <= now')
    BY <1>0, <1>9 DEF WheelInv, Idle
  <2>3. QED BY <2>1, <2>2 DEF WheelInv, InPlace, Index
<1>13. CellsOwned'
  <2>1. ASSUME NEW x \in Cells
        PROVE  /\ cell'[x].at # Free => cell'[x].ctx \in Timers /\ m_ev'[cell'[x].ctx] = x
               /\ \A s \in Timers : m_ev'[s] = x => cell'[x].at # Free /\ cell'[x].ctx = s
    <3>0. /\ cell[x].at # Free => cell[x].ctx \in Timers /\ m_ev[cell[x].ctx] = x
          /\ \A s \in Timers : m_ev[s] = x => cell[x].at # Free /\ cell[x].ctx = s
      BY <1>0 DEF CellsOwned
    <3>1. CASE x = c
      <4>1. \A s \in Timers : s # t => m_ev[s] # c
        <5>1. cells[c].at = Free
          BY <1>1
        <5>2. QED BY <1>2, <3>0, <3>1, <5>1
      <4>2. at # Free
        BY <1>4, Places
      <4>3. QED BY <1>5, <1>7, <1>8, <3>1, <4>1, <4>2
    <3>2. CASE x # c
      BY <1>7, <1>8, <1>10, <3>0, <3>2
    <3>3. QED BY <3>1, <3>2
  <2>2. QED BY <2>1 DEF CellsOwned
<1>14. Started'
  BY <1>0, <1>1, TypeFacts DEF IInv, Started, StartTimer
<1>15. m_ev'[t] \in Cells /\ cell'[m_ev'[t]].expires = now + d
  BY <1>5, <1>7, <1>8 DEF e
<1>16. ASSUME NEW s \in Timers, s # t, m_ev[s] # Null
       PROVE  cell'[m_ev[s]] = cell[m_ev[s]]
  <2>1. m_ev[s] \in Cells
    BY <1>0, <1>16
  <2>2. cell[m_ev[s]].ctx = s /\ cell[m_ev[s]].at # Free
    BY <1>0, <2>1 DEF CellsOwned
  <2>3. m_ev[t] # m_ev[s]
    BY <1>0, <1>16, <2>1, <2>2 DEF CellsOwned
  <2>4. m_ev[s] # c
    BY <1>1, <1>2, <2>2, <2>3
  <2>5. QED BY <1>7, <2>1, <2>3, <2>4
<1>17. QED BY <1>8, <1>11, <1>12, <1>13, <1>14, <1>15, <1>16 DEF IInv

\* One tick of the wheels leaves every timer with its cell and its time.
LEMMA TurnInv ==
  ASSUME IInv, Turn
  PROVE  /\ IInv'
         /\ \A c \in Cells : cell'[c].expires = cell[c].expires
<1>0. /\ TypeOK /\ WheelInv /\ CellsOwned
      /\ now \in Nat /\ timer_jiffies \in Nat /\ now <= MaxTime /\ MaxTime \in Nat
  BY TypeFacts DEF IInv
<1> DEFINE t == timer_jiffies
           newAt(c) == IF Cascaded(c) = <<1, Index(1, t)>> THEN Work ELSE Cascaded(c)
<1>1. /\ jiffies # Idle /\ jiffies >= t /\ WorkEmpty
      /\ cell' = [c \in Cells |-> [cell[c] EXCEPT !.at = newAt(c)]]
      /\ timer_jiffies' = t + 1
      /\ UNCHANGED <<now, jiffies, m_ev, m_bHaveStart>> /\ rang' = Null
  BY DEF Turn
<1>2. t <= now
  BY <1>0, <1>1 DEF WheelInv, TypeOK, Idle
<1>3. ASSUME NEW c \in Cells
      PROVE  /\ newAt(c) \in Slots \cup {Free, Work}
             /\ newAt(c) = Free <=> cell[c].at = Free
             /\ newAt(c) \in Slots => InPlace(newAt(c), cell[c].expires, t + 1)
             /\ newAt(c) = Work => cell[c].expires = t
  <2>0. /\ cell[c].at \in Slots \cup {Free, Work} /\ cell[c].at # Work
        /\ cell[c].expires \in Nat
        /\ cell[c].at \in Slots => InPlace(cell[c].at, cell[c].expires, t)
    BY <1>0, <1>1, TypeFacts DEF WheelInv, WorkEmpty
  <2>1. CASE cell[c].at = Free
    <3>1. Cascaded(c) = Free
      BY <2>1, WheelAssumption DEF Cascaded, Free
    <3>2. Free # <<1, Index(1, t)>>
      BY DEF Free
    <3>3. newAt(c) = Free
      BY <3>1, <3>2
    <3>4. QED BY <2>1, <3>3, Places
  <2>2. CASE cell[c].at \in Slots
    <3>1. PICK e, at, new : e = cell[c].expires /\ at = cell[c].at /\ new = Cascaded(c)
      OBVIOUS
    <3>2. at[1] \in 1..Wheels /\ at \in Slots /\ e \in Nat /\ InPlace(at, e, t)
      BY <2>0, <2>2, <3>1, SlotIsPair
    <3>3. \/ new = SlotFor(e, t)
          \/ /\ new = at
             /\ ~(/\ at[1] > 1
                  /\ \A v \in 1..(at[1] - 1) : Index(v, t) = 0
                  /\ at = <<at[1], Index(at[1], t)>>)
      BY <3>1, <3>2 DEF Cascaded, Cascades
    <3>4. /\ new \in Slots
          /\ new = <<1, Index(1, t)>> => e = t
          /\ new # <<1, Index(1, t)>> => InPlace(new, e, t + 1)
      BY <1>0, <3>2, <3>3, TurnPlaces
    <3>5. newAt(c) = IF new = <<1, Index(1, t)>> THEN Work ELSE new
      BY <3>1
    <3>6. QED BY <2>2, <3>1, <3>4, <3>5, Places
  <2>3. QED BY <2>0, <2>1, <2>2
<1> HIDE DEF newAt
<1>4. ASSUME NEW c \in Cells
      PROVE  /\ cell'[c] \in Cell
             /\ cell'[c].at = newAt(c) /\ cell'[c].ctx = cell[c].ctx
             /\ cell'[c].expires = cell[c].expires
  <2>1. cell[c] \in Cell
    BY <1>0, TypeFacts
  <2>2. cell'[c] = [cell[c] EXCEPT !.at = newAt(c)]
    BY <1>1
  <2>3. QED BY <1>3, <2>1, <2>2 DEF Cell
<1>5. cell' \in [Cells -> Cell]
  <2>1. cell' = [c \in Cells |-> cell'[c]]
    BY <1>1
  <2>2. QED BY <1>4, <2>1
<1>6. TypeOK'
  <2>1. timer_jiffies' \in 0..(MaxTime + 1)
    BY <1>0, <1>1, <1>2
  <2>2. QED BY <1>0, <1>1, <1>5, <2>1 DEF TypeOK, Cell
<1>7. WheelInv'
  <2>1. ASSUME NEW x \in Cells
        PROVE  /\ cell'[x].at \in Slots =>
                    InPlace(cell'[x].at, cell'[x].expires, timer_jiffies')
               /\ cell'[x].at = Work => cell'[x].expires = timer_jiffies' - 1
    <3>1. t = (t + 1) - 1
      BY <1>0
    <3>2. QED BY <1>1, <1>3, <1>4, <3>1
  <2>2. timer_jiffies' <= now' + 1 /\ (jiffies' # Idle => jiffies' <= now')
    BY <1>0, <1>1, <1>2 DEF WheelInv, Idle
  <2>3. QED BY <2>1, <2>2 DEF WheelInv, InPlace, Index
<1>8. CellsOwned'
  BY <1>0, <1>1, <1>3, <1>4 DEF CellsOwned
<1>9. Started'
  BY <1>1 DEF IInv, Started
<1>10. QED BY <1>4, <1>6, <1>7, <1>8, <1>9 DEF IInv

LEMMA Next1 ==
  ASSUME IInv, Tick \/ run_timer \/ RunEnds
  PROVE  IInv'
<1>0. /\ TypeOK /\ WheelInv /\ now \in Nat /\ timer_jiffies \in Nat /\ MaxTime \in Nat
  BY TypeFacts DEF IInv
<1>1. UNCHANGED <<timer_jiffies, cell, m_ev, m_bHaveStart>> /\ rang' = Null
  BY DEF Tick, run_timer, RunEnds
<1>2. /\ now' \in 0..MaxTime /\ now' >= now
      /\ jiffies' \in 0..MaxTime \cup {Idle} /\ (jiffies' # Idle => jiffies' <= now')
  BY <1>0 DEF Tick, run_timer, RunEnds, TypeOK, WheelInv, Idle
<1>3. TypeOK'
  BY <1>0, <1>1, <1>2 DEF TypeOK
<1>4. WheelInv'
  <2>1. timer_jiffies' <= now' + 1
    BY <1>0, <1>1, <1>2 DEF WheelInv
  <2>2. QED BY <1>0, <1>1, <1>2, <2>1 DEF WheelInv, InPlace, Index, Idle
<1>5. CellsOwned' /\ Started'
  BY <1>1 DEF IInv, CellsOwned, Started
<1>6. QED BY <1>3, <1>4, <1>5 DEF IInv

LEMMA InvNext == IInv /\ [Next]_vars => IInv'
<1> SUFFICES ASSUME IInv, [Next]_vars PROVE IInv'
  OBVIOUS
<1>1. CASE Next
  BY <1>1, Next1, TurnInv, RingInv, StopInv, StartInv DEF Next
<1>2. CASE UNCHANGED vars
  BY <1>2 DEF vars, IInv, TypeOK, WheelInv, CellsOwned, Started, InPlace, Index, Idle
<1>3. QED BY <1>1, <1>2

LEMMA InvInit == Init => IInv
<1> SUFFICES ASSUME Init PROVE IInv
  OBVIOUS
<1>1. \A c \in Cells : cell[c] = Empty
  BY DEF Init
<1>2. Empty \in Cell /\ Empty.at = Free /\ Null \notin Cells
  BY WheelAssumption DEF Empty, Cell
<1>3. now \in Nat
  BY SizeType DEF Init
<1>4. TypeOK
  <2>1. MaxTime \in Nat /\ now <= MaxTime
    BY WheelAssumption DEF Init
  <2>2. now \in 0..MaxTime /\ timer_jiffies \in 0..(MaxTime + 1)
    BY <1>3, <2>1 DEF Init
  <2>3. cell \in [Cells -> Cell]
    BY <1>2 DEF Init
  <2>4. QED BY <2>2, <2>3 DEF Init, TypeOK, Cell
<1>5. WheelInv /\ CellsOwned /\ Started
  BY <1>1, <1>2, <1>3, Places DEF Init, WheelInv, CellsOwned, Started, Idle
<1>6. QED BY <1>4, <1>5 DEF IInv

\* The clock, the wheels, the pool and the timers keep their types.
THEOREM WheelTypes == Spec => []TypeOK
BY InvInit, InvNext, PTL DEF Spec, IInv

\* However late run_timer is called, and whatever callbacks start or stop, no timer
\* is passed over by the hands (internal_add_timer, cascade and run_stimer_list in
\* GameLib/mtimer.c).
THEOREM NoneIsPassed == Spec => []NonePassed
<1>1. ASSUME IInv PROVE NonePassed
  <2>1. ASSUME NEW c \in Cells
        PROVE  /\ cell[c].at \in Slots => cell[c].expires >= timer_jiffies
               /\ cell[c].at = Work => cell[c].expires = timer_jiffies - 1
    <3>1. cell[c].expires \in Nat /\ timer_jiffies \in Nat
      BY <1>1, TypeFacts DEF IInv
    <3>2. QED BY <1>1, <3>1 DEF IInv, WheelInv, InPlace
  <2>2. QED BY <2>1 DEF NonePassed
<1>2. IInv => NonePassed
  BY <1>1
<1>3. QED BY <1>2, InvInit, InvNext, PTL DEF Spec

\* Every cell that is out of the pool belongs to one timer, which knows it
\* (start_timer, stop_timer and on_timer in GameLib/timer.c).
THEOREM CellsHaveOwners == Spec => []CellsOwned
BY InvInit, InvNext, PTL DEF Spec, IInv

-----------------------------------------------------------------------------
(* The wheels implement Alarms.                                             *)

LEMMA SameDeadlines ==
  ASSUME IInv, m_ev' = m_ev, \A c \in Cells : cell'[c].expires = cell[c].expires
  PROVE  Deadline' = Deadline
<1>1. m_ev \in [Timers -> Cells \cup {Null}]
  BY TypeFacts DEF IInv
<1>2. \A t \in Timers : m_ev[t] # Null => m_ev[t] \in Cells
  BY <1>1
<1>3. QED BY <1>2 DEF Deadline

LEMMA DeadlineOff ==
  ASSUME IInv, NEW t \in Timers, NEW c \in Cells, m_ev[t] = c, cell' = Freed(c),
         m_ev' = [m_ev EXCEPT ![t] = Null]
  PROVE  Deadline' = [Deadline EXCEPT ![t] = -1]
<1>1. /\ m_ev \in [Timers -> Cells \cup {Null}] /\ TypeOK /\ CellsOwned
  BY TypeFacts DEF IInv
<1>2. \A x \in Cells : cell'[x] = IF x = c THEN Empty ELSE cell[x]
  BY <1>1, FreedCell
<1>3. ASSUME NEW s \in Timers
      PROVE  Deadline'[s] = IF s = t THEN -1 ELSE Deadline[s]
  <2>1. m_ev'[s] = IF s = t THEN Null ELSE m_ev[s]
    BY <1>1
  <2>2. s # t => m_ev[s] # c
    BY <1>1 DEF CellsOwned
  <2>3. m_ev[s] # Null => m_ev[s] \in Cells
    BY <1>1
  <2>4. Deadline'[s] = IF m_ev'[s] = Null THEN -1 ELSE cell'[m_ev'[s]].expires
    BY DEF Deadline
  <2>5. QED BY <1>2, <2>1, <2>2, <2>3, <2>4 DEF Deadline
<1>4. QED
  <2>1. DOMAIN Deadline = Timers /\ Deadline' = [s \in Timers |-> Deadline'[s]]
    BY DEF Deadline
  <2>2. QED BY <1>3, <2>1

\* The cell on the work list is of the tick before the one the wheels do next, and
\* every other cell is not earlier.
LEMMA RingRefines ==
  ASSUME IInv, NEW c \in Cells, Ring(c)
  PROVE  \E t \in Timers :
           /\ Deadline[t] # -1 /\ Deadline[t] <= now
           /\ \A s \in Timers : Deadline[s] # -1 => Deadline[t] <= Deadline[s]
           /\ Deadline' = [Deadline EXCEPT ![t] = -1]
           /\ rang' = t /\ now' = now
<1>0. /\ TypeOK /\ WheelInv /\ CellsOwned /\ now \in Nat /\ timer_jiffies \in Nat
      /\ m_ev \in [Timers -> Cells \cup {Null}] /\ Null \notin Cells
  BY TypeFacts DEF IInv
<1>1. cell[c].ctx \in Timers /\ m_ev[cell[c].ctx] = c /\ cell[c].at = Work
  BY <1>0, Places DEF CellsOwned, Ring
<1> DEFINE t == cell[c].ctx
<1>2. t \in Timers /\ m_ev[t] = c /\ rang' = t /\ now' = now
  BY <1>1 DEF Ring
<1>3. Deadline' = [Deadline EXCEPT ![t] = -1]
  <2>1. cell' = Freed(c) /\ m_ev' = [m_ev EXCEPT ![t] = Null]
    BY DEF Ring
  <2> HIDE DEF t
  <2>2. QED BY <1>2, <2>1, DeadlineOff
<1> HIDE DEF t
<1>4. Deadline[t] = cell[c].expires /\ cell[c].expires = timer_jiffies - 1
      /\ cell[c].expires \in Nat
  BY <1>0, <1>1, <1>2, TypeFacts DEF Deadline, WheelInv
<1>5. Deadline[t] # -1 /\ Deadline[t] <= now
  BY <1>0, <1>4 DEF WheelInv
<1>6. ASSUME NEW s \in Timers, Deadline[s] # -1 PROVE Deadline[t] <= Deadline[s]
  <2>1. m_ev[s] \in Cells /\ Deadline[s] = cell[m_ev[s]].expires
    BY <1>0, <1>6 DEF Deadline
  <2>2. PICK x \in Cells : x = m_ev[s]
    BY <2>1
  <2>3. /\ cell[x].at \in Slots \cup {Work} /\ cell[x].expires \in Nat
    BY <1>0, <2>2, TypeFacts DEF CellsOwned
  <2>4. cell[x].expires >= timer_jiffies - 1
    <3>1. CASE cell[x].at = Work
      BY <1>0, <2>3, <3>1 DEF WheelInv
    <3>2. CASE cell[x].at \in Slots
      BY <1>0, <2>3, <3>2 DEF WheelInv, InPlace
    <3>3. QED BY <2>3, <3>1, <3>2
  <2>5. QED BY <1>0, <1>4, <2>1, <2>2, <2>3, <2>4
<1>7. QED BY <1>2, <1>3, <1>5, <1>6

LEMMA StartRefines ==
  ASSUME IInv, NEW t \in Timers, NEW d \in Delays, StartTimer(t, d)
  PROVE  Deadline' = [Deadline EXCEPT ![t] = now + d] /\ rang' = Null /\ now' = now
<1>0. m_ev \in [Timers -> Cells \cup {Null}] /\ Null \notin Cells
  BY TypeFacts DEF IInv
<1>1. /\ m_ev'[t] \in Cells /\ cell'[m_ev'[t]].expires = now + d
      /\ \A s \in Timers : s # t => m_ev'[s] = m_ev[s]
      /\ \A s \in Timers : s # t /\ m_ev[s] # Null => cell'[m_ev[s]] = cell[m_ev[s]]
  BY StartInv
<1>2. ASSUME NEW s \in Timers
      PROVE  Deadline'[s] = IF s = t THEN now + d ELSE Deadline[s]
  <2>1. Deadline'[s] = IF m_ev'[s] = Null THEN -1 ELSE cell'[m_ev'[s]].expires
    BY DEF Deadline
  <2>2. QED BY <1>0, <1>1, <2>1 DEF Deadline
<1>3. QED BY <1>2 DEF Deadline, StartTimer

LEMMA InitRefines == Init => Promise!Init
<1> SUFFICES ASSUME Init PROVE Promise!Init
  OBVIOUS
<1>1. now \in Nat
  BY SizeType DEF Init
<1>2. Deadline = [t \in Timers |-> -1]
  BY DEF Init, Deadline
<1>3. QED BY <1>1, <1>2 DEF Init, Promise!Init, Promise!Off

LEMMA NextRefines == IInv /\ [Next]_vars => [Promise!Next]_(Promise!vars)
<1> SUFFICES ASSUME IInv, [Next]_vars PROVE [Promise!Next]_(Promise!vars)
  OBVIOUS
<1>1. CASE Tick
  <2>1. Deadline' = Deadline /\ now' = now + 1 /\ rang' = Null
    BY <1>1 DEF Tick, Deadline
  <2>2. QED BY <2>1 DEF Promise!Next, Promise!Tick
<1>2. CASE run_timer \/ RunEnds \/ Turn
  <2>1. m_ev' = m_ev /\ now' = now /\ rang' = Null
    BY <1>2 DEF run_timer, RunEnds, Turn
  <2>2. \A c \in Cells : cell'[c].expires = cell[c].expires
    <3>1. CASE Turn
      BY <3>1, TurnInv
    <3>2. CASE run_timer \/ RunEnds
      BY <3>2 DEF run_timer, RunEnds
    <3>3. QED BY <1>2, <3>1, <3>2
  <2>3. Deadline' = Deadline
    BY <2>1, <2>2, SameDeadlines
  <2>4. QED BY <2>1, <2>3 DEF Promise!Next, Promise!Silence
<1>3. CASE \E c \in Cells : Ring(c)
  <2>1. PICK t \in Timers :
          /\ Deadline[t] # -1 /\ Deadline[t] <= now
          /\ \A s \in Timers : Deadline[s] # -1 => Deadline[t] <= Deadline[s]
          /\ Deadline' = [Deadline EXCEPT ![t] = -1]
          /\ rang' = t /\ now' = now
    BY <1>3, RingRefines
  <2>2. Promise!Ring(t)
    BY <2>1 DEF Promise!Ring, Promise!Off
  <2>3. QED BY <2>2 DEF Promise!Next
<1>4. ASSUME NEW t \in Timers, StopTimer(t) PROVE [Promise!Next]_(Promise!vars)
  <2>1. m_ev[t] \in Cells
    BY <1>4, TypeFacts DEF IInv, StopTimer
  <2>2. /\ cell' = Freed(m_ev[t]) /\ m_ev' = [m_ev EXCEPT ![t] = Null]
        /\ rang' = Null /\ now' = now
    BY <1>4 DEF StopTimer
  <2>3. Deadline' = [Deadline EXCEPT ![t] = -1]
    BY <2>1, <2>2, DeadlineOff
  <2>4. Promise!Stop(t)
    BY <2>2, <2>3 DEF Promise!Stop, Promise!Off
  <2>5. QED BY <2>4 DEF Promise!Next
<1>5. ASSUME NEW t \in Timers, NEW d \in Delays, StartTimer(t, d)
      PROVE  [Promise!Next]_(Promise!vars)
  <2>1. Promise!Start(t, d)
    BY <1>5, StartRefines DEF Promise!Start
  <2>2. QED BY <2>1 DEF Promise!Next
<1>6. CASE UNCHANGED vars
  BY <1>6 DEF vars, Promise!vars, Deadline
<1>7. QED BY <1>1, <1>2, <1>3, <1>4, <1>5, <1>6 DEF Next

\* The hierarchy of wheels is a set of alarms: a timer that is started rings once,
\* not before its time and never before one that is due earlier, unless it is
\* stopped or started anew, for any number of wheels and slots (TimerEvent over
\* timer.c and mtimer.c).
THEOREM WheelsImplementAlarms == Spec => ImplementsAlarms
BY InvInit, InvNext, InitRefines, NextRefines, PTL DEF Spec, ImplementsAlarms, Promise!Spec
=============================================================================
