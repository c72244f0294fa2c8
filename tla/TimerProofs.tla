---------------------------- MODULE TimerProofs -----------------------------
(***************************************************************************)
(* The timing wheels of core/ax_timer.cc keep every deadline, for any      *)
(* number of wheels and of slots per wheel.                                *)
(*                                                                         *)
(* A tick is a number written with one digit (slot) per wheel.  A timer    *)
(* waits on the highest wheel where its digit differs from that of the     *)
(* current tick; a carry in the current tick changes this for exactly the  *)
(* timers process_tick moves.                                              *)
(***************************************************************************)
EXTENDS Timer, WellFoundedInduction, TLAPS

(* A set of numbers has a least one.                                       *)
LEMMA NatMin ==
  ASSUME NEW T \in SUBSET Nat, T # {}
  PROVE  \E x \in T : \A y \in T : x <= y
<1> DEFINE R == OpToRel(<, Nat)
<1>1. IsWellFoundedOn(R, Nat)
  BY NatLessThanWellFounded
<1>2. \A x, y \in Nat : x < y => <<x, y>> \in R
  BY DEF OpToRel
<1> HIDE DEF R
<1>3. PICK x \in T : \A y \in T : ~(<<y, x>> \in R)
  BY <1>1, WFMin
<1>4. \A y \in T : ~(y < x)
  BY <1>2, <1>3
<1>5. \A y \in T : x <= y
  BY <1>4
<1> QED BY <1>5

(* Induction, with a set for the property.                                 *)
LEMMA NatInd ==
  ASSUME NEW I, 0 \in I, \A n \in Nat : n \in I => n + 1 \in I
  PROVE  Nat \subseteq I
<1> SUFFICES ASSUME Nat \ I # {} PROVE FALSE
  OBVIOUS
<1>1. Nat \ I \in SUBSET Nat
  OBVIOUS
<1>2. PICK x \in Nat \ I : \A y \in Nat \ I : x <= y
  BY <1>1, NatMin
<1>3. x # 0 /\ x - 1 \in Nat /\ (x - 1) + 1 = x
  BY <1>2
<1>4. x - 1 \in I
  BY <1>2, <1>3
<1> QED BY <1>2, <1>3, <1>4

(* Quotient and remainder.                                                 *)
LEMMA DivMod ==
  ASSUME NEW a \in Nat, NEW m \in Nat \ {0}
  PROVE  /\ a \div m \in Nat /\ a % m \in Nat /\ a % m < m
         /\ a = (a \div m) * m + (a % m)
<1> DEFINE q == a \div m
           r == a % m
<1>1. q \in Int /\ r \in Int /\ 0 <= r /\ r < m /\ a = q * m + r
  OBVIOUS
<1> HIDE DEF q, r
<1>2. q >= 0
  <2> SUFFICES ASSUME q < 0 PROVE FALSE
    BY <1>1
  <2>1. q * m <= -m
    BY <1>1
  <2> QED BY <1>1, <2>1
<1> QED BY <1>1, <1>2 DEF q, r

(* They are the only ones.                                                 *)
LEMMA DivUnique ==
  ASSUME NEW m \in Nat \ {0}, NEW q \in Nat, NEW r \in Nat, r < m
  PROVE  (q * m + r) \div m = q /\ (q * m + r) % m = r
OBVIOUS

(* Division keeps the order.                                               *)
LEMMA DivMonotone ==
  ASSUME NEW a \in Nat, NEW b \in Nat, NEW m \in Nat \ {0}, a >= b
  PROVE  a \div m >= b \div m
<1> DEFINE qa == a \div m
           ra == a % m
           qb == b \div m
           rb == b % m
<1>1. qa \in Nat /\ ra \in Nat /\ ra < m /\ a = qa * m + ra
  BY DivMod
<1>2. qb \in Nat /\ rb \in Nat /\ rb < m /\ b = qb * m + rb
  BY DivMod
<1> HIDE DEF qa, ra, qb, rb
<1>3. ASSUME qa < qb PROVE FALSE
  <2>1. qb = qa + 1 + (qb - qa - 1) /\ qb - qa - 1 \in Nat
    BY <1>1, <1>2, <1>3
  <2>2. PICK k \in Nat : k = qb - qa - 1
    BY <2>1
  <2>3. qb * m = qa * m + m + k * m
    BY <1>1, <1>2, <2>1, <2>2
  <2>4. k * m >= 0
    BY <2>2
  <2> QED BY <1>1, <1>2, <2>3, <2>4
<1> QED BY <1>1, <1>2, <1>3 DEF qa, qb

(* Ticks in the same round of a wheel compare by their slots.              *)
LEMMA SameQuotient ==
  ASSUME NEW a \in Nat, NEW b \in Nat, NEW m \in Nat \ {0}, a \div m = b \div m
  PROVE  (a > b <=> a % m > b % m) /\ (a = b <=> a % m = b % m)
<1> DEFINE q == a \div m
           ra == a % m
           rb == b % m
<1>1. q \in Nat /\ ra \in Nat /\ a = q * m + ra
  BY DivMod
<1>2. rb \in Nat /\ b = q * m + rb
  BY DivMod
<1> HIDE DEF q, ra, rb
<1>3. q * m \in Nat
  BY <1>1
<1> QED BY <1>1, <1>2, <1>3 DEF ra, rb

(* The next tick is in the next slot, or in slot 0 of the next round.      *)
LEMMA DivSucc ==
  ASSUME NEW a \in Nat, NEW m \in Nat \ {0}
  PROVE  IF (a % m) + 1 < m
         THEN (a + 1) \div m = a \div m /\ (a + 1) % m = (a % m) + 1
         ELSE (a % m) + 1 = m /\ (a + 1) \div m = (a \div m) + 1 /\ (a + 1) % m = 0
<1> DEFINE q == a \div m
           r == a % m
<1>1. q \in Nat /\ r \in Nat /\ r < m /\ a = q * m + r
  BY DivMod
<1> HIDE DEF q, r
<1>2. CASE r + 1 < m
  <2>1. a + 1 = q * m + (r + 1) /\ r + 1 \in Nat
    BY <1>1
  <2>2. (q * m + (r + 1)) \div m = q /\ (q * m + (r + 1)) % m = r + 1
    BY <1>1, <1>2, <2>1, DivUnique
  <2> QED BY <1>2, <2>1, <2>2 DEF q, r
<1>3. CASE ~(r + 1 < m)
  <2>1. r + 1 = m
    BY <1>1, <1>3
  <2>2. a + 1 = (q + 1) * m + 0 /\ q + 1 \in Nat /\ 0 < m /\ 0 \in Nat
    BY <1>1, <2>1
  <2>3. ((q + 1) * m + 0) \div m = q + 1 /\ ((q + 1) * m + 0) % m = 0
    BY <2>2, DivUnique
  <2> QED BY <1>3, <2>1, <2>2, <2>3 DEF q, r
<1> QED BY <1>2, <1>3 DEF r

(* The loop of which_slot computes something (ax_timer.cc:53-56): the      *)
(* function that defines Rest exists.                                      *)
LEMMA RestsExist ==
  ASSUME NEW t, NEW n \in Nat
  PROVE  \E r : r = [k \in 0 .. n |-> IF k = 0 THEN t ELSE r[k - 1] \div SLOT_PER_WHEEL]
<1> DEFINE Sat(m, r) == r = [k \in 0 .. m |-> IF k = 0 THEN t ELSE r[k - 1] \div SLOT_PER_WHEEL]
           I == {m \in Nat : \E r : Sat(m, r)}
<1>1. 0 \in I
  <2> DEFINE r == [k \in 0 .. 0 |-> t]
  <2>1. Sat(0, r)
    OBVIOUS
  <2> QED BY <2>1
<1>2. ASSUME NEW m \in Nat, m \in I  PROVE m + 1 \in I
  <2>1. PICK r : Sat(m, r)
    BY <1>2
  <2> DEFINE s == [k \in 0 .. m + 1 |-> IF k = m + 1 THEN r[m] \div SLOT_PER_WHEEL ELSE r[k]]
  <2>2. ASSUME NEW k \in 0 .. m + 1
        PROVE  s[k] = IF k = 0 THEN t ELSE s[k - 1] \div SLOT_PER_WHEEL
    <3>1. CASE k = m + 1
      <4>1. s[k] = r[m] \div SLOT_PER_WHEEL /\ k - 1 = m /\ m \in 0 .. m + 1 /\ m # m + 1 /\ k # 0
        BY <3>1
      <4>2. s[k - 1] = r[m]
        BY <4>1
      <4> QED BY <4>1, <4>2
    <3>2. CASE k # m + 1
      <4>1. k \in 0 .. m /\ s[k] = r[k]
        BY <3>2
      <4>2. k # 0 => k - 1 \in 0 .. m + 1 /\ k - 1 # m + 1
        BY <4>1
      <4>3. r[k] = IF k = 0 THEN t ELSE r[k - 1] \div SLOT_PER_WHEEL
        BY <2>1, <4>1
      <4>4. k # 0 => s[k - 1] = r[k - 1]
        BY <4>2
      <4> QED BY <4>1, <4>3, <4>4
    <3> QED BY <3>1, <3>2
  <2>3. Sat(m + 1, s)
    <3>1. s = [k \in 0 .. m + 1 |-> s[k]]
      OBVIOUS
    <3> HIDE DEF s
    <3> QED BY <2>2, <3>1
  <2> HIDE DEF Sat
  <2>4. m + 1 \in Nat /\ \E x : Sat(m + 1, x)
    BY <2>3
  <2> QED BY <2>4
<1> HIDE DEF I
<1>3. Nat \subseteq I
  BY <1>1, <1>2, NatInd
<1> QED BY <1>3 DEF I

(* What which_slot divides on each wheel (ax_timer.cc:53-56).              *)
LEMMA RestIs ==
  ASSUME NEW t
  PROVE  /\ Rest(t, 0) = t
         /\ \A k \in 1 .. TOTAL_WHEEL : Rest(t, k) = Rest(t, k - 1) \div SLOT_PER_WHEEL
<1> DEFINE r == CHOOSE r : r = [k \in 0 .. TOTAL_WHEEL |->
                                  IF k = 0 THEN t ELSE r[k - 1] \div SLOT_PER_WHEEL]
<1>1. \A i : Rest(t, i) = r[i]
  BY DEF Rest
<1>2. TOTAL_WHEEL \in Nat
  BY WheelAssumption
<1>3. r = [k \in 0 .. TOTAL_WHEEL |-> IF k = 0 THEN t ELSE r[k - 1] \div SLOT_PER_WHEEL]
  BY <1>2, RestsExist
<1> HIDE DEF r
<1>4. r[0] = t
  BY <1>2, <1>3
<1>5. \A k \in 1 .. TOTAL_WHEEL : k \in 0 .. TOTAL_WHEEL /\ k # 0
  BY <1>2
<1>6. \A k \in 1 .. TOTAL_WHEEL : r[k] = r[k - 1] \div SLOT_PER_WHEEL
  BY <1>3, <1>5
<1> QED BY <1>1, <1>4, <1>6

(* Induction from lo up to hi.                                             *)
LEMMA UpTo ==
  ASSUME NEW I, NEW lo \in Nat, NEW hi \in Nat, lo \in I,
         \A k \in lo .. hi - 1 : k \in I => k + 1 \in I
  PROVE  \A k \in lo .. hi : k \in I
<1> DEFINE J == {n \in Nat : n < lo \/ n > hi \/ n \in I}
<1>1. 0 \in J
  OBVIOUS
<1>2. ASSUME NEW n \in Nat, n \in J  PROVE n + 1 \in J
  <2>1. CASE n + 1 < lo \/ n + 1 > hi
    BY <2>1
  <2>2. CASE n + 1 = lo
    BY <2>2
  <2>3. CASE n + 1 > lo /\ n + 1 <= hi
    <3>1. n \in lo .. hi - 1 /\ n \in I
      BY <1>2, <2>3
    <3>2. n + 1 \in I
      BY <3>1
    <3> QED BY <3>2
  <2> QED BY <2>1, <2>2, <2>3
<1> HIDE DEF J
<1>3. Nat \subseteq J
  BY <1>1, <1>2, NatInd
<1> QED BY <1>3 DEF J

(* The loop stays in the numbers.                                          *)
LEMMA RestNat ==
  ASSUME NEW t \in Nat
  PROVE  \A k \in 0 .. TOTAL_WHEEL : Rest(t, k) \in Nat
<1> DEFINE I == {k \in Nat : Rest(t, k) \in Nat}
<1>1. 0 \in I
  BY RestIs
<1>2. ASSUME NEW k \in 0 .. TOTAL_WHEEL - 1, k \in I  PROVE k + 1 \in I
  <2>1. k + 1 \in 1 .. TOTAL_WHEEL /\ (k + 1) - 1 = k /\ SLOT_PER_WHEEL \in Nat \ {0}
    BY WheelAssumption
  <2>2. Rest(t, k + 1) = Rest(t, k) \div SLOT_PER_WHEEL
    <3>1. PICK j \in 1 .. TOTAL_WHEEL : j = k + 1 /\ j - 1 = k
      BY <2>1
    <3>2. Rest(t, j) = Rest(t, j - 1) \div SLOT_PER_WHEEL
      BY RestIs
    <3> QED BY <3>1, <3>2
  <2>3. Rest(t, k) \in Nat /\ k + 1 \in Nat
    BY <1>2
  <2>4. Rest(t, k) \div SLOT_PER_WHEEL \in Nat
    BY <2>1, <2>3, DivMod
  <2> QED BY <2>2, <2>3, <2>4
<1> HIDE DEF I
<1>3. \A k \in 0 .. TOTAL_WHEEL : k \in I
  BY <1>1, <1>2, UpTo, WheelAssumption
<1> QED BY <1>3 DEF I

(* One round of the loop (ax_timer.cc:54-55).                              *)
LEMMA RestStep ==
  ASSUME NEW t \in Nat, NEW k \in Wheel
  PROVE  /\ Rest(t, k) \in Nat /\ Rest(t, k + 1) \in Nat
         /\ Rest(t, k + 1) = Rest(t, k) \div SLOT_PER_WHEEL
         /\ Slot(t, k) = Rest(t, k) % SLOT_PER_WHEEL
         /\ Slot(t, k) \in 0 .. SLOT_PER_WHEEL - 1
<1>1. /\ k \in 0 .. TOTAL_WHEEL /\ k + 1 \in 0 .. TOTAL_WHEEL /\ k + 1 \in 1 .. TOTAL_WHEEL
      /\ (k + 1) - 1 = k /\ SLOT_PER_WHEEL \in Nat \ {0}
  BY WheelAssumption DEF Wheel
<1>2. Rest(t, k) \in Nat /\ Rest(t, k + 1) \in Nat
  BY <1>1, RestNat
<1>3. Rest(t, k + 1) = Rest(t, k) \div SLOT_PER_WHEEL
  BY <1>1, RestIs
<1>4. Rest(t, k) % SLOT_PER_WHEEL \in Nat /\ Rest(t, k) % SLOT_PER_WHEEL < SLOT_PER_WHEEL
  BY <1>1, <1>2, DivMod
<1> QED BY <1>1, <1>2, <1>3, <1>4 DEF Slot

(* A later tick is not behind on any wheel.                                *)
LEMMA RestMonotone ==
  ASSUME NEW x \in Nat, NEW y \in Nat, x >= y
  PROVE  \A k \in 0 .. TOTAL_WHEEL : Rest(x, k) >= Rest(y, k)
<1> DEFINE I == {k \in Nat : Rest(x, k) >= Rest(y, k)}
<1>1. 0 \in I
  BY RestIs
<1>2. ASSUME NEW k \in 0 .. TOTAL_WHEEL - 1, k \in I  PROVE k + 1 \in I
  <2>1. k \in Wheel /\ SLOT_PER_WHEEL \in Nat \ {0} /\ k + 1 \in Nat
    BY WheelAssumption DEF Wheel
  <2>2. /\ Rest(x, k) \in Nat /\ Rest(x, k + 1) = Rest(x, k) \div SLOT_PER_WHEEL
        /\ Rest(y, k) \in Nat /\ Rest(y, k + 1) = Rest(y, k) \div SLOT_PER_WHEEL
    BY <2>1, RestStep
  <2>3. Rest(x, k) >= Rest(y, k)
    BY <1>2
  <2>4. Rest(x, k + 1) >= Rest(y, k + 1)
    BY <2>1, <2>2, <2>3, DivMonotone
  <2> QED BY <2>1, <2>4
<1> HIDE DEF I
<1>3. \A k \in 0 .. TOTAL_WHEEL : k \in I
  BY <1>1, <1>2, UpTo, WheelAssumption
<1> QED BY <1>3 DEF I

(* Ticks that agree on a wheel agree on those above.                       *)
LEMMA RestSame ==
  ASSUME NEW x \in Nat, NEW y \in Nat, NEW k \in 0 .. TOTAL_WHEEL, Rest(x, k) = Rest(y, k)
  PROVE  \A j \in k .. TOTAL_WHEEL : Rest(x, j) = Rest(y, j)
<1> DEFINE I == {j \in Nat : Rest(x, j) = Rest(y, j)}
<1>1. k \in I /\ k \in Nat /\ TOTAL_WHEEL \in Nat
  BY WheelAssumption
<1>2. ASSUME NEW j \in k .. TOTAL_WHEEL - 1, j \in I  PROVE j + 1 \in I
  <2>1. j \in Wheel /\ j + 1 \in Nat
    BY WheelAssumption DEF Wheel
  <2>2. /\ Rest(x, j + 1) = Rest(x, j) \div SLOT_PER_WHEEL
        /\ Rest(y, j + 1) = Rest(y, j) \div SLOT_PER_WHEEL
    BY <2>1, RestStep
  <2> QED BY <1>2, <2>1, <2>2
<1> HIDE DEF I
<1>3. \A j \in k .. TOTAL_WHEEL : j \in I
  BY <1>1, <1>2, UpTo
<1> QED BY <1>3 DEF I

(* The slots of tick y on all wheels.                                      *)
Digits(y) == [i \in Wheel |-> Slot(y, i)]

(* Wheel w is the highest on which x and y differ, the lowest if none is.  *)
Top(x, y, w) ==
  Rest(x, w + 1) = Rest(y, w + 1) /\ (w = 0 \/ Rest(x, w) > Rest(y, w))

(* which_slot compares slots from the highest wheel down, and so finds the *)
(* highest on which the ticks differ (ax_timer.cc:59-62).                  *)
LEMMA WhichWheelIs ==
  ASSUME NEW x \in Nat, NEW y \in Nat, x >= y, NEW w \in Wheel, Top(x, y, w)
  PROVE  WhichWheel(x, Digits(y)) = w
<1> DEFINE ahead == {i \in Wheel : Slot(x, i) > Digits(y)[i]}
<1>1. SLOT_PER_WHEEL \in Nat \ {0} /\ TOTAL_WHEEL \in Nat /\ w \in Nat
  BY WheelAssumption DEF Wheel
<1>2. ASSUME NEW i \in Wheel, i > w  PROVE i \notin ahead
  <2>1. w + 1 \in 0 .. TOTAL_WHEEL /\ i \in w + 1 .. TOTAL_WHEEL
    BY <1>1, <1>2 DEF Wheel
  <2>2. Rest(x, i) = Rest(y, i)
    BY <2>1, RestSame DEF Top
  <2>3. Slot(x, i) = Slot(y, i) /\ Slot(x, i) \in Int
    BY <2>2, RestStep DEF Slot
  <2> QED BY <2>3 DEF Digits
<1>3. \A i \in ahead : w >= i
  BY <1>1, <1>2 DEF Wheel
<1>4. CASE Rest(x, w) > Rest(y, w)
  <2>1. Slot(x, w) > Slot(y, w)
    <3>1. /\ Rest(x, w) \in Nat /\ Rest(y, w) \in Nat
          /\ Rest(x, w) \div SLOT_PER_WHEEL = Rest(y, w) \div SLOT_PER_WHEEL
          /\ Slot(x, w) = Rest(x, w) % SLOT_PER_WHEEL
          /\ Slot(y, w) = Rest(y, w) % SLOT_PER_WHEEL
      BY RestStep DEF Top
    <3> QED BY <1>1, <1>4, <3>1, SameQuotient
  <2>2. w \in ahead
    BY <2>1 DEF Digits
  <2> HIDE DEF ahead
  <2>3. ahead # {} /\ \A z \in ahead : (\A i \in ahead : z >= i) => z = w
    <3>1. ahead \subseteq Int
      BY DEF ahead, Wheel
    <3> QED BY <1>1, <1>3, <2>2, <3>1
  <2>4. Max(ahead) = w
    BY <1>3, <2>2, <2>3 DEF Max
  <2> QED BY <2>3, <2>4 DEF WhichWheel, ahead
<1>5. CASE ~(Rest(x, w) > Rest(y, w))
  <2>1. w = 0
    BY <1>5 DEF Top
  <2>2. Rest(x, 0) = x /\ Rest(y, 0) = y
    BY RestIs
  <2>3. x = y
    BY <1>5, <2>1, <2>2
  <2>4. ahead = {}
    <3>1. \A i \in Wheel : Slot(x, i) \in Int
      BY RestStep
    <3> QED BY <2>3, <3>1 DEF Digits
  <2> QED BY <2>1, <2>4 DEF WhichWheel
<1> QED BY <1>4, <1>5

(* Two ticks that pass the assertion (ax_timer.cc:57) agree above all      *)
(* wheels, so there is such a wheel.                                       *)
LEMMA TopExists ==
  ASSUME NEW x \in Nat, NEW y \in Nat, x >= y, InRange(x), InRange(y)
  PROVE  \E w \in Wheel : Top(x, y, w)
<1> DEFINE T == {k \in Nat : k \in Wheel /\ Rest(x, k + 1) = Rest(y, k + 1)}
<1>1. TOTAL_WHEEL \in Nat \ {0} /\ TOTAL_WHEEL - 1 \in Wheel /\ TOTAL_WHEEL - 1 \in Nat
      /\ (TOTAL_WHEEL - 1) + 1 = TOTAL_WHEEL /\ TOTAL_WHEEL \in 0 .. TOTAL_WHEEL
  BY WheelAssumption DEF Wheel
<1>2. Rest(x, TOTAL_WHEEL) = Rest(y, TOTAL_WHEEL)
  <2>1. Rest(x, TOTAL_WHEEL) \in Nat /\ Rest(y, TOTAL_WHEEL) \in Nat
    BY <1>1, RestNat
  <2> QED BY <2>1 DEF InRange
<1>3. TOTAL_WHEEL - 1 \in T
  BY <1>1, <1>2
<1>4. T \in SUBSET Nat /\ T # {}
  BY <1>3
<1>5. PICK w \in T : \A k \in T : w <= k
  <2> HIDE DEF T
  <2> QED BY <1>4, NatMin
<1>6. ASSUME w # 0  PROVE Rest(x, w) > Rest(y, w)
  <2>1. w - 1 \in Nat /\ w - 1 \in Wheel /\ (w - 1) + 1 = w /\ w \in 0 .. TOTAL_WHEEL
    BY <1>1, <1>6 DEF Wheel
  <2>2. w - 1 \notin T
    BY <1>5, <2>1
  <2>3. Rest(x, w) # Rest(y, w)
    BY <2>1, <2>2
  <2>4. Rest(x, w) >= Rest(y, w) /\ Rest(x, w) \in Nat /\ Rest(y, w) \in Nat
    BY <2>1, RestMonotone, RestNat
  <2> QED BY <2>3, <2>4
<1> QED BY <1>5, <1>6 DEF Top

(* The cell of a tick that is not over.                                    *)
LEMMA CellIs ==
  ASSUME NEW x \in Nat, NEW y \in Nat, x >= y, InRange(x), InRange(y)
  PROVE  /\ WhichWheel(x, Digits(y)) \in Wheel
         /\ Top(x, y, WhichWheel(x, Digits(y)))
         /\ Slot(x, WhichWheel(x, Digits(y))) \in 0 .. SLOT_PER_WHEEL
<1>1. PICK w \in Wheel : Top(x, y, w)
  BY TopExists
<1>2. WhichWheel(x, Digits(y)) = w
  BY <1>1, WhichWheelIs
<1>3. Slot(x, w) \in 0 .. SLOT_PER_WHEEL - 1
  BY RestStep
<1>4. Slot(x, w) \in 0 .. SLOT_PER_WHEEL
  BY <1>3, WheelAssumption
<1> QED BY <1>1, <1>2, <1>4

(* A timer is in the slot of this tick on the lowest wheel if and only if  *)
(* it is due (ax_timer.cc:174).                                            *)
LEMMA CellOfNow ==
  ASSUME NEW x \in Nat, NEW y \in Nat, x >= y, InRange(x), InRange(y)
  PROVE  WhichWheel(x, Digits(y)) = 0 /\ Slot(x, 0) = Slot(y, 0) <=> x = y
<1>0. 0 \in Wheel /\ 0 + 1 = 1 /\ SLOT_PER_WHEEL \in Nat \ {0}
  BY WheelAssumption DEF Wheel
<1>1. Rest(x, 0) = x /\ Rest(y, 0) = y
  BY RestIs
<1>2. /\ Rest(x, 1) = x \div SLOT_PER_WHEEL /\ Rest(y, 1) = y \div SLOT_PER_WHEEL
      /\ Slot(x, 0) = x % SLOT_PER_WHEEL /\ Slot(y, 0) = y % SLOT_PER_WHEEL
  BY <1>0, <1>1, RestStep
<1>3. ASSUME WhichWheel(x, Digits(y)) = 0, Slot(x, 0) = Slot(y, 0)  PROVE x = y
  <2>1. Top(x, y, 0)
    BY <1>3, CellIs
  <2>2. Rest(x, 1) = Rest(y, 1)
    BY <1>0, <2>1 DEF Top
  <2>3. x \div SLOT_PER_WHEEL = y \div SLOT_PER_WHEEL /\ x % SLOT_PER_WHEEL = y % SLOT_PER_WHEEL
    BY <1>2, <1>3, <2>2
  <2> HIDE DEF Slot
  <2> QED BY <1>0, <2>3, SameQuotient
<1>4. ASSUME x = y  PROVE WhichWheel(x, Digits(y)) = 0 /\ Slot(x, 0) = Slot(y, 0)
  <2>1. Top(x, y, 0)
    BY <1>4 DEF Top
  <2> QED BY <1>0, <1>4, <2>1, WhichWheelIs
<1> QED BY <1>3, <1>4

(* A carry out of wheel k in the tick after y (ax_timer.cc:153-156).       *)
LEMMA CarryOut ==
  ASSUME NEW y \in Nat, NEW k \in Wheel
  PROVE  /\ Rest(y + 1, k) = Rest(y, k) =>
              Rest(y + 1, k + 1) = Rest(y, k + 1) /\ Slot(y + 1, k) = Slot(y, k)
         /\ Rest(y + 1, k) = Rest(y, k) + 1 =>
              IF Slot(y, k) + 1 < SLOT_PER_WHEEL
              THEN Rest(y + 1, k + 1) = Rest(y, k + 1) /\ Slot(y + 1, k) = Slot(y, k) + 1
              ELSE /\ Slot(y, k) + 1 = SLOT_PER_WHEEL
                   /\ Rest(y + 1, k + 1) = Rest(y, k + 1) + 1 /\ Slot(y + 1, k) = 0
<1>1. SLOT_PER_WHEEL \in Nat \ {0} /\ y + 1 \in Nat
  BY WheelAssumption
<1>2. PICK z \in Nat : z = y + 1
  BY <1>1
<1>3. /\ Rest(z, k) \in Nat /\ Rest(z, k + 1) = Rest(z, k) \div SLOT_PER_WHEEL
      /\ Slot(z, k) = Rest(z, k) % SLOT_PER_WHEEL
  BY RestStep
<1>4. /\ Rest(y, k) \in Nat /\ Rest(y, k + 1) = Rest(y, k) \div SLOT_PER_WHEEL
      /\ Slot(y, k) = Rest(y, k) % SLOT_PER_WHEEL
  BY RestStep
<1>5. ASSUME Rest(z, k) = Rest(y, k)
      PROVE  Rest(z, k + 1) = Rest(y, k + 1) /\ Slot(z, k) = Slot(y, k)
  BY <1>3, <1>4, <1>5
<1>6. ASSUME Rest(z, k) = Rest(y, k) + 1
      PROVE  IF Slot(y, k) + 1 < SLOT_PER_WHEEL
             THEN Rest(z, k + 1) = Rest(y, k + 1) /\ Slot(z, k) = Slot(y, k) + 1
             ELSE /\ Slot(y, k) + 1 = SLOT_PER_WHEEL
                  /\ Rest(z, k + 1) = Rest(y, k + 1) + 1 /\ Slot(z, k) = 0
  <2>1. PICK a \in Nat : a = Rest(y, k)
    BY <1>4
  <2>2. IF (a % SLOT_PER_WHEEL) + 1 < SLOT_PER_WHEEL
        THEN (a + 1) \div SLOT_PER_WHEEL = a \div SLOT_PER_WHEEL
             /\ (a + 1) % SLOT_PER_WHEEL = (a % SLOT_PER_WHEEL) + 1
        ELSE (a % SLOT_PER_WHEEL) + 1 = SLOT_PER_WHEEL
             /\ (a + 1) \div SLOT_PER_WHEEL = (a \div SLOT_PER_WHEEL) + 1
             /\ (a + 1) % SLOT_PER_WHEEL = 0
    BY <1>1, DivSucc
  <2> QED BY <1>3, <1>4, <1>6, <2>1, <2>2
<1> QED BY <1>2, <1>5, <1>6

(* No wheel moves by more than one slot in a tick.                         *)
LEMMA Carry ==
  ASSUME NEW y \in Nat
  PROVE  \A k \in 0 .. TOTAL_WHEEL : Rest(y + 1, k) = Rest(y, k) \/ Rest(y + 1, k) = Rest(y, k) + 1
<1> DEFINE I == {k \in Nat : Rest(y + 1, k) = Rest(y, k) \/ Rest(y + 1, k) = Rest(y, k) + 1}
<1>1. 0 \in I
  BY RestIs
<1>2. ASSUME NEW k \in 0 .. TOTAL_WHEEL - 1, k \in I  PROVE k + 1 \in I
  <2>1. k \in Wheel /\ k + 1 \in Nat
    BY WheelAssumption DEF Wheel
  <2>2. Rest(y + 1, k) = Rest(y, k) \/ Rest(y + 1, k) = Rest(y, k) + 1
    BY <1>2
  <2>3. Rest(y + 1, k + 1) = Rest(y, k + 1) \/ Rest(y + 1, k + 1) = Rest(y, k + 1) + 1
    BY <2>1, <2>2, CarryOut
  <2> QED BY <2>1, <2>3
<1> HIDE DEF I
<1>3. \A k \in 0 .. TOTAL_WHEEL : k \in I
  BY <1>1, <1>2, UpTo, WheelAssumption
<1> QED BY <1>3 DEF I

(* The carry of the tick after y ends on wheel k: of the timers that are   *)
(* not over only those in the next slot of wheel k belong elsewhere then,  *)
(* and none at all if there was no carry.  These are what process_tick     *)
(* moves (ax_timer.cc:159-170).                                            *)
LEMMA CellKept ==
  ASSUME NEW y \in Nat, NEW x \in Nat, x >= y + 1, InRange(x), InRange(y), InRange(y + 1),
         NEW k \in Wheel, Rest(y + 1, k) = Rest(y, k) + 1, Slot(y, k) + 1 < SLOT_PER_WHEEL
  PROVE  \/ WhichWheel(x, Digits(y + 1)) = WhichWheel(x, Digits(y))
         \/ k # 0 /\ WhichWheel(x, Digits(y)) = k /\ Slot(x, k) = Slot(y, k) + 1
<1>1. PICK z \in Nat : z = y + 1
  OBVIOUS
<1>2. PICK w \in Wheel : w = WhichWheel(x, Digits(y)) /\ Top(x, y, w)
  BY CellIs
<1>3. /\ k \in 0 .. TOTAL_WHEEL /\ k + 1 \in 0 .. TOTAL_WHEEL /\ k \in Nat /\ w \in Nat
      /\ w \in 0 .. TOTAL_WHEEL /\ w + 1 \in 0 .. TOTAL_WHEEL /\ TOTAL_WHEEL \in Nat
      /\ SLOT_PER_WHEEL \in Nat \ {0}
  BY WheelAssumption DEF Wheel
<1>4. Rest(z, k + 1) = Rest(y, k + 1) /\ Slot(z, k) = Slot(y, k) + 1 /\ Rest(z, k) = Rest(y, k) + 1
  BY <1>1, CarryOut
<1>5. \A j \in k + 1 .. TOTAL_WHEEL : Rest(z, j) = Rest(y, j)
  BY <1>3, <1>4, RestSame
<1>6. Rest(x, w + 1) = Rest(y, w + 1) /\ (w = 0 \/ Rest(x, w) > Rest(y, w))
  BY <1>2 DEF Top
<1>7. \A j \in 0 .. TOTAL_WHEEL : Rest(x, j) \in Nat /\ Rest(y, j) \in Nat /\ Rest(z, j) \in Nat
                                  /\ Rest(x, j) >= Rest(z, j)
  BY <1>1, RestNat, RestMonotone
<1>8. ASSUME Top(x, z, w)  PROVE WhichWheel(x, Digits(z)) = w
  BY <1>1, <1>8, WhichWheelIs
<1>9. CASE w > k
  <2>1. w \in k + 1 .. TOTAL_WHEEL /\ w + 1 \in k + 1 .. TOTAL_WHEEL
    BY <1>3, <1>9
  <2>2. Top(x, z, w)
    BY <1>5, <1>6, <2>1 DEF Top
  <2> QED BY <1>1, <1>2, <1>8, <2>2
<1>10. CASE w < k
  <2>1. k \in w + 1 .. TOTAL_WHEEL
    BY <1>3, <1>10
  <2>2. Rest(x, k) = Rest(y, k)
    BY <1>3, <1>6, <2>1, RestSame
  <2> QED BY <1>3, <1>4, <1>7, <2>2
<1>11. CASE w = k
  <2>1. Rest(x, k + 1) = Rest(z, k + 1)
    BY <1>4, <1>6, <1>11
  <2>2. CASE k = 0 \/ Rest(x, k) > Rest(z, k)
    <3>1. Top(x, z, w)
      BY <1>11, <2>1, <2>2 DEF Top
    <3> QED BY <1>1, <1>2, <1>8, <3>1
  <2>3. CASE k # 0 /\ ~(Rest(x, k) > Rest(z, k))
    <3>1. Rest(x, k) = Rest(z, k)
      BY <1>3, <1>7, <2>3
    <3>2. Slot(x, k) = Slot(z, k)
      BY <3>1 DEF Slot
    <3> QED BY <1>2, <1>4, <1>11, <2>3, <3>2
  <2> QED BY <2>2, <2>3
<1> QED BY <1>3, <1>9, <1>10, <1>11

-----------------------------------------------------------------------------

(* A timer.                                                                *)
Timers == [handle : Nat \ {0}, tick : Nat]

(* The timers E can be waiting at tick y.                                  *)
Ahead(E, y) == \A e \in E : e.tick \in Nat /\ InRange(e.tick) /\ e.tick >= y

(* The wheels that hold the timers E where which_slot looks for them at y. *)
CellsOf(E, y) ==
  [i \in Wheel |-> [s \in 0 .. SLOT_PER_WHEEL |-> {e \in E : Cell(e, Digits(y)) = <<i, s>>}]]

(* slot_now_ when the loop of process_tick has reached wheel i.            *)
NowAt(y, i) ==
  [j \in Wheel |-> IF j < i THEN Slot(y + 1, j)
                   ELSE IF j = i THEN Slot(y, i) + (Rest(y + 1, i) - Rest(y, i))
                   ELSE Slot(y, j)]

(* The wheels then: the timers are moved when the carry ends.              *)
Partway(E, y, i) ==
  [now |-> NowAt(y, i),
   wheel |-> IF NowAt(y, i)[i] < SLOT_PER_WHEEL THEN CellsOf(E, y + 1) ELSE CellsOf(E, y)]

(* The tick begins with one step of the lowest wheel                       *)
(* (ax_timer.cc:149-150).                                                  *)
LEMMA StartTurning ==
  ASSUME NEW E, NEW y \in Nat, Ahead(E, y + 1), InRange(y), InRange(y + 1),
         slot_now_ = Digits(y), wheel_ = CellsOf(E, y)
  PROVE  [now |-> [slot_now_ EXCEPT ![0] = @ + 1], wheel |-> wheel_] = Partway(E, y, 0)
<1>1. 0 \in Wheel /\ \A j \in Wheel : ~(j < 0)
  BY WheelAssumption DEF Wheel
<1>2. Rest(y + 1, 0) = Rest(y, 0) + 1
  BY RestIs
<1>3. Rest(y, 0) \in Nat /\ Slot(y, 0) \in Nat
  BY <1>1, RestStep
<1>4. Slot(y, 0) + (Rest(y + 1, 0) - Rest(y, 0)) = Slot(y, 0) + 1
  BY <1>2, <1>3
<1>5. [slot_now_ EXCEPT ![0] = @ + 1] = NowAt(y, 0)
  BY <1>1, <1>4 DEF NowAt, Digits
<1>6. NowAt(y, 0)[0] = Slot(y, 0) + 1
  BY <1>1, <1>4 DEF NowAt
<1>7. ASSUME Slot(y, 0) + 1 < SLOT_PER_WHEEL  PROVE CellsOf(E, y) = CellsOf(E, y + 1)
  <2>1. \A e \in E : WhichWheel(e.tick, Digits(y + 1)) = WhichWheel(e.tick, Digits(y))
    BY <1>1, <1>2, <1>7, CellKept DEF Ahead
  <2>2. \A e \in E : Cell(e, Digits(y + 1)) = Cell(e, Digits(y))
    BY <2>1 DEF Cell
  <2> QED BY <2>2 DEF CellsOf
<1> QED BY <1>5, <1>6, <1>7 DEF Partway

(* f has a set for every cell.                                             *)
IsWheels(f) ==
  /\ f = [j \in Wheel |-> f[j]]
  /\ \A j \in Wheel : f[j] = [s \in 0 .. SLOT_PER_WHEEL |-> f[j][s]]

(* Every cell of f holds the timers of E that belong there at tick y.      *)
HeldAt(f, E, y) ==
  \A j \in Wheel, s \in 0 .. SLOT_PER_WHEEL : \A e :
     e \in f[j][s] <=> e \in E /\ Cell(e, Digits(y)) = <<j, s>>

(* Wheels are what CellsOf says if they are so cell by cell.               *)
LEMMA CellsEqual ==
  ASSUME NEW E, NEW y
  PROVE  /\ IsWheels(CellsOf(E, y)) /\ HeldAt(CellsOf(E, y), E, y)
         /\ \A f : IsWheels(f) /\ HeldAt(f, E, y) => f = CellsOf(E, y)
<1>0. IsWheels(CellsOf(E, y)) /\ HeldAt(CellsOf(E, y), E, y)
  BY DEF CellsOf, IsWheels, HeldAt
<1>3. ASSUME NEW f, IsWheels(f), HeldAt(f, E, y)  PROVE f = CellsOf(E, y)
  <2>1. \A j \in Wheel, s \in 0 .. SLOT_PER_WHEEL : f[j][s] = {e \in E : Cell(e, Digits(y)) = <<j, s>>}
    BY <1>3 DEF HeldAt
  <2>2. \A j \in Wheel : f[j] = [s \in 0 .. SLOT_PER_WHEEL |-> {e \in E : Cell(e, Digits(y)) = <<j, s>>}]
    BY <1>3, <2>1 DEF IsWheels
  <2> QED BY <1>3, <2>2 DEF CellsOf, IsWheels
<1> QED BY <1>0, <1>3

(* One cell of f has become X.                                             *)
Replaced(g, f, k, n, X) == g = [f EXCEPT ![k][n] = X]

(* The others are what they were.                                          *)
LEMMA CellExcept ==
  ASSUME NEW f, IsWheels(f), NEW k \in Wheel, NEW n \in 0 .. SLOT_PER_WHEEL, NEW X,
         NEW g, Replaced(g, f, k, n, X)
  PROVE  /\ IsWheels(g)
         /\ \A j \in Wheel, s \in 0 .. SLOT_PER_WHEEL :
              g[j][s] = IF <<j, s>> = <<k, n>> THEN X ELSE f[j][s]
<1>0. [f EXCEPT ![k][n] = X] = [j \in Wheel |-> IF j = k THEN [f[k] EXCEPT ![n] = X] ELSE f[j]]
  BY DEF IsWheels
<1>1. g = [j \in Wheel |-> IF j = k THEN [f[k] EXCEPT ![n] = X] ELSE f[j]]
  BY <1>0 DEF Replaced
<1>2. [f[k] EXCEPT ![n] = X] = [s \in 0 .. SLOT_PER_WHEEL |-> IF s = n THEN X ELSE f[k][s]]
  BY DEF IsWheels
<1>3. \A j \in Wheel, s \in 0 .. SLOT_PER_WHEEL : g[j][s] = IF j = k /\ s = n THEN X ELSE f[j][s]
  BY <1>1, <1>2
<1>4. IsWheels(g)
  BY <1>1, <1>2 DEF IsWheels
<1>5. \A j, s : <<j, s>> = <<k, n>> <=> j = k /\ s = n
  OBVIOUS
<1> QED BY <1>3, <1>4, <1>5

(* One round of the loop of process_tick (ax_timer.cc:152-171): while the  *)
(* carry goes on nothing is moved, as the cell it looks at, behind the     *)
(* last slot of the wheel, is empty; where it ends the timers of the next  *)
(* slot go where they belong.                                              *)
LEMMA CascadeTurns ==
  ASSUME NEW E, NEW y \in Nat, Ahead(E, y + 1), InRange(y), InRange(y + 1),
         NEW i \in Wheel, i + 1 \in Wheel
  PROVE  Cascade(Partway(E, y, i), i) = Partway(E, y, i + 1)
<1> DEFINE c == Partway(E, y, i)
<1>1. PICK z \in Nat : z = y + 1
  OBVIOUS
<1>2. PICK k \in Wheel : k = i + 1
  OBVIOUS
<1>3. /\ SLOT_PER_WHEEL \in Nat \ {0} /\ TOTAL_WHEEL \in Nat /\ i \in Nat /\ k \in Nat /\ i < k
      /\ i \in 0 .. TOTAL_WHEEL /\ k \in 0 .. TOTAL_WHEEL /\ \A j \in Wheel : j \in Int
  BY <1>2, WheelAssumption DEF Wheel
<1>4. /\ Rest(y, i) \in Nat /\ Rest(y, k) \in Nat /\ Rest(z, i) \in Nat /\ Rest(z, k) \in Nat
      /\ Slot(y, i) \in Nat /\ Slot(y, i) < SLOT_PER_WHEEL
      /\ Slot(y, k) \in Nat /\ Slot(y, k) < SLOT_PER_WHEEL
  <2>1. Slot(y, i) \in 0 .. SLOT_PER_WHEEL - 1 /\ Slot(y, k) \in 0 .. SLOT_PER_WHEEL - 1
    BY RestStep
  <2>2. Rest(y, i) \in Nat /\ Rest(y, k) \in Nat /\ Rest(z, i) \in Nat /\ Rest(z, k) \in Nat
    BY RestStep
  <2> QED BY <1>3, <2>1, <2>2
<1>5. NowAt(y, i)[i] = Slot(y, i) + (Rest(z, i) - Rest(y, i))
  BY <1>1, <1>3 DEF NowAt
<1>6. NowAt(y, k)[k] = Slot(y, k) + (Rest(z, k) - Rest(y, k))
  BY <1>1, <1>3 DEF NowAt
<1>7. Rest(z, i) = Rest(y, i) \/ Rest(z, i) = Rest(y, i) + 1
  BY <1>1, <1>3, Carry
<1>8. c.now = NowAt(y, i)
      /\ c.wheel = IF NowAt(y, i)[i] < SLOT_PER_WHEEL THEN CellsOf(E, z) ELSE CellsOf(E, y)
  BY <1>1 DEF Partway
<1>9. CASE NowAt(y, i)[i] < SLOT_PER_WHEEL
  <2>1. Rest(z, k) = Rest(y, k) /\ Slot(z, i) = NowAt(y, i)[i]
    BY <1>1, <1>2, <1>4, <1>5, <1>7, <1>9, CarryOut
  <2>2. NowAt(y, k) = NowAt(y, i)
    <3>1. ASSUME NEW j \in Wheel  PROVE NowAt(y, k)[j] = NowAt(y, i)[j]
      <4>1. CASE j < i
        <5>1. j < k
          BY <1>3, <4>1
        <5> QED BY <4>1, <5>1 DEF NowAt
      <4>2. CASE j = i
        BY <1>1, <1>3, <2>1, <4>2 DEF NowAt
      <4>3. CASE j = k
        <5>1. ~(k < i) /\ k # i /\ Slot(y, k) + (Rest(z, k) - Rest(y, k)) = Slot(y, k)
          BY <1>3, <1>4, <2>1
        <5>2. NowAt(y, i)[k] = Slot(y, k)
          BY <5>1 DEF NowAt
        <5> QED BY <1>6, <4>3, <5>1, <5>2
      <4>4. CASE j > k
        <5>1. ~(j < i) /\ ~(j < k) /\ j # i /\ j # k
          BY <1>3, <4>4
        <5> QED BY <5>1 DEF NowAt
      <4> QED BY <1>2, <1>3, <4>1, <4>2, <4>3, <4>4
    <3> QED BY <3>1 DEF NowAt
  <2>3. NowAt(y, k)[k] < SLOT_PER_WHEEL
    BY <1>4, <1>6, <2>1
  <2>4. Cascade(c, i) = c
    BY <1>8, <1>9 DEF Cascade
  <2> QED BY <1>1, <1>2, <1>9, <2>2, <2>3, <2>4 DEF Partway
<1>10. CASE ~(NowAt(y, i)[i] < SLOT_PER_WHEEL)
  <2>1. Rest(z, i) = Rest(y, i) + 1 /\ Slot(y, i) + 1 = SLOT_PER_WHEEL
    BY <1>3, <1>4, <1>5, <1>7, <1>10
  <2>2. Rest(z, k) = Rest(y, k) + 1 /\ Slot(z, i) = 0
    BY <1>1, <1>2, <1>3, <2>1, CarryOut
  <2>3. PICK n \in Nat : n = Slot(y, k) + 1
    BY <1>4
  <2>4. NowAt(y, k)[k] = n /\ n <= SLOT_PER_WHEEL /\ n \in 0 .. SLOT_PER_WHEEL
    BY <1>3, <1>4, <1>6, <2>2, <2>3
  <2> DEFINE now == [c.now EXCEPT ![i] = 0, ![i + 1] = @ + 1]
             moved == c.wheel[i + 1][now[i + 1]]
             rest == [c.wheel EXCEPT ![i + 1][now[i + 1]] = {}]
             new == [j \in Wheel |-> [s \in DOMAIN rest[j] |->
                         rest[j][s] \cup {e \in moved : Cell(e, now) = <<j, s>>}]]
  <2>5. Cascade(c, i) = [now |-> now, wheel |-> new]
    BY <1>8, <1>10 DEF Cascade
  <2>6. now = NowAt(y, k)
    <3>1. now \in [Wheel -> {now[j] : j \in Wheel}] /\ DOMAIN NowAt(y, i) = Wheel
      BY <1>8 DEF NowAt
    <3>2. ASSUME NEW j \in Wheel  PROVE now[j] = NowAt(y, k)[j]
      <4>1. CASE j < i
        <5>1. j < k /\ j # i /\ j # k
          BY <1>3, <4>1
        <5> QED BY <1>2, <1>8, <3>1, <4>1, <5>1 DEF NowAt
      <4>2. CASE j = i
        BY <1>1, <1>2, <1>3, <1>8, <2>2, <3>1, <4>2 DEF NowAt
      <4>3. CASE j = k
        <5>1. ~(k < i) /\ k # i
          BY <1>3
        <5>2. NowAt(y, i)[k] = Slot(y, k)
          BY <5>1 DEF NowAt
        <5>3. now[k] = Slot(y, k) + 1
          BY <1>2, <1>8, <3>1, <5>1, <5>2
        <5> QED BY <2>3, <2>4, <4>3, <5>3
      <4>4. CASE j > k
        <5>1. ~(j < i) /\ ~(j < k) /\ j # i /\ j # k
          BY <1>3, <4>4
        <5> QED BY <1>2, <1>8, <3>1, <5>1 DEF NowAt
      <4> QED BY <1>2, <1>3, <4>1, <4>2, <4>3, <4>4
    <3> QED BY <3>1, <3>2 DEF NowAt
  <2>7. now[i + 1] = n
    BY <1>2, <2>4, <2>6
  <2>8. c.wheel = CellsOf(E, y)
    BY <1>8, <1>10
  <2> HIDE DEF now, c
  <2>9. moved = {e \in E : Cell(e, Digits(y)) = <<k, n>>}
    BY <1>2, <2>4, <2>7, <2>8 DEF CellsOf
  <2>10. /\ IsWheels(rest)
         /\ \A j \in Wheel, s \in 0 .. SLOT_PER_WHEEL : \A e :
              e \in rest[j][s] <=> e \in E /\ Cell(e, Digits(y)) = <<j, s>> /\ <<j, s>> # <<k, n>>
    <3>1. PICK f : f = CellsOf(E, y)
      OBVIOUS
    <3>2. IsWheels(f) /\ HeldAt(f, E, y)
      BY <3>1, CellsEqual
    <3>3. Replaced(rest, f, k, n, {})
      BY <1>2, <2>7, <2>8, <3>1 DEF Replaced
    <3> HIDE DEF rest
    <3>4. IsWheels(rest) /\ \A j \in Wheel, s \in 0 .. SLOT_PER_WHEEL :
                              rest[j][s] = IF <<j, s>> = <<k, n>> THEN {} ELSE f[j][s]
      <4>1. n \in 0 .. SLOT_PER_WHEEL
        BY <2>4
      <4> QED BY <3>2, <3>3, <4>1, CellExcept
    <3> QED BY <3>2, <3>4 DEF HeldAt
  <2> HIDE DEF moved, rest
  <2>11. /\ IsWheels(new)
         /\ \A j \in Wheel, s \in 0 .. SLOT_PER_WHEEL : \A e :
              e \in new[j][s] <=>
                 /\ e \in E
                 /\ \/ Cell(e, Digits(y)) = <<j, s>> /\ <<j, s>> # <<k, n>>
                    \/ Cell(e, Digits(y)) = <<k, n>> /\ Cell(e, now) = <<j, s>>
    <3>1. \A j \in Wheel : DOMAIN rest[j] = 0 .. SLOT_PER_WHEEL
      BY <2>10 DEF IsWheels
    <3>2. IsWheels(new)
      BY <3>1 DEF IsWheels
    <3>3. \A j \in Wheel, s \in 0 .. SLOT_PER_WHEEL :
            new[j][s] = rest[j][s] \cup {e \in moved : Cell(e, now) = <<j, s>>}
      BY <3>1
    <3> HIDE DEF new
    <3> QED BY <2>9, <2>10, <3>2, <3>3
  <2> HIDE DEF new
  <2>12. CASE n = SLOT_PER_WHEEL
    <3>1. \A e \in E : Slot(e.tick, k) \in 0 .. SLOT_PER_WHEEL - 1
      BY RestStep DEF Ahead
    <3>2. \A e \in E : Cell(e, Digits(y)) # <<k, n>>
      BY <1>3, <2>12, <3>1 DEF Cell
    <3>3. HeldAt(new, E, y)
      BY <2>11, <3>2 DEF HeldAt
    <3>4. new = CellsOf(E, y)
      BY <2>11, <3>3, CellsEqual
    <3> QED BY <1>2, <2>4, <2>5, <2>6, <2>12, <3>4 DEF Partway, c
  <2>13. CASE n < SLOT_PER_WHEEL
    <3>1. Rest(z, k + 1) = Rest(y, k + 1) /\ Slot(z, k) = n
      BY <1>1, <2>2, <2>3, <2>13, CarryOut
    <3>2. now = Digits(z)
      <4>1. k + 1 \in 0 .. TOTAL_WHEEL
        BY <1>3 DEF Wheel
      <4>2. \A j \in k + 1 .. TOTAL_WHEEL : Rest(z, j) = Rest(y, j)
        BY <3>1, <4>1, RestSame
      <4>3. ASSUME NEW j \in Wheel  PROVE NowAt(y, k)[j] = Slot(z, j)
        <5>1. CASE j < k
          BY <1>1, <5>1 DEF NowAt
        <5>2. CASE j = k
          BY <2>4, <3>1, <5>2
        <5>3. CASE j > k
          <6>1. j \in k + 1 .. TOTAL_WHEEL /\ ~(j < k) /\ j # k
            BY <1>3, <5>3 DEF Wheel
          <6>2. Slot(y, j) = Slot(z, j)
            BY <4>2, <6>1 DEF Slot
          <6> QED BY <6>1, <6>2 DEF NowAt
        <5> QED BY <1>3, <5>1, <5>2, <5>3
      <4> QED BY <2>6, <4>3 DEF NowAt, Digits
    <3>3. ASSUME NEW e \in E
          PROVE  Cell(e, Digits(z)) = Cell(e, Digits(y)) \/ Cell(e, Digits(y)) = <<k, n>>
      <4>1. e.tick \in Nat /\ InRange(e.tick) /\ e.tick >= y + 1
        BY DEF Ahead
      <4>2. Rest(y + 1, k) = Rest(y, k) + 1 /\ Slot(y, k) + 1 < SLOT_PER_WHEEL
        BY <1>1, <2>2, <2>3, <2>13
      <4>3. \/ WhichWheel(e.tick, Digits(y + 1)) = WhichWheel(e.tick, Digits(y))
            \/ WhichWheel(e.tick, Digits(y)) = k /\ Slot(e.tick, k) = Slot(y, k) + 1
        BY <4>1, <4>2, CellKept
      <4> QED BY <1>1, <2>3, <4>3 DEF Cell
    <3>4. ASSUME NEW j \in Wheel, NEW s \in 0 .. SLOT_PER_WHEEL, NEW e
          PROVE  e \in new[j][s] <=> e \in E /\ Cell(e, Digits(z)) = <<j, s>>
      BY <2>11, <3>2, <3>3
    <3>5. HeldAt(new, E, z)
      BY <3>4 DEF HeldAt
    <3>6. new = CellsOf(E, z)
      BY <2>11, <3>5, CellsEqual
    <3> QED BY <1>1, <1>2, <2>4, <2>5, <2>6, <2>13, <3>6 DEF Partway, c
  <2> QED BY <1>3, <2>4, <2>12, <2>13
<1> QED BY <1>9, <1>10

(* process_tick brings the wheels from y to y + 1 (ax_timer.cc:149-171).   *)
LEMMA TickTurns ==
  ASSUME NEW E, NEW y \in Nat, Ahead(E, y + 1), InRange(y), InRange(y + 1),
         slot_now_ = Digits(y), wheel_ = CellsOf(E, y)
  PROVE  /\ Turned[TOTAL_WHEEL - 1].now = Digits(y + 1)
         /\ Turned[TOTAL_WHEEL - 1].wheel = CellsOf(E, y + 1)
<1>0. TOTAL_WHEEL \in Nat \ {0} /\ Wheel = 0 .. TOTAL_WHEEL - 1
  BY WheelAssumption DEF Wheel
<1>1. PICK first : first = [now |-> [slot_now_ EXCEPT ![0] = @ + 1], wheel |-> wheel_]
  OBVIOUS
<1> DEFINE Sat(t) == t = [i \in Wheel |-> IF i = 0 THEN first ELSE Cascade(t[i - 1], i - 1)]
<1>2. first = Partway(E, y, 0)
  BY <1>1, StartTurning
<1>3. \A i \in Wheel \ {0} : i - 1 \in Wheel /\ (i - 1) + 1 = i
  BY <1>0
<1>4. \A i \in Wheel \ {0} : Cascade(Partway(E, y, i - 1), i - 1) = Partway(E, y, i)
  <2> SUFFICES ASSUME NEW i \in Wheel \ {0}
               PROVE  Cascade(Partway(E, y, i - 1), i - 1) = Partway(E, y, i)
    OBVIOUS
  <2>1. PICK k \in Wheel : k = i - 1 /\ k + 1 = i
    BY <1>3
  <2>2. Cascade(Partway(E, y, k), k) = Partway(E, y, k + 1)
    BY <2>1, CascadeTurns
  <2> QED BY <2>1, <2>2
<1>5. \E t : Sat(t)
  <2> DEFINE t == [i \in Wheel |-> Partway(E, y, i)]
  <2>1. \A i \in Wheel : t[i] = IF i = 0 THEN first ELSE Cascade(t[i - 1], i - 1)
    BY <1>2, <1>3, <1>4
  <2>2. t = [i \in Wheel |-> t[i]]
    OBVIOUS
  <2> HIDE DEF t
  <2>3. Sat(t)
    BY <2>1, <2>2
  <2> HIDE DEF Sat
  <2> QED BY <2>3
<1>6. Turned = CHOOSE t : Sat(t)
  BY <1>0, <1>1 DEF Turned
<1>7. Sat(Turned)
  <2> HIDE DEF Sat
  <2> QED BY <1>5, <1>6
<1>8. \A i \in Wheel : Turned[i] = IF i = 0 THEN first ELSE Cascade(Turned[i - 1], i - 1)
  BY <1>7
<1> HIDE DEF Sat
<1> DEFINE I == {i \in Nat : Turned[i] = Partway(E, y, i)}
<1>9. 0 \in I
  BY <1>0, <1>2, <1>8
<1>10. ASSUME NEW i \in 0 .. (TOTAL_WHEEL - 1) - 1, i \in I  PROVE i + 1 \in I
  <2>1. i \in Wheel /\ i + 1 \in Wheel \ {0} /\ (i + 1) - 1 = i /\ i + 1 \in Nat
    BY <1>0
  <2>2. PICK k \in Wheel \ {0} : k = i + 1 /\ k - 1 = i
    BY <2>1
  <2>3. Turned[k] = Cascade(Turned[k - 1], k - 1) /\ Turned[i] = Partway(E, y, i)
    BY <1>8, <1>10
  <2>4. Turned[k] = Partway(E, y, k)
    BY <1>4, <2>2, <2>3
  <2> QED BY <2>1, <2>2, <2>4
<1> HIDE DEF I
<1>11. PICK l \in Nat : l = TOTAL_WHEEL - 1
  BY <1>0
<1>12. \A i \in 0 .. l : i \in I
  BY <1>9, <1>10, <1>11, UpTo
<1>13. Turned[l] = Partway(E, y, l) /\ l \in Wheel /\ l + 1 = TOTAL_WHEEL
  BY <1>0, <1>11, <1>12 DEF I
<1>14. PICK z \in Nat : z = y + 1
  OBVIOUS
<1>15. Rest(z, l + 1) = Rest(y, l + 1)
  <2>0. TOTAL_WHEEL \in 0 .. TOTAL_WHEEL
    BY <1>0
  <2>1. Rest(z, TOTAL_WHEEL) \in Nat /\ Rest(y, TOTAL_WHEEL) \in Nat
    BY <2>0, RestNat
  <2> QED BY <1>13, <1>14, <2>1 DEF InRange
<1>16. /\ Rest(y, l) \in Nat /\ Rest(z, l) \in Nat /\ Rest(y, l + 1) \in Nat
       /\ Slot(y, l) \in Nat /\ Slot(z, l) \in 0 .. SLOT_PER_WHEEL - 1
  BY <1>13, RestStep
<1>17. Slot(y, l) + (Rest(z, l) - Rest(y, l)) = Slot(z, l)
  <2>1. l \in 0 .. TOTAL_WHEEL
    BY <1>0, <1>11
  <2>2. CASE Rest(z, l) = Rest(y, l)
    <3>1. Slot(z, l) = Slot(y, l)
      BY <2>2 DEF Slot
    <3> QED BY <1>16, <2>2, <3>1
  <2>3. CASE Rest(z, l) = Rest(y, l) + 1
    <3>1. IF Slot(y, l) + 1 < SLOT_PER_WHEEL
          THEN Rest(z, l + 1) = Rest(y, l + 1) /\ Slot(z, l) = Slot(y, l) + 1
          ELSE Rest(z, l + 1) = Rest(y, l + 1) + 1
      BY <1>13, <1>14, <2>3, CarryOut
    <3> QED BY <1>15, <1>16, <2>3, <3>1
  <2> QED BY <1>14, <2>1, <2>2, <2>3, Carry
<1>18. NowAt(y, l) = Digits(z)
  <2>1. \A j \in Wheel : j < l \/ j = l
    BY <1>0, <1>11
  <2> QED BY <1>14, <1>17, <2>1 DEF NowAt, Digits
<1>19. NowAt(y, l)[l] < SLOT_PER_WHEEL
  BY <1>13, <1>16, <1>18, WheelAssumption DEF Digits
<1> QED BY <1>11, <1>13, <1>14, <1>18, <1>19 DEF Partway

-----------------------------------------------------------------------------

(* What is left to be called: timers of this tick that are still set,      *)
(* except that the one behind the running callback may be deleted.         *)
LeftInv ==
  /\ left \subseteq due \cup {next_} /\ NoEntry \notin left
  /\ \A e \in left : e.tick = ticknow_ /\ e.handle \in Nat /\ e.handle <= handle_
  /\ next_ \in FirstOf(left)

(* The inductive invariant: every timer that is set lies where which_slot  *)
(* looks for it, and those being called are those of this tick.            *)
(* DeadlinesSpec speaks of what goes off; where the others wait is what    *)
(* makes them go off in time.                                              *)
TimerInv ==
  /\ ticknow_ \in Nat /\ InRange(ticknow_) /\ handle_ \in Nat
  /\ entry_map_ \subseteq Timers /\ Ahead(entry_map_, ticknow_)
  /\ \A e \in entry_map_ : e.handle <= handle_
  /\ slot_now_ = Digits(ticknow_)
  /\ wheel_ = CellsOf(entry_map_, ticknow_)
  /\ due = {e \in entry_map_ : e.tick = ticknow_} /\ LeftInv
  /\ phase = "poll" => due = {} /\ left = {}

(* The constructor (ax_timer.cc:12-27) establishes the invariant.          *)
LEMMA InitTimerInv == TimerInit => TimerInv
<1> SUFFICES ASSUME TimerInit PROVE TimerInv
  OBVIOUS
<1>0. SLOT_PER_WHEEL \in Nat \ {0} /\ TOTAL_WHEEL \in Nat \ {0}
  BY WheelAssumption
<1> DEFINE I == {k \in Nat : Rest(0, k) = 0}
<1>1. \A k \in 0 .. TOTAL_WHEEL : k \in I
  <2>1. 0 \in I
    BY RestIs
  <2>2. ASSUME NEW k \in 0 .. TOTAL_WHEEL - 1, k \in I  PROVE k + 1 \in I
    <3>1. k \in Wheel /\ k + 1 \in Nat
      BY <1>0 DEF Wheel
    <3>2. Rest(0, k + 1) = Rest(0, k) \div SLOT_PER_WHEEL
      BY <3>1, RestStep
    <3>3. (0 * SLOT_PER_WHEEL + 0) \div SLOT_PER_WHEEL = 0
      BY <1>0, DivUnique
    <3>4. 0 \div SLOT_PER_WHEEL = 0
      BY <1>0, <3>3
    <3> QED BY <2>2, <3>1, <3>2, <3>4
  <2> HIDE DEF I
  <2> QED BY <1>0, <2>1, <2>2, UpTo
<1>2. \A k \in 0 .. TOTAL_WHEEL : Rest(0, k) = 0
  BY <1>1
<1>3. InRange(0)
  BY <1>0, <1>2 DEF InRange
<1>4. \A k \in Wheel : Slot(0, k) = 0
  <2>1. \A k \in Wheel : k \in 0 .. TOTAL_WHEEL
    BY <1>0 DEF Wheel
  <2>2. 0 % SLOT_PER_WHEEL = 0
    BY <1>0
  <2> QED BY <1>2, <2>1, <2>2 DEF Slot
<1>5. slot_now_ = Digits(0)
  BY <1>4 DEF TimerInit, Digits
<1>6. wheel_ = CellsOf({}, 0)
  BY DEF TimerInit, CellsOf
<1>7. LeftInv
  BY DEF TimerInit, LeftInv, FirstOf
<1> QED BY <1>3, <1>5, <1>6, <1>7 DEF TimerInit, TimerInv, Ahead

(* The cell of a timer.                                                    *)
LEMMA CellPlace ==
  ASSUME TimerInv, NEW e, e.tick \in Nat, InRange(e.tick), e.tick >= ticknow_
  PROVE  /\ Cell(e, slot_now_)[1] \in Wheel /\ Cell(e, slot_now_)[2] \in 0 .. SLOT_PER_WHEEL
         /\ Cell(e, Digits(ticknow_)) = <<Cell(e, slot_now_)[1], Cell(e, slot_now_)[2]>>
         /\ Cell(e, Digits(ticknow_)) = <<0, Slot(ticknow_, 0)>> <=> e.tick = ticknow_
<1>1. PICK w \in Wheel : w = WhichWheel(e.tick, Digits(ticknow_)) /\ Slot(e.tick, w) \in 0 .. SLOT_PER_WHEEL
  BY CellIs DEF TimerInv
<1>2. Cell(e, Digits(ticknow_)) = <<w, Slot(e.tick, w)>> /\ slot_now_ = Digits(ticknow_)
  BY <1>1 DEF Cell, TimerInv
<1>3. w = 0 /\ Slot(e.tick, 0) = Slot(ticknow_, 0) <=> e.tick = ticknow_
  BY <1>1, CellOfNow DEF TimerInv
<1> QED BY <1>1, <1>2, <1>3

(* add_timer puts the timer into its cell (ax_timer.cc:65-91).             *)
LEMMA AddInv ==
  ASSUME TimerInv, NEW t \in Timeouts, AddTimer(t)
  PROVE  /\ TimerInv'
         /\ \E e : /\ entry_map_' = entry_map_ \cup {e} /\ e \in Timers /\ e.tick > ticknow_
                   /\ e.handle = handle_ + 1
<1> DEFINE ticks == IF t > TickInterval THEN t \div TickInterval ELSE 1
<1>1. PICK e : e = [handle |-> handle_ + 1, tick |-> ticknow_ + ticks]
  OBVIOUS
<1>2. ticks \in Nat /\ ticks > 0
  <2>1. t \in Nat /\ TickInterval \in Nat \ {0}
    BY WheelAssumption
  <2>2. CASE t > TickInterval
    <3> DEFINE q == t \div TickInterval
               r == t % TickInterval
    <3>1. q \in Nat /\ r \in Nat /\ r < TickInterval /\ t = q * TickInterval + r
      BY <2>1, DivMod
    <3> HIDE DEF q, r
    <3>2. q # 0
      BY <2>1, <2>2, <3>1
    <3> QED BY <2>2, <3>1, <3>2 DEF q
  <2> QED BY <2>2
<1> HIDE DEF ticks
<1>3. /\ handle_' = handle_ + 1 /\ entry_map_' = entry_map_ \cup {e} /\ InRange(e.tick)
      /\ wheel_' = Insert(wheel_, slot_now_, e)
      /\ UNCHANGED <<ticknow_, slot_now_, backlog, phase, due, left, next_>>
  BY <1>1 DEF AddTimer, ticks
<1>4. e \in Timers /\ e.tick > ticknow_ /\ e.handle = handle_ + 1 /\ e.tick \in Nat
  BY <1>1, <1>2 DEF TimerInv, Timers
<1>5. PICK k, n : k = Cell(e, slot_now_)[1] /\ n = Cell(e, slot_now_)[2]
  OBVIOUS
<1>6. k \in Wheel /\ n \in 0 .. SLOT_PER_WHEEL /\ Cell(e, Digits(ticknow_)) = <<k, n>>
  BY <1>3, <1>4, <1>5, CellPlace DEF TimerInv
<1>7. wheel_' = CellsOf(entry_map_', ticknow_)
  <2>1. IsWheels(wheel_) /\ HeldAt(wheel_, entry_map_, ticknow_)
    BY CellsEqual DEF TimerInv
  <2>2. Replaced(wheel_', wheel_, k, n, wheel_[k][n] \cup {e})
    BY <1>3, <1>5, <1>6, <2>1 DEF Insert, Replaced, IsWheels
  <2>3. IsWheels(wheel_') /\ \A j \in Wheel, s \in 0 .. SLOT_PER_WHEEL :
          wheel_'[j][s] = IF <<j, s>> = <<k, n>> THEN wheel_[k][n] \cup {e} ELSE wheel_[j][s]
    BY <1>6, <2>1, <2>2, CellExcept
  <2>4. HeldAt(wheel_', entry_map_', ticknow_)
    <3> SUFFICES ASSUME NEW j \in Wheel, NEW s \in 0 .. SLOT_PER_WHEEL, NEW x
                 PROVE  x \in wheel_'[j][s] <=> x \in entry_map_' /\ Cell(x, Digits(ticknow_)) = <<j, s>>
      BY DEF HeldAt
    <3>1. x \in wheel_[j][s] <=> x \in entry_map_ /\ Cell(x, Digits(ticknow_)) = <<j, s>>
      BY <2>1 DEF HeldAt
    <3>2. <<j, s>> = <<k, n>> => wheel_[j][s] = wheel_[k][n]
      OBVIOUS
    <3>3. x \in wheel_'[j][s] <=> x \in wheel_[j][s] \/ (<<j, s>> = <<k, n>> /\ x = e)
      BY <2>3, <3>2
    <3> QED BY <1>3, <1>6, <3>1, <3>3
  <2> QED BY <2>3, <2>4, CellsEqual
<1>8. TimerInv'
  <2>1. entry_map_' \subseteq Timers /\ Ahead(entry_map_', ticknow_)
    BY <1>3, <1>4 DEF TimerInv, Ahead
  <2>2. \A x \in entry_map_' : x.handle <= handle_ + 1
    BY <1>3, <1>4 DEF TimerInv, Timers
  <2>3. due = {x \in entry_map_' : x.tick = ticknow_}
    BY <1>3, <1>4 DEF TimerInv
  <2>4. LeftInv'
    BY <1>3 DEF TimerInv, LeftInv
  <2> QED BY <1>3, <1>7, <2>1, <2>2, <2>3, <2>4 DEF TimerInv
<1> QED BY <1>3, <1>4, <1>8

(* del_timer finds the timer where which_slot says (ax_timer.cc:93-124).   *)
LEMMA DelInv ==
  ASSUME TimerInv, NEW e, DelTimer(e)
  PROVE  TimerInv' /\ e \in entry_map_ /\ entry_map_' = entry_map_ \ {e}
<1>1. /\ e \in entry_map_ /\ entry_map_' = entry_map_ \ {e}
      /\ wheel_' = [wheel_ EXCEPT ![Cell(e, slot_now_)[1]][Cell(e, slot_now_)[2]] = @ \ {e}]
      /\ due' = due \ {e} /\ left' = IF e = next_ THEN left ELSE left \ {e}
      /\ UNCHANGED <<ticknow_, slot_now_, handle_, phase, next_>>
  BY DEF DelTimer
<1>2. e.tick \in Nat /\ InRange(e.tick) /\ e.tick >= ticknow_
  BY <1>1 DEF TimerInv, Ahead
<1>3. PICK k, n : k = Cell(e, slot_now_)[1] /\ n = Cell(e, slot_now_)[2]
  OBVIOUS
<1>4. k \in Wheel /\ n \in 0 .. SLOT_PER_WHEEL /\ Cell(e, Digits(ticknow_)) = <<k, n>>
  BY <1>2, <1>3, CellPlace
<1>5. wheel_' = CellsOf(entry_map_', ticknow_)
  <2>1. IsWheels(wheel_) /\ HeldAt(wheel_, entry_map_, ticknow_)
    BY CellsEqual DEF TimerInv
  <2>2. Replaced(wheel_', wheel_, k, n, wheel_[k][n] \ {e})
    BY <1>1, <1>3, <1>4, <2>1 DEF Replaced, IsWheels
  <2>3. IsWheels(wheel_') /\ \A j \in Wheel, s \in 0 .. SLOT_PER_WHEEL :
          wheel_'[j][s] = IF <<j, s>> = <<k, n>> THEN wheel_[k][n] \ {e} ELSE wheel_[j][s]
    BY <1>4, <2>1, <2>2, CellExcept
  <2>4. HeldAt(wheel_', entry_map_', ticknow_)
    <3> SUFFICES ASSUME NEW j \in Wheel, NEW s \in 0 .. SLOT_PER_WHEEL, NEW x
                 PROVE  x \in wheel_'[j][s] <=> x \in entry_map_' /\ Cell(x, Digits(ticknow_)) = <<j, s>>
      BY DEF HeldAt
    <3>1. x \in wheel_[j][s] <=> x \in entry_map_ /\ Cell(x, Digits(ticknow_)) = <<j, s>>
      BY <2>1 DEF HeldAt
    <3>2. <<j, s>> = <<k, n>> => wheel_[j][s] = wheel_[k][n]
      OBVIOUS
    <3>3. x \in wheel_'[j][s] <=> x \in wheel_[j][s] /\ ~(<<j, s>> = <<k, n>> /\ x = e)
      BY <2>3, <3>2
    <3> QED BY <1>1, <1>4, <3>1, <3>3
  <2> QED BY <2>3, <2>4, CellsEqual
<1>6. /\ entry_map_' \subseteq Timers /\ Ahead(entry_map_', ticknow_)
      /\ \A x \in entry_map_' : x.handle <= handle_
      /\ due' = {x \in entry_map_' : x.tick = ticknow_}
  BY <1>1, <1>2 DEF TimerInv, Ahead
<1>7. LeftInv'
  <2>1. LeftInv
    BY DEF TimerInv
  <2>2. left' \subseteq left /\ left' \subseteq due' \cup {next_}
    BY <1>1, <2>1 DEF LeftInv
  <2>3. next_ \in FirstOf(left')
    BY <1>1, <2>1 DEF LeftInv, FirstOf
  <2> QED BY <1>1, <2>1, <2>2, <2>3 DEF LeftInv
<1> QED BY <1>1, <1>5, <1>6, <1>7 DEF TimerInv

(* process_tick up to its callbacks: the list it runs are the timers of    *)
(* the new tick (ax_timer.cc:141-176).                                     *)
LEMMA TickInv ==
  ASSUME TimerInv, ProcessTick
  PROVE  /\ TimerInv' /\ ticknow_' = ticknow_ + 1 /\ entry_map_' = entry_map_ /\ left' = due'
         /\ left = {} /\ due = {}
<1>1. PICK y \in Nat : y = ticknow_
  BY DEF TimerInv
<1>2. PICK c : c = Turned[TOTAL_WHEEL - 1]
  OBVIOUS
<1>3. /\ phase = "poll" /\ InRange(y + 1) /\ ticknow_' = y + 1 /\ slot_now_' = c.now
      /\ wheel_' = c.wheel /\ phase' = "tick" /\ due' = c.wheel[0][c.now[0]] /\ left' = due'
      /\ next_' \in FirstOf(left') /\ entry_map_' = entry_map_ /\ handle_' = handle_
  BY <1>1, <1>2 DEF ProcessTick
<1>4. due = {} /\ left = {} /\ \A e \in entry_map_ : e.tick # y
  BY <1>1, <1>3 DEF TimerInv
<1>5. Ahead(entry_map_, y + 1)
  BY <1>1, <1>4 DEF TimerInv, Ahead
<1>6. PICK E : E = entry_map_
  OBVIOUS
<1>7. InRange(y) /\ slot_now_ = Digits(y) /\ wheel_ = CellsOf(E, y) /\ Ahead(E, y + 1)
  BY <1>1, <1>5, <1>6 DEF TimerInv
<1>8. c.now = Digits(y + 1) /\ c.wheel = CellsOf(E, y + 1)
  BY <1>2, <1>3, <1>7, TickTurns
<1>9. due' = {e \in E : e.tick = y + 1}
  <2>1. 0 \in Wheel /\ SLOT_PER_WHEEL \in Nat \ {0}
    BY WheelAssumption DEF Wheel
  <2>2. c.now[0] = Slot(y + 1, 0) /\ Slot(y + 1, 0) \in 0 .. SLOT_PER_WHEEL
    <3>1. Slot(y + 1, 0) \in 0 .. SLOT_PER_WHEEL - 1
      BY <2>1, RestStep
    <3> QED BY <1>8, <2>1, <3>1 DEF Digits
  <2>3. due' = {e \in E : Cell(e, Digits(y + 1)) = <<0, Slot(y + 1, 0)>>}
    BY <1>3, <1>8, <2>1, <2>2 DEF CellsOf
  <2>4. ASSUME NEW e \in E
        PROVE  Cell(e, Digits(y + 1)) = <<0, Slot(y + 1, 0)>> <=> e.tick = y + 1
    <3>1. e.tick \in Nat /\ InRange(e.tick) /\ e.tick >= y + 1
      BY <1>7 DEF Ahead
    <3>2. WhichWheel(e.tick, Digits(y + 1)) = 0 /\ Slot(e.tick, 0) = Slot(y + 1, 0) <=> e.tick = y + 1
      BY <1>3, <3>1, CellOfNow
    <3> QED BY <3>2 DEF Cell
  <2> QED BY <2>3, <2>4
<1>10. LeftInv'
  <2>1. \A e \in left' : e.tick = y + 1 /\ e.handle \in Nat /\ e.handle <= handle_
    BY <1>3, <1>6, <1>9 DEF TimerInv, Timers
  <2>2. NoEntry \notin left'
    BY <2>1 DEF NoEntry
  <2> QED BY <1>3, <2>1, <2>2 DEF LeftInv
<1> QED BY <1>1, <1>3, <1>4, <1>5, <1>6, <1>8, <1>9, <1>10 DEF TimerInv

(* The end of process_tick removes those it called (ax_timer.cc:183-192).  *)
LEMMA EndInv ==
  ASSUME TimerInv, EndTick
  PROVE  TimerInv' /\ entry_map_' = entry_map_ \ due /\ left = {} /\ due' = {}
<1>1. /\ left = {} /\ entry_map_' = entry_map_ \ due
      /\ wheel_' = [wheel_ EXCEPT ![0][slot_now_[0]] = {}]
      /\ phase' = "poll" /\ due' = {} /\ UNCHANGED <<ticknow_, slot_now_, handle_, left, next_>>
  BY DEF EndTick, TimerInv, LeftInv, FirstOf
<1>2. PICK n : n = slot_now_[0]
  OBVIOUS
<1>3. 0 \in Wheel /\ n = Slot(ticknow_, 0) /\ n \in 0 .. SLOT_PER_WHEEL
  <2>1. 0 \in Wheel /\ SLOT_PER_WHEEL \in Nat \ {0}
    BY WheelAssumption DEF Wheel
  <2>2. Slot(ticknow_, 0) \in 0 .. SLOT_PER_WHEEL - 1
    BY <2>1, RestStep DEF TimerInv
  <2> QED BY <1>2, <2>1, <2>2 DEF TimerInv, Digits
<1>4. wheel_' = CellsOf(entry_map_', ticknow_)
  <2>1. IsWheels(wheel_) /\ HeldAt(wheel_, entry_map_, ticknow_)
    BY CellsEqual DEF TimerInv
  <2>2. Replaced(wheel_', wheel_, 0, n, {})
    BY <1>1, <1>2 DEF Replaced
  <2>3. IsWheels(wheel_') /\ \A j \in Wheel, s \in 0 .. SLOT_PER_WHEEL :
          wheel_'[j][s] = IF <<j, s>> = <<0, n>> THEN {} ELSE wheel_[j][s]
    BY <1>3, <2>1, <2>2, CellExcept
  <2>4. HeldAt(wheel_', entry_map_', ticknow_)
    <3> SUFFICES ASSUME NEW j \in Wheel, NEW s \in 0 .. SLOT_PER_WHEEL, NEW x
                 PROVE  x \in wheel_'[j][s] <=> x \in entry_map_' /\ Cell(x, Digits(ticknow_)) = <<j, s>>
      BY DEF HeldAt
    <3>1. x \in wheel_[j][s] <=> x \in entry_map_ /\ Cell(x, Digits(ticknow_)) = <<j, s>>
      BY <2>1 DEF HeldAt
    <3>2. x \in entry_map_ => (Cell(x, Digits(ticknow_)) = <<0, n>> <=> x \in due)
      <4> SUFFICES ASSUME x \in entry_map_ PROVE Cell(x, Digits(ticknow_)) = <<0, n>> <=> x \in due
        OBVIOUS
      <4>1. x.tick \in Nat /\ InRange(x.tick) /\ x.tick >= ticknow_
        BY DEF TimerInv, Ahead
      <4> QED BY <1>3, <4>1, CellPlace DEF TimerInv
    <3> QED BY <1>1, <2>3, <3>1, <3>2
  <2> QED BY <2>3, <2>4, CellsEqual
<1>5. /\ entry_map_' \subseteq Timers /\ Ahead(entry_map_', ticknow_)
      /\ \A x \in entry_map_' : x.handle <= handle_
      /\ {} = {x \in entry_map_' : x.tick = ticknow_}
  BY <1>1 DEF TimerInv, Ahead
<1>6. LeftInv'
  BY <1>1 DEF TimerInv, LeftInv
<1> QED BY <1>1, <1>4, <1>5, <1>6 DEF TimerInv

(* The callback loop goes on to the entry behind the one it calls          *)
(* (ax_timer.cc:176-181).                                                  *)
LEMMA CallInv ==
  ASSUME TimerInv, NEW e \in entry_map_, CallBack(e)
  PROVE  /\ TimerInv' /\ e \in left /\ left' = left \ {e}
         /\ UNCHANGED <<ticknow_, entry_map_, due>>
<1>1. /\ e = next_ /\ phase' = "call" /\ left' = left \ {e} /\ next_' \in FirstOf(left')
      /\ UNCHANGED <<ticknow_, slot_now_, wheel_, entry_map_, handle_, due>>
  BY DEF CallBack
<1>2. e \in left
  <2>1. CASE left = {}
    <3>1. e = NoEntry /\ e.tick = 0 /\ e.handle = 0
      BY <1>1, <2>1 DEF TimerInv, LeftInv, FirstOf, NoEntry
    <3> QED BY <3>1 DEF TimerInv, Timers
  <2>2. CASE left # {}
    BY <1>1, <2>2 DEF TimerInv, LeftInv, FirstOf
  <2> QED BY <2>1, <2>2
<1>3. LeftInv'
  BY <1>1 DEF TimerInv, LeftInv
<1> QED BY <1>1, <1>2, <1>3 DEF TimerInv

(* Every step of the timer preserves the invariant.                        *)
LEMMA NextTimerInv == TimerInv /\ [TimerNext]_timerVars => TimerInv'
<1> SUFFICES ASSUME TimerInv, [TimerNext]_timerVars PROVE TimerInv'
  OBVIOUS
<1>1. ASSUME NEW t \in Timeouts, AddTimer(t)  PROVE TimerInv'
  BY <1>1, AddInv
<1>2. ASSUME NEW e \in entry_map_, DelTimer(e)  PROVE TimerInv'
  BY <1>2, DelInv
<1>3. ASSUME NEW e \in entry_map_, CallBack(e)  PROVE TimerInv'
  BY <1>3, CallInv
<1>4. ASSUME EndTick  PROVE TimerInv'
  BY <1>4, EndInv
<1>5. ASSUME ProcessTick  PROVE TimerInv'
  BY <1>5, TickInv
<1>6. ASSUME NEW n \in 1 .. MaxBacklog, TimerRoutine(n)  PROVE TimerInv'
  BY <1>6 DEF TimerRoutine, TimerInv, LeftInv
<1>7. ASSUME UseFreed  PROVE TimerInv'
  BY <1>7 DEF UseFreed, TimerInv, LeftInv
<1>8. CASE UNCHANGED timerVars
  BY <1>8 DEF timerVars, TimerInv, LeftInv
<1> QED BY <1>1, <1>2, <1>3, <1>4, <1>5, <1>6, <1>7, <1>8 DEF TimerNext, Routine

(* The wheels hold exactly the timers that are set.                        *)
LEMMA EntriesAre == TimerInv => Entries = entry_map_
<1> SUFFICES ASSUME TimerInv PROVE Entries = entry_map_
  OBVIOUS
<1>1. IsWheels(wheel_) /\ HeldAt(wheel_, entry_map_, ticknow_)
  BY CellsEqual DEF TimerInv
<1>2. \A x \in Entries : x \in entry_map_
  BY <1>1 DEF Entries, HeldAt
<1>3. ASSUME NEW x \in entry_map_  PROVE x \in Entries
  <2>1. x.tick \in Nat /\ InRange(x.tick) /\ x.tick >= ticknow_
    BY DEF TimerInv, Ahead
  <2>2. PICK k \in Wheel, n \in 0 .. SLOT_PER_WHEEL : Cell(x, Digits(ticknow_)) = <<k, n>>
    BY <2>1, CellPlace
  <2>3. x \in wheel_[k][n]
    BY <1>1, <2>2 DEF HeldAt
  <2> QED BY <2>3 DEF Entries
<1> QED BY <1>2, <1>3

(* The timing wheels implement Deadlines, for any number of wheels and     *)
(* slots and any tick: a timer goes off in its tick, once, however often   *)
(* it was moved from wheel to wheel and whatever callbacks add and delete, *)
(* timers of the running tick included, as long as process_tick uses no    *)
(* freed entry (ax_timer.cc:65-192), which it does when a callback deletes *)
(* the first timer of the tick or the one behind its own: FreedOnce.       *)
THEOREM TimersKeepDeadlines == TimerSpec => DeadlinesSpec
<1> DEFINE dvars == <<ticknow_, Entries \ due, left>>
<1>1. TimerInit => D!Init
  <2> SUFFICES ASSUME TimerInit PROVE D!Init
    OBVIOUS
  <2>1. TimerInv
    BY InitTimerInv
  <2>2. Entries = {} /\ ticknow_ = 0 /\ left = {}
    BY <2>1, EntriesAre DEF TimerInit
  <2> QED BY <2>2 DEF D!Init
<1>2. (TimerInv => Entries = entry_map_)'
  BY EntriesAre, PTL
<1>3. TimerInv /\ TimerInv' /\ [TimerNext]_timerVars => [D!Next]_dvars
  <2> SUFFICES ASSUME TimerInv, TimerInv', [TimerNext]_timerVars PROVE [D!Next]_dvars
    OBVIOUS
  <2>0. Entries = entry_map_ /\ Entries' = entry_map_'
    BY <1>2, EntriesAre
  <2>1. ASSUME NEW t \in Timeouts, AddTimer(t)  PROVE D!Next
    <3>1. PICK e : /\ entry_map_' = entry_map_ \cup {e} /\ e \in Timers /\ e.tick > ticknow_
                   /\ e.handle = handle_ + 1
      BY <2>1, AddInv
    <3>2. UNCHANGED <<ticknow_, due, left>>
      BY <2>1 DEF AddTimer
    <3>3. \A x \in entry_map_ : x.handle # e.handle
      BY <3>1 DEF TimerInv, Timers
    <3>4. e \notin entry_map_ /\ due \subseteq entry_map_ /\ \A x \in left : x.handle # e.handle
      BY <3>1, <3>3 DEF TimerInv, LeftInv
    <3>5. Entries' \ due' = (Entries \ due) \cup {e} /\ e \notin Entries \ due
      BY <2>0, <3>1, <3>2, <3>4
    <3>6. e = [handle |-> e.handle, tick |-> e.tick]
      BY <3>1 DEF Timers
    <3>7. D!Set(e.handle, e.tick)
      BY <2>0, <3>1, <3>2, <3>3, <3>4, <3>5, <3>6 DEF D!Set
    <3> QED BY <3>5, <3>7 DEF D!Next
  <2>2. ASSUME NEW e \in entry_map_, DelTimer(e)  PROVE [D!Next]_dvars
    <3>1. entry_map_' = entry_map_ \ {e}
      BY <2>2, DelInv
    <3>2. due' = due \ {e} /\ left' = (IF e = next_ THEN left ELSE left \ {e}) /\ ticknow_' = ticknow_
      BY <2>2 DEF DelTimer
    <3>3. Entries' \ due' = (Entries \ due) \ {e}
      BY <2>0, <3>1, <3>2
    <3>4. CASE e # next_ /\ e \in (Entries \ due) \cup left
      <4>1. D!Cancel(e)
        BY <3>2, <3>3, <3>4 DEF D!Cancel
      <4> QED BY <3>4, <4>1 DEF D!Next
    <3>5. CASE e # next_ /\ e \notin (Entries \ due) \cup left
      <4>1. Entries' \ due' = Entries \ due /\ left' = left
        BY <3>2, <3>3, <3>5
      <4> QED BY <3>2, <4>1
    <3>6. CASE e = next_
      <4>1. e \in due \/ left = {}
        BY <3>6 DEF TimerInv, LeftInv, FirstOf
      <4>2. left = {} => e \in due
        <5> SUFFICES ASSUME left = {} PROVE FALSE
          OBVIOUS
        <5>1. e.handle = 0
          BY <3>6 DEF TimerInv, LeftInv, FirstOf, NoEntry
        <5> QED BY <5>1 DEF TimerInv, Timers
      <4>3. Entries' \ due' = Entries \ due /\ left' = left
        BY <3>2, <3>3, <3>6, <4>1, <4>2
      <4> QED BY <3>2, <4>3
    <3> QED BY <3>4, <3>5, <3>6
  <2>3. ASSUME NEW e \in entry_map_, CallBack(e)  PROVE D!Next
    <3>1. e \in left /\ left' = left \ {e} /\ UNCHANGED <<ticknow_, entry_map_, due>>
      BY <2>3, CallInv
    <3>2. D!Call(e)
      BY <2>0, <3>1 DEF D!Call
    <3> QED BY <3>1, <3>2 DEF D!Next
  <2>4. ASSUME EndTick  PROVE UNCHANGED dvars
    <3>1. entry_map_' = entry_map_ \ due /\ due' = {} /\ UNCHANGED <<ticknow_, left>>
      BY <2>4 DEF EndTick
    <3> QED BY <2>0, <3>1
  <2>5. ASSUME ProcessTick  PROVE D!Next
    <3>1. /\ ticknow_' = ticknow_ + 1 /\ entry_map_' = entry_map_ /\ left' = due'
          /\ left = {} /\ due = {}
      BY <2>5, TickInv
    <3>2. due' = {e \in entry_map_' : e.tick = ticknow_'}
      BY DEF TimerInv
    <3>3. D!Tick
      BY <2>0, <3>1, <3>2 DEF D!Tick
    <3> QED BY <3>3 DEF D!Next
  <2>6. ASSUME NEW n \in 1 .. MaxBacklog, TimerRoutine(n)  PROVE UNCHANGED dvars
    BY <2>0, <2>6 DEF TimerRoutine
  <2>7. ASSUME UseFreed  PROVE UNCHANGED dvars
    BY <2>0, <2>7 DEF UseFreed
  <2>8. CASE UNCHANGED timerVars
    BY <2>0, <2>8 DEF timerVars
  <2> HIDE DEF dvars
  <2> QED BY <2>1, <2>2, <2>3, <2>4, <2>5, <2>6, <2>7, <2>8 DEF TimerNext, Routine
<1> QED BY <1>1, <1>3, InitTimerInv, NextTimerInv, PTL DEF TimerSpec, DeadlinesSpec, D!Spec
=============================================================================
