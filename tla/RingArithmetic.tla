--------------------------- MODULE RingArithmetic ---------------------------
(***************************************************************************)
(* Positions modulo a capacity: the arithmetic of head & RING_MASK that    *)
(* the proofs about both models of the audit ring need.                    *)
(***************************************************************************)
EXTENDS Integers, TLAPS

\* A remainder is told by any quotient.
LEMMA Remainder ==
  ASSUME NEW C \in Nat \ {0}, NEW n \in Int, NEW r \in 0 .. C - 1
  PROVE  ((C * n + r) % C) = r
OBVIOUS

LEMMA Quotient ==
  ASSUME NEW C \in Nat \ {0}, NEW a \in Nat
  PROVE  \E q \in Nat, r \in 0 .. C - 1 : a = C * q + r /\ (a % C) = r
<1>. DEFINE q == a \div C
            r == a % C
<1>1. a = C * q + r /\ q \in Nat /\ r \in 0 .. C - 1
  OBVIOUS
<1>. QED BY <1>1

\* Two positions less than a lap apart never share a slot.
LEMMA ModInjective ==
  ASSUME NEW C \in Nat \ {0}, NEW a \in Nat, NEW b \in Nat, a < b, b < a + C
  PROVE  (a % C) # (b % C)
<1>. SUFFICES ASSUME (a % C) = (b % C) PROVE FALSE
  OBVIOUS
<1>1. PICK p \in Nat, r \in 0 .. C - 1 : a = C * p + r /\ (a % C) = r
  BY Quotient
<1>2. PICK q \in Nat, s \in 0 .. C - 1 : b = C * q + s /\ (b % C) = s
  BY Quotient
<1>3. b - a = C * (q - p)
  BY <1>1, <1>2
<1>4. CASE q - p <= 0
  <2>1. C * (q - p) <= 0
    BY <1>4
  <2>. QED BY <1>3, <2>1
<1>5. CASE q - p >= 1
  <2>1. C * (q - p) >= C
    BY <1>5
  <2>. QED BY <1>3, <2>1
<1>. QED BY <1>4, <1>5

\* A position and the one a lap later share their slot.
LEMMA ModPeriodic ==
  ASSUME NEW C \in Nat \ {0}, NEW a \in Nat
  PROVE  (a % C) \in 0 .. C - 1 /\ ((a + C) % C) = (a % C)
<1>1. PICK q \in Nat, r \in 0 .. C - 1 : a = C * q + r /\ (a % C) = r
  BY Quotient
<1>2. a + C = C * (q + 1) + r
  BY <1>1
<1>3. ((C * (q + 1) + r) % C) = r
  BY Remainder
<1>. QED BY <1>1, <1>2, <1>3

\* Every window of a lap reaches every slot.
LEMMA ModCovered ==
  ASSUME NEW C \in Nat \ {0}, NEW t \in Nat, NEW i \in 0 .. C - 1
  PROVE  \E k \in t .. t + C - 1 : (k % C) = i
<1>1. PICK q \in Nat, r \in 0 .. C - 1 : t = C * q + r /\ (t % C) = r
  BY Quotient
<1>2. CASE i >= r
  <2>1. ((C * q + i) % C) = i
    BY Remainder
  <2>2. C * q + i = t + (i - r)
    BY <1>1
  <2>3. t + (i - r) \in t .. t + C - 1
    BY <1>2
  <2>. QED BY <2>1, <2>2, <2>3
<1>3. CASE i < r
  <2>1. ((C * (q + 1) + i) % C) = i
    BY Remainder
  <2>2. C * (q + 1) + i = t + (C + i - r)
    BY <1>1
  <2>3. t + (C + i - r) \in t .. t + C - 1
    BY <1>3
  <2>. QED BY <2>1, <2>2, <2>3
<1>. QED BY <1>2, <1>3

\* Counting modulo a number of whole laps changes no slot.
LEMMA ModOfMod ==
  ASSUME NEW C \in Nat \ {0}, NEW W \in Nat \ {0}, (W % C) = 0, NEW k \in Nat
  PROVE  ((k % W) % C) = (k % C)
<1>1. PICK c \in Nat, z \in 0 .. C - 1 : W = C * c + z /\ (W % C) = z
  BY Quotient
<1>2. PICK q \in Nat, r \in 0 .. W - 1 : k = W * q + r /\ (k % W) = r
  BY Quotient
<1>3. PICK p \in Nat, s \in 0 .. C - 1 : r = C * p + s /\ (r % C) = s
  BY <1>2, Quotient
<1>4. k = C * (c * q + p) + s
  BY <1>1, <1>2, <1>3
<1>5. c * q + p \in Int
  OBVIOUS
<1>6. ((C * (c * q + p) + s) % C) = s
  BY <1>5, Remainder
<1>. QED BY <1>2, <1>3, <1>4, <1>6

=============================================================================
