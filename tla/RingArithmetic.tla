--------------------------- MODULE RingArithmetic ---------------------------
(***************************************************************************)
(* Facts about a cursor that walks round a ring of n slots, as             *)
(* ReceiveBuffer.readPosition does: the remainder of the successor.        *)
(***************************************************************************)
EXTENDS Integers, TLAPS

(* Quotient and remainder of a natural number, used for every slot index. *)
LEMMA DivMod ==
    ASSUME NEW a \in Nat, NEW n \in Nat \ {0}
    PROVE  /\ a \div n \in Nat
           /\ a % n \in 0 .. n - 1
           /\ a = n * (a \div n) + (a % n)
OBVIOUS

(* One more lap is at least n further on. *)
LEMMA LapsApart ==
    ASSUME NEW n \in Nat, NEW p \in Nat, NEW q \in Nat, p < q
    PROVE  n * p + n <= n * q
<1>1. PICK d \in Nat : q = p + 1 + d
  BY SMT
<1>2. n * q = n * p + n + n * d
  BY <1>1, SMT
<1>3. n * d \in Nat /\ n * p \in Nat
  OBVIOUS
<1> QED
  BY <1>2, <1>3

(* A count determines the position in the ring. *)
LEMMA RemainderUnique ==
    ASSUME NEW n \in Nat \ {0}, NEW p \in Nat, NEW q \in Nat,
           NEW r \in 0 .. n - 1, NEW s \in 0 .. n - 1,
           n * p + r = n * q + s
    PROVE  r = s
<1>1. n * p \in Nat /\ n * q \in Nat
  OBVIOUS
<1>2. CASE p < q
  BY <1>1, <1>2, LapsApart
<1>3. CASE q < p
  BY <1>1, <1>3, LapsApart
<1>4. CASE p = q
  BY <1>1, <1>4
<1> QED
  BY <1>2, <1>3, <1>4

(* The step of the cursor: increment() of ReceiveBuffer wraps exactly when *)
(* the remainder of the count does.                                        *)
LEMMA RemainderOfSuccessor ==
    ASSUME NEW a \in Nat, NEW n \in Nat \ {0}
    PROVE  (a + 1) % n = IF (a % n) + 1 = n THEN 0 ELSE (a % n) + 1
<1> DEFINE q == a \div n
           r == a % n
           nq == (a + 1) \div n
           nr == (a + 1) % n
<1>1. q \in Nat /\ r \in 0 .. n - 1 /\ a = n * q + r
  BY DivMod
<1>2. nq \in Nat /\ nr \in 0 .. n - 1 /\ a + 1 = n * nq + nr
  <2>1. a + 1 \in Nat
    OBVIOUS
  <2> QED
    BY <2>1, DivMod
<1> HIDE DEF q, r, nq, nr
<1>3. n * (q + 1) = n * q + n
  BY <1>1
<1>4. n * q \in Nat /\ n * nq \in Nat
  BY <1>1, <1>2
<1>5. CASE r + 1 = n
  <2>1. n * nq + nr = n * (q + 1) + 0
    BY <1>1, <1>2, <1>3, <1>4, <1>5
  <2>2. nr = 0
    BY <2>1, <1>1, <1>2, RemainderUnique
  <2> QED
    BY <2>2, <1>5 DEF nr, r
<1>6. CASE r + 1 # n
  <2>1. r + 1 \in 0 .. n - 1
    BY <1>1, <1>6
  <2>2. n * nq + nr = n * q + (r + 1)
    BY <1>1, <1>2, <1>4
  <2>3. nr = r + 1
    BY <2>1, <2>2, <1>1, <1>2, RemainderUnique
  <2> QED
    BY <2>3, <1>6 DEF nr, r
<1> QED
  BY <1>5, <1>6
=============================================================================
