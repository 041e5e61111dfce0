--------------------------- MODULE HmcJourneyProofs ---------------------------
(***************************************************************************)
(* Proofs about the registers of a cube, the address mapping they make,    *)
(* and the way of a packet: wherever it is, its switch has one link for    *)
(* it, every hop within a cube brings it nearer, and what comes back to a  *)
(* host is the response to what that host has sent.                        *)
(***************************************************************************)
EXTENDS HmcJourney, HmcRecursionProofs, FiniteSetTheorems

-----------------------------------------------------------------------------
(* Powers of two and logarithms. *)

\* The provers know the powers of numbers that are written out, no others.
LEMMA Doubles ==
  ASSUME NEW k \in 0 .. 29
  PROVE  2^k \in Nat \ {0} /\ 2^(k + 1) = 2 * 2^k
<1>1. CASE k = 0
  BY <1>1
<1>2. CASE k = 1
  BY <1>2
<1>3. CASE k = 2
  BY <1>3
<1>4. CASE k = 3
  BY <1>4
<1>5. CASE k = 4
  BY <1>5
<1>6. CASE k = 5
  BY <1>6
<1>7. CASE k = 6
  BY <1>7
<1>8. CASE k = 7
  BY <1>8
<1>9. CASE k = 8
  BY <1>9
<1>10. CASE k = 9
  BY <1>10
<1>11. CASE k = 10
  BY <1>11
<1>12. CASE k = 11
  BY <1>12
<1>13. CASE k = 12
  BY <1>13
<1>14. CASE k = 13
  BY <1>14
<1>15. CASE k = 14
  BY <1>15
<1>16. CASE k = 15
  BY <1>16
<1>17. CASE k = 16
  BY <1>17
<1>18. CASE k = 17
  BY <1>18
<1>19. CASE k = 18
  BY <1>19
<1>20. CASE k = 19
  BY <1>20
<1>21. CASE k = 20
  BY <1>21
<1>22. CASE k = 21
  BY <1>22
<1>23. CASE k = 22
  BY <1>23
<1>24. CASE k = 23
  BY <1>24
<1>25. CASE k = 24
  BY <1>25
<1>26. CASE k = 25
  BY <1>26
<1>27. CASE k = 26
  BY <1>27
<1>28. CASE k = 27
  BY <1>28
<1>29. CASE k = 28
  BY <1>29
<1>30. CASE k = 29
  BY <1>30
<1> QED BY <1>1, <1>2, <1>3, <1>4, <1>5, <1>6, <1>7, <1>8, <1>9, <1>10, <1>11, <1>12, <1>13, <1>14, <1>15, <1>16, <1>17, <1>18, <1>19, <1>20, <1>21, <1>22, <1>23, <1>24, <1>25, <1>26, <1>27, <1>28, <1>29, <1>30

\* The powers grow with the exponent.
LEMMA PowersGrow ==
  /\ \A k \in 0 .. 30 : 2^k \in Nat
  /\ \A j, k \in 0 .. 30 : j < k => 2^j < 2^k
<1> DEFINE I == {n \in Nat : n <= 30 => 2^n \in Nat /\ \A j \in 0 .. n - 1 : 2^j < 2^n}
<1>1. 0 \in I
  OBVIOUS
<1>2. ASSUME NEW n \in Nat, n \in I PROVE n + 1 \in I
  <2>1. CASE n + 1 <= 30
    <3>1. n \in 0 .. 29 /\ 2^n \in Nat /\ \A j \in 0 .. n - 1 : 2^j < 2^n
      BY <1>2, <2>1
    <3>2. 2^n \in Nat \ {0} /\ 2^(n + 1) = 2 * 2^n
      BY <3>1, Doubles
    <3> DEFINE p == 2^n
               q == 2^(n + 1)
    <3>3. p < q /\ q \in Nat
      BY <3>2
    <3>4. ASSUME NEW j \in 0 .. n PROVE 2^j < q
      <4>1. CASE j = n
        BY <3>3, <4>1
      <4>2. CASE j # n
        <5>1. j \in 0 .. n - 1
          BY <4>2
        <5> DEFINE r == 2^j
        <5>2. r \in Nat
          <6>1. j \in 0 .. 29
            BY <3>1, <5>1
          <6> QED BY <6>1, Doubles
        <5>3. r < p
          BY <3>1, <5>1
        <5> HIDE DEF p, q, r
        <5>4. r < q
          BY <3>2, <3>3, <5>2, <5>3 DEF p
        <5> QED BY <5>4 DEF r
      <4> QED BY <4>1, <4>2
    <3> QED BY <3>3, <3>4
  <2> QED BY <2>1
<1> HIDE DEF I
<1>3. \A n \in Nat : n \in I
  BY <1>1, <1>2, SetInduction
<1> QED BY <1>3 DEF I

\* The logarithm is the one between whose powers the number is.
LEMMA LogOf ==
  ASSUME NEW n \in Nat \ {0}, NEW m \in 0 .. 29, 2^m <= n, n < 2^(m + 1)
  PROVE  Log2(n) = m
<1>1. ASSUME NEW k \in 0 .. 29, 2^k <= n, n < 2^(k + 1) PROVE k = m
  <2>1. ASSUME NEW x \in 0 .. 29, NEW y \in 0 .. 29, x < y, n < 2^(x + 1), 2^y <= n
        PROVE FALSE
    <3>1. x + 1 = y \/ x + 1 < y
      BY <2>1
    <3>2. 2^(x + 1) \in Nat /\ 2^y \in Nat
      <4>1. x + 1 \in 0 .. 30 /\ y \in 0 .. 30
        OBVIOUS
      <4> QED BY <4>1, PowersGrow
    <3>3. CASE x + 1 = y
      BY <2>1, <3>2, <3>3
    <3>4. CASE x + 1 < y
      <4>1. x + 1 \in 0 .. 30 /\ y \in 0 .. 30
        OBVIOUS
      <4>2. 2^(x + 1) < 2^y
        BY <3>4, <4>1, PowersGrow
      <4> QED BY <2>1, <3>2, <4>2
    <3> QED BY <3>1, <3>3, <3>4
  <2>2. k = m \/ k < m \/ m < k
    OBVIOUS
  <2> QED BY <1>1, <2>1, <2>2
<1>2. Log2(n) = CHOOSE k \in 0 .. 29 : 2^k <= n /\ n < 2^(k + 1)
  BY DEF Log2
<1> QED BY <1>1, <1>2

LEMMA LogOfPower ==
  ASSUME NEW m \in 0 .. 29
  PROVE  Log2(2^m) = m
<1>1. 2^m \in Nat \ {0} /\ 2^(m + 1) = 2 * 2^m
  BY Doubles
<1>2. 2^m < 2^(m + 1)
  BY <1>1
<1> DEFINE p == 2^m
<1>3. p \in Nat \ {0} /\ 2^m <= p /\ p < 2^(m + 1)
  BY <1>1, <1>2
<1> HIDE DEF p
<1>4. Log2(p) = m
  BY <1>3, LogOf
<1> QED BY <1>4 DEF p

\* The logarithms of the sizes that occur.
LEMMA LogValues ==
  /\ Log2(0) = 0
  /\ Log2(4) = 2 /\ Log2(8) = 3 /\ Log2(16) = 4
  /\ Log2(32) = 5 /\ Log2(64) = 6 /\ Log2(128) = 7 /\ Log2(256) = 8
<1>1. 4 = 2^2 /\ 8 = 2^3 /\ 16 = 2^4 /\ 32 = 2^5 /\ 64 = 2^6 /\ 128 = 2^7 /\ 256 = 2^8
  OBVIOUS
<1>2. /\ Log2(2^2) = 2 /\ Log2(2^3) = 3 /\ Log2(2^4) = 4 /\ Log2(2^5) = 5 /\ Log2(2^6) = 6
      /\ Log2(2^7) = 7 /\ Log2(2^8) = 8
  BY LogOfPower
<1>3. Log2(0) = 0
  BY DEF Log2
<1> QED BY <1>1, <1>2, <1>3

\* The weights of 30 bits, as a sequence.
Weights(s) == [k \in 1 .. 30 |-> IF k - 1 \in s THEN 2^(k - 1) ELSE 0]

Weight(s) == Total(Weights(s))

LEMMA WeightsAddUp ==
  ASSUME NEW s \in SUBSET (0 .. 29)
  PROVE  /\ Weight(s) \in Nat
         /\ s = {} => Weight(s) = 0
         /\ \A b \in s : 2^b \in Nat \ {0} /\ Weight(s) = 2^b + Weight(s \ {b})
<1>1. ASSUME NEW t \in SUBSET (0 .. 29)
      PROVE  Weights(t) \in Seq(Nat) /\ Len(Weights(t)) = 30
  <2>1. ASSUME NEW k \in 1 .. 30
        PROVE  (IF k - 1 \in t THEN 2^(k - 1) ELSE 0) \in Nat
    <3> DEFINE j == k - 1
    <3>1. j \in 0 .. 29
      OBVIOUS
    <3> HIDE DEF j
    <3>2. 2^j \in Nat
      BY <3>1, Doubles
    <3> QED BY <3>2 DEF j
  <2>2. Weights(t) \in [1 .. 30 -> Nat]
    BY <2>1 DEF Weights
  <2> HIDE DEF Weights
  <2>3. \A n \in Nat : Weights(t) \in [1 .. n -> Nat] =>
                      Weights(t) \in Seq(Nat) /\ Len(Weights(t)) = n
    OBVIOUS
  <2> QED BY <2>2, <2>3
<1>2. Weight(s) \in Nat
  BY <1>1, TotalType DEF Weight
<1>3. ASSUME s = {} PROVE Weight(s) = 0
  <2> DEFINE w == Weights(s)
             N == {n \in Nat : Partial(w)[n] = 0}
  <2>1. \A k \in Nat : At(w, k) = 0
    BY <1>3 DEF At, Weights
  <2>2. w \in Seq(Nat) /\ Len(w) = 30
    BY <1>1
  <2> HIDE DEF w
  <2>3. 0 \in N
    BY <2>2, PartialRecursion
  <2>4. ASSUME NEW n \in Nat, n \in N PROVE n + 1 \in N
    <3>1. Partial(w)[n + 1] = Partial(w)[n] + At(w, n + 1)
      BY <2>2, PartialRecursion
    <3>2. Partial(w)[n] = 0 /\ At(w, n + 1) = 0
      BY <2>1, <2>4
    <3> QED BY <3>1, <3>2
  <2> HIDE DEF N
  <2>5. \A n \in Nat : n \in N
    BY <2>3, <2>4, SetInduction
  <2>6. Partial(w)[30] = 0
    BY <2>5 DEF N
  <2> QED BY <2>2, <2>6 DEF Weight, Total, w
<1>4. ASSUME NEW b \in s
      PROVE  2^b \in Nat \ {0} /\ Weight(s) = 2^b + Weight(s \ {b})
  <2> DEFINE k == b + 1
             v == Weights(s)
             w == Weights(s \ {b})
  <2>1. b \in 0 .. 29 /\ k \in 1 .. 30 /\ k - 1 = b
    OBVIOUS
  <2>2. 2^b \in Nat \ {0}
    BY <2>1, Doubles
  <2>3. v \in Seq(Nat) /\ Len(v) = 30 /\ s \ {b} \in SUBSET (0 .. 29)
    BY <1>1
  <2>4. v[k] = 2^b
    BY <2>1 DEF Weights
  <2>5. w = [v EXCEPT ![k] = 0]
    <3>1. ASSUME NEW i \in 1 .. 30
          PROVE  w[i] = IF i = k THEN 0 ELSE v[i]
      <4>1. i - 1 = b <=> i = k
        OBVIOUS
      <4> QED BY <4>1 DEF Weights
    <3> QED BY <3>1 DEF Weights
  <2> HIDE DEF v, w, k
  <2>6. Total([v EXCEPT ![k] = 0]) = (Total(v) - v[k]) + 0
    <3>1. k \in 1 .. Len(v)
      BY <2>1, <2>3
    <3>2. ASSUME NEW x \in Nat PROVE Total([v EXCEPT ![k] = x]) = (Total(v) - v[k]) + x
      BY <2>3, <3>1, TotalUpdate
    <3>3. 0 \in Nat
      OBVIOUS
    <3> QED BY <3>2, <3>3, Zenon
  <2>7. Total(v) \in Nat /\ Total(w) \in Nat
    BY <1>1, <2>3, TotalType DEF v, w
  <2>8. Total(v) = 2^b + Total(w)
    BY <2>2, <2>4, <2>5, <2>6, <2>7
  <2> QED BY <2>2, <2>8 DEF Weight, v, w
<1> QED BY <1>2, <1>3, <1>4

\* The fold over a set of bits adds up their weights, in whatever order the
\* bits are chosen.
LEMMA ValueIsWeight ==
  ASSUME NEW bits \in SUBSET (0 .. 29)
  PROVE  ValueOf(bits) = Weight(bits)
<1> DEFINE x(s) == CHOOSE b \in s : TRUE
           Fits(r) == r = [s \in SUBSET bits |->
                             IF s = {} THEN 0 ELSE 2^x(s) + r[s \ {x(s)}]]
           w == [s \in SUBSET bits |-> Weight(s)]
<1>1. ASSUME NEW s \in SUBSET bits, s # {}
      PROVE  x(s) \in s /\ Weight(s) = 2^x(s) + Weight(s \ {x(s)})
  <2>1. x(s) \in s
    BY <1>1
  <2> DEFINE b == x(s)
  <2> HIDE DEF b
  <2>2. b \in s => Weight(s) = 2^b + Weight(s \ {b})
    BY WeightsAddUp
  <2> QED BY <2>1, <2>2 DEF b
<1>2. Fits(w)
  <2>1. ASSUME NEW s \in SUBSET bits
        PROVE  Weight(s) = IF s = {} THEN 0 ELSE 2^x(s) + w[s \ {x(s)}]
    <3>1. CASE s = {}
      BY <3>1, WeightsAddUp
    <3>2. CASE s # {}
      BY <1>1, <3>2
    <3> QED BY <3>1, <3>2
  <2> QED BY <2>1
<1>3. ASSUME NEW s \in SUBSET (0 .. 29)
      PROVE  Weight(s) \in Nat /\ (s # {} => 2^x(s) \in Nat \ {0})
  <2> DEFINE b == x(s)
  <2>1. s # {} => b \in s
    OBVIOUS
  <2> HIDE DEF b
  <2>2. Weight(s) \in Nat /\ (b \in s => 2^b \in Nat \ {0})
    BY WeightsAddUp
  <2> QED BY <2>1, <2>2 DEF b
<1>4. ASSUME NEW r, Fits(r) PROVE r[bits] = Weight(bits)
  <2> DEFINE N == {n \in Nat : \A s \in SUBSET bits : Weight(s) <= n => r[s] = Weight(s)}
  <2>1. r[{}] = 0 /\ Weight({}) = 0
    BY <1>4, WeightsAddUp
  <2>2. ASSUME NEW s \in SUBSET bits, s # {}
        PROVE  /\ s \ {x(s)} \in SUBSET bits
               /\ Weight(s) \in Nat /\ Weight(s \ {x(s)}) \in Nat
               /\ Weight(s \ {x(s)}) < Weight(s)
               /\ r[s \ {x(s)}] = Weight(s \ {x(s)}) => r[s] = Weight(s)
    <3> DEFINE p == 2^x(s)
               t == s \ {x(s)}
    <3>1. r[s] = p + r[t]
      BY <1>4, <2>2
    <3>2. Weight(s) = p + Weight(t) /\ t \in SUBSET bits
      BY <1>1, <2>2
    <3>3. p \in Nat \ {0} /\ Weight(t) \in Nat
      BY <1>3, <2>2, <3>2
    <3> HIDE DEF p, t
    <3>4. /\ t \in SUBSET bits /\ Weight(s) \in Nat /\ Weight(t) \in Nat
          /\ Weight(t) < Weight(s)
          /\ r[t] = Weight(t) => r[s] = Weight(s)
      BY <3>1, <3>2, <3>3
    <3> QED BY <3>4 DEF t
  <2> HIDE DEF x
  <2>3. 0 \in N
    <3>1. ASSUME NEW s \in SUBSET bits, Weight(s) <= 0 PROVE r[s] = Weight(s)
      <4>1. CASE s = {}
        BY <2>1, <4>1
      <4>2. CASE s # {}
        <5> DEFINE t == s \ {x(s)}
        <5>1. Weight(s) \in Nat /\ Weight(t) \in Nat /\ Weight(t) < Weight(s)
          BY <2>2, <4>2
        <5> HIDE DEF t
        <5> QED BY <3>1, <5>1
      <4> QED BY <4>1, <4>2
    <3> QED BY <3>1
  <2>4. ASSUME NEW n \in Nat, n \in N PROVE n + 1 \in N
    <3>1. ASSUME NEW s \in SUBSET bits, Weight(s) <= n + 1 PROVE r[s] = Weight(s)
      <4>1. CASE s = {}
        BY <2>1, <4>1
      <4>2. CASE s # {}
        <5> DEFINE t == s \ {x(s)}
        <5>1. /\ t \in SUBSET bits /\ Weight(s) \in Nat /\ Weight(t) \in Nat
              /\ Weight(t) < Weight(s) /\ (r[t] = Weight(t) => r[s] = Weight(s))
          BY <2>2, <4>2
        <5> HIDE DEF t
        <5>2. r[t] = Weight(t)
          BY <2>4, <3>1, <5>1
        <5> QED BY <5>1, <5>2
      <4> QED BY <4>1, <4>2
    <3> QED BY <3>1
  <2> HIDE DEF N
  <2>5. \A n \in Nat : n \in N
    BY <2>3, <2>4, SetInduction
  <2>6. Weight(bits) \in N
    BY <1>3, <2>5
  <2> QED BY <1>3, <2>6 DEF N
<1>5. ValueOf(bits) = (CHOOSE r : Fits(r))[bits]
  BY DEF ValueOf, MapThenSumSet, MapThenFoldSet
<1> HIDE DEF Fits
<1> QED BY <1>2, <1>4, <1>5, Zenon

LEMMA ValueSplit ==
  ASSUME NEW bits \in SUBSET (0 .. 29), NEW b \in 0 .. 29
  PROVE  /\ ValueOf(bits) \in Nat
         /\ ValueOf(bits) = (IF b \in bits THEN 2^b ELSE 0) + ValueOf(bits \ {b})
<1>1. \A s \in SUBSET (0 .. 29) : ValueOf(s) = Weight(s) /\ ValueOf(s) \in Nat
  BY ValueIsWeight, WeightsAddUp
<1>2. CASE b \in bits
  <2>1. Weight(bits) = 2^b + Weight(bits \ {b})
    BY <1>2, WeightsAddUp
  <2>2. bits \ {b} \in SUBSET (0 .. 29)
    OBVIOUS
  <2>3. ValueOf(bits) = 2^b + ValueOf(bits \ {b})
    BY <1>1, <2>1, <2>2, Zenon
  <2> QED BY <1>1, <1>2, <2>3
<1>3. CASE b \notin bits
  <2>1. bits \ {b} = bits
    BY <1>3
  <2> QED BY <1>1, <1>3, <2>1
<1> QED BY <1>2, <1>3

LEMMA ValueEmpty == ValueOf({}) = 0
<1>1. {} \in SUBSET (0 .. 29)
  OBVIOUS
<1>2. ValueOf({}) = Weight({}) /\ Weight({}) = 0
  BY <1>1, ValueIsWeight, WeightsAddUp
<1> QED BY <1>2

\* The value of four bits, written out.
Weighed(s) ==
  (IF 0 \in s THEN 1 ELSE 0) + (IF 1 \in s THEN 2 ELSE 0)
    + (IF 2 \in s THEN 4 ELSE 0) + (IF 3 \in s THEN 8 ELSE 0)

LEMMA ValueIsWeighed ==
  ASSUME NEW bits \in SUBSET (0 .. 3)
  PROVE  ValueOf(bits) = Weighed(bits)
<1> DEFINE s1 == bits \ {0}
           s2 == s1 \ {1}
           s3 == s2 \ {2}
           s4 == s3 \ {3}
<1>1. s4 = {}
  OBVIOUS
<1>2. /\ bits \in SUBSET (0 .. 29) /\ s1 \in SUBSET (0 .. 29) /\ s2 \in SUBSET (0 .. 29)
      /\ s3 \in SUBSET (0 .. 29)
  OBVIOUS
<1>3. /\ 1 \in s1 <=> 1 \in bits
      /\ 2 \in s2 <=> 2 \in bits
      /\ 3 \in s3 <=> 3 \in bits
  OBVIOUS
<1>4. 0 \in 0 .. 29 /\ 1 \in 0 .. 29 /\ 2 \in 0 .. 29 /\ 3 \in 0 .. 29
  OBVIOUS
<1> HIDE DEF s1, s2, s3, s4
<1>5. \A t \in SUBSET (0 .. 29) : \A b \in 0 .. 29 :
        ValueOf(t) = (IF b \in t THEN 2^b ELSE 0) + ValueOf(t \ {b})
  BY ValueSplit
<1>6. /\ ValueOf(bits) = (IF 0 \in bits THEN 2^0 ELSE 0) + ValueOf(s1)
      /\ ValueOf(s1) = (IF 1 \in s1 THEN 2^1 ELSE 0) + ValueOf(s2)
      /\ ValueOf(s2) = (IF 2 \in s2 THEN 2^2 ELSE 0) + ValueOf(s3)
      /\ ValueOf(s3) = (IF 3 \in s3 THEN 2^3 ELSE 0) + ValueOf(s4)
  BY <1>2, <1>4, <1>5, Zenon DEF s1, s2, s3, s4
<1>7. 2^0 = 1 /\ 2^1 = 2 /\ 2^2 = 4 /\ 2^3 = 8
  OBVIOUS
<1> QED BY <1>1, <1>3, <1>6, <1>7, ValueEmpty DEF Weighed

\* m bits have a value of m bits.
LEMMA LowValue ==
  \A m \in 0 .. 30 : \A s \in SUBSET (0 .. (m - 1)) : ValueOf(s) \in Nat /\ ValueOf(s) < 2^m
<1> DEFINE Fits(m) == \A s \in SUBSET (0 .. (m - 1)) : ValueOf(s) < 2^m
           N == {m \in Nat : m <= 30 => Fits(m)}
<1>1. 0 \in N
  <2>1. ASSUME NEW s \in SUBSET (0 .. (0 - 1)) PROVE ValueOf(s) < 2^0
    <3>1. s = {} /\ 2^0 = 1
      OBVIOUS
    <3> QED BY <3>1, ValueEmpty
  <2> QED BY <2>1
<1>2. ASSUME NEW m \in Nat, m \in N PROVE m + 1 \in N
  <2>1. SUFFICES ASSUME m + 1 <= 30, NEW s \in SUBSET (0 .. m) PROVE ValueOf(s) < 2^(m + 1)
    OBVIOUS
  <2>2. m \in 0 .. 29 /\ s \in SUBSET (0 .. 29) /\ s \ {m} \in SUBSET (0 .. (m - 1))
    BY <2>1
  <2>3. ValueOf(s \ {m}) < 2^m
    BY <1>2, <2>2
  <2>4. 2^m \in Nat /\ 2^(m + 1) = 2 * 2^m
    BY <2>2, Doubles
  <2>5. ValueOf(s) \in Nat /\ ValueOf(s) = (IF m \in s THEN 2^m ELSE 0) + ValueOf(s \ {m})
    BY <2>2, ValueSplit
  <2>6. ValueOf(s \ {m}) \in Nat
    <3>1. s \ {m} \in SUBSET (0 .. 29)
      BY <2>2
    <3> QED BY <2>2, <3>1, ValueSplit
  <2> DEFINE p == 2^m
             v == ValueOf(s)
             w == ValueOf(s \ {m})
  <2>7. w < p /\ p \in Nat /\ v \in Nat /\ w \in Nat /\ v = (IF m \in s THEN p ELSE 0) + w
    BY <2>3, <2>4, <2>5, <2>6
  <2> HIDE DEF p, v, w
  <2>8. v < 2 * p
    BY <2>7
  <2> QED BY <2>4, <2>8 DEF p, v
<1>3. \A m \in Nat : m \in N
  <2> HIDE DEF N
  <2> QED BY <1>1, <1>2, SetInduction
<1>4. \A m \in 0 .. 30 : \A s \in SUBSET (0 .. (m - 1)) : s \in SUBSET (0 .. 29)
  OBVIOUS
<1>5. \A s \in SUBSET (0 .. 29) : ValueOf(s) \in Nat
  <2>1. 0 \in 0 .. 29
    OBVIOUS
  <2> QED BY <2>1, ValueSplit
<1>6. ASSUME NEW m \in 0 .. 30 PROVE Fits(m)
  BY <1>3
<1> QED BY <1>4, <1>5, <1>6

LEMMA PowersDivide ==
  ASSUME NEW k \in 0 .. 29
  PROVE  \A m \in (k + 1) .. 30 : \E g \in Nat : 2^m = 2^(k + 1) * g
<1> DEFINE p == 2^(k + 1)
           N == {m \in Nat : k + 1 <= m /\ m <= 30 => \E g \in Nat : 2^m = p * g}
<1>1. p \in Nat
  <2>1. 2^k \in Nat /\ 2^(k + 1) = 2 * 2^k
    BY Doubles
  <2> QED BY <2>1
<1>2. 0 \in N
  OBVIOUS
<1>3. ASSUME NEW m \in Nat, m \in N PROVE m + 1 \in N
  <2>1. CASE m = k
    <3>1. 2^(m + 1) = p * 1
      BY <1>1, <2>1
    <3> QED BY <3>1
  <2>2. CASE k + 1 <= m /\ m + 1 <= 30
    <3>1. PICK g \in Nat : 2^m = p * g
      BY <1>3, <2>2
    <3>2. m \in 0 .. 29
      BY <2>2
    <3>3. 2^(m + 1) = 2 * 2^m
      BY <3>2, Doubles
    <3> HIDE DEF p
    <3>4. 2 * (p * g) = p * (2 * g) /\ 2 * g \in Nat
      BY <1>1
    <3>5. 2^(m + 1) = p * (2 * g)
      BY <3>1, <3>3, <3>4, Zenon
    <3> QED BY <3>4, <3>5
  <2> QED BY <2>1, <2>2
<1>4. \A m \in Nat : m \in N
  <2> HIDE DEF N
  <2> QED BY <1>2, <1>3, SetInduction
<1> HIDE DEF p
<1>5. ASSUME NEW m \in (k + 1) .. 30 PROVE \E g \in Nat : 2^m = p * g
  BY <1>4
<1> QED BY <1>5 DEF p

\* The value of bits, split at bit k.
LEMMA ValueAround ==
  ASSUME NEW k \in 0 .. 29, NEW bits \in SUBSET (0 .. 29)
  PROVE  \E h \in Nat : ValueOf(bits) = ValueOf(bits \intersect 0 .. (k - 1))
                          + (IF k \in bits THEN 2^k ELSE 0) + 2^(k + 1) * h
<1> DEFINE p == 2^(k + 1)
           q == 2^k
           low(s) == ValueOf(s \intersect 0 .. (k - 1))
           own(s) == IF k \in s THEN q ELSE 0
           Split(s) == \E h \in Nat : ValueOf(s) = low(s) + own(s) + p * h
           N == {m \in Nat : k + 1 <= m /\ m <= 30 => \A s \in SUBSET (0 .. (m - 1)) : Split(s)}
<1>1. \A s \in SUBSET (0 .. 29) : ValueOf(s) \in Nat
  <2>1. 0 \in 0 .. 29
    OBVIOUS
  <2> QED BY <2>1, ValueSplit
<1>2. p \in Nat /\ q \in Nat
  <2>1. 2^k \in Nat /\ 2^(k + 1) = 2 * 2^k
    BY Doubles
  <2> QED BY <2>1
<1>3. \A s \in SUBSET (0 .. 29) : low(s) \in Nat /\ own(s) \in Nat
  <2>1. \A s \in SUBSET (0 .. 29) : s \intersect 0 .. (k - 1) \in SUBSET (0 .. 29)
    OBVIOUS
  <2> HIDE DEF q
  <2> QED BY <1>1, <1>2, <2>1
<1> HIDE DEF p, q
<1>4. 0 \in N
  OBVIOUS
<1>5. ASSUME NEW m \in Nat, m \in N PROVE m + 1 \in N
  <2>1. ASSUME k + 1 <= m + 1, m + 1 <= 30, NEW s \in SUBSET (0 .. m)
        PROVE  Split(s)
    <3>1. m \in 0 .. 29 /\ s \in SUBSET (0 .. 29) /\ s \ {m} \in SUBSET (0 .. 29)
      BY <2>1
    <3>2. ValueOf(s) = (IF m \in s THEN 2^m ELSE 0) + ValueOf(s \ {m})
      BY <3>1, ValueSplit
    <3>3. CASE m = k
      <4>1. s \ {m} = s \intersect 0 .. (k - 1)
        <5>1. ASSUME NEW x \in s PROVE x # m <=> x \in 0 .. (k - 1)
          BY <2>1, <3>3
        <5> QED BY <5>1
      <4>2. ValueOf(s) = own(s) + low(s)
        BY <3>2, <3>3, <4>1, Zenon DEF q
      <4>3. ValueOf(s) = low(s) + own(s) + p * 0
        <5> HIDE DEF low, own
        <5> QED BY <1>2, <1>3, <3>1, <4>2
      <4> QED BY <4>3
    <3>4. CASE m > k
      <4> DEFINE t == s \ {m}
      <4>1. t \in SUBSET (0 .. (m - 1)) /\ k + 1 <= m /\ m <= 30
        BY <2>1, <3>4
      <4>2. t \intersect 0 .. (k - 1) = s \intersect 0 .. (k - 1) /\ (k \in t <=> k \in s)
        BY <3>4
      <4>3. low(t) = low(s) /\ own(t) = own(s)
        BY <4>2
      <4>4. PICK h \in Nat : ValueOf(t) = low(t) + own(t) + p * h
        <5> HIDE DEF t, low, own
        <5> QED BY <1>5, <4>1
      <4>5. PICK g \in Nat : 2^m = p * g
        <5>1. m \in (k + 1) .. 30
          BY <4>1
        <5> QED BY <5>1, PowersDivide DEF p
      <4> DEFINE i == IF m \in s THEN g ELSE 0
                 v == ValueOf(s)
                 w == ValueOf(t)
                 a == low(s)
                 b == own(s)
      <4>6. v = p * i + w /\ w = a + b + p * h
        <5>1. (IF m \in s THEN 2^m ELSE 0) = p * i
          BY <1>2, <4>5
        <5> QED BY <3>2, <4>3, <4>4, <5>1
      <4>7. i \in Nat /\ a \in Nat /\ b \in Nat
        BY <1>3, <3>1
      <4> HIDE DEF i, v, w, a, b
      <4>8. v = a + b + p * (h + i) /\ h + i \in Nat
        BY <1>2, <4>6, <4>7
      <4> QED BY <4>8 DEF v, a, b
    <3> QED BY <2>1, <3>3, <3>4
  <2> HIDE DEF Split
  <2> QED BY <2>1
<1>6. \A m \in Nat : m \in N
  <2> HIDE DEF N
  <2> QED BY <1>4, <1>5, SetInduction
<1>7. Split(bits)
  <2>1. \A s \in SUBSET (0 .. (30 - 1)) : Split(s)
    <3> HIDE DEF Split
    <3>1. 30 \in N
      BY <1>6
    <3> QED BY <3>1
  <2> HIDE DEF Split
  <2>2. bits \in SUBSET (0 .. (30 - 1))
    OBVIOUS
  <2> QED BY <2>1, <2>2
<1> QED BY <1>7 DEF p, q

\* A set of bits is the bits of its value: no bit is carried.
LEMMA BitsOfValue ==
  ASSUME NEW bits \in SUBSET (0 .. 29)
  PROVE  BitsOf(ValueOf(bits)) = bits
<1> DEFINE v == ValueOf(bits)
<1>1. ASSUME NEW k \in 0 .. 29
      PROVE  (v \div 2^k) % 2 = IF k \in bits THEN 1 ELSE 0
  <2> DEFINE p == 2^k
             s == bits \intersect 0 .. (k - 1)
             l == ValueOf(s)
             t == IF k \in bits THEN 1 ELSE 0
  <2>1. p \in Nat \ {0} /\ 2^(k + 1) = 2 * p
    BY Doubles
  <2>2. l \in Nat /\ l < p
    <3>1. k \in 0 .. 30 /\ s \in SUBSET (0 .. (k - 1))
      OBVIOUS
    <3> HIDE DEF s
    <3> QED BY <3>1, LowValue
  <2>3. PICK h \in Nat : v = l + (IF k \in bits THEN p ELSE 0) + (2 * p) * h
    <3>1. PICK h \in Nat : v = l + (IF k \in bits THEN p ELSE 0) + 2^(k + 1) * h
      BY ValueAround
    <3> HIDE DEF p, l, v
    <3>2. v = l + (IF k \in bits THEN p ELSE 0) + (2 * p) * h
      BY <2>1, <3>1
    <3> QED BY <3>2
  <2>4. t \in {0, 1} /\ (IF k \in bits THEN p ELSE 0) = p * t
    BY <2>1
  <2>5. t = IF k \in bits THEN 1 ELSE 0
    OBVIOUS
  <2> HIDE DEF p, l, t, v
  <2> DEFINE q == t + 2 * h
  <2>6. v = l + p * q /\ q \in Nat
    BY <2>1, <2>2, <2>3, <2>4
  <2>7. q % 2 = t
    BY <2>4
  <2> HIDE DEF q
  <2>8. (l + p * q) \div p = q
    BY <2>1, <2>2, <2>6
  <2>9. (v \div p) % 2 = t
    BY <2>6, <2>7, <2>8
  <2> QED BY <2>5, <2>9 DEF p
<1>2. (v \div 2^30) % 2 = 0
  <2>1. 30 \in 0 .. 30 /\ bits \in SUBSET (0 .. (30 - 1))
    OBVIOUS
  <2>2. v \in Nat /\ v < 2^30
    BY <2>1, LowValue
  <2> HIDE DEF v
  <2> DEFINE p == 2^30
  <2>3. p \in Nat /\ v < p
    BY <2>2
  <2> HIDE DEF p
  <2>4. v \div p = 0
    BY <2>2, <2>3
  <2>5. (v \div p) % 2 = 0
    BY <2>4
  <2> QED BY <2>5 DEF p
<1> HIDE DEF v
<1>3. ASSUME NEW k \in 0 .. 30
      PROVE  (v \div 2^k) % 2 = 1 <=> k \in bits
  <2>1. CASE k = 30
    BY <1>2, <2>1
  <2>2. CASE k \in 0 .. 29
    <3>1. (v \div 2^k) % 2 = IF k \in bits THEN 1 ELSE 0
      BY <1>1, <2>2, Zenon
    <3> DEFINE t == (v \div 2^k) % 2
    <3>2. t = IF k \in bits THEN 1 ELSE 0
      BY <3>1
    <3> HIDE DEF t
    <3>3. t = 1 <=> k \in bits
      BY <3>2
    <3> QED BY <3>3 DEF t
  <2> QED BY <2>1, <2>2
<1>4. BitsOf(v) = bits
  <2> DEFINE One(k) == (v \div 2^k) % 2 = 1
  <2>1. \A k \in 0 .. 30 : One(k) <=> k \in bits
    BY <1>3
  <2>2. BitsOf(v) = {k \in 0 .. 30 : One(k)}
    BY DEF BitsOf
  <2>3. \A k \in bits : k \in 0 .. 30
    OBVIOUS
  <2> HIDE DEF One
  <2>4. \A k : k \in BitsOf(v) <=> k \in bits
    BY <2>1, <2>2, <2>3, Zenon
  <2> HIDE DEF v
  <2> QED BY <2>4, Zenon
<1> QED BY <1>4 DEF v

\* The value of the bits of a small number is the number.
LEMMA ValueOfBits ==
  /\ \A n \in 0 .. 7 : ValueOf(BitsOf(n) \intersect 0..2) = n
  /\ \A n \in 0 .. 3 : ValueOf(BitsOf(n) \intersect 0..1) = n
<1>1. ASSUME NEW n \in 0 .. 7
      PROVE  /\ 0 \in BitsOf(n) <=> n % 2 = 1
             /\ 1 \in BitsOf(n) <=> (n \div 2) % 2 = 1
             /\ 2 \in BitsOf(n) <=> (n \div 4) % 2 = 1
  <2>1. 2^0 = 1 /\ 2^1 = 2 /\ 2^2 = 4
    OBVIOUS
  <2> QED BY <2>1 DEF BitsOf
<1>2. ASSUME NEW n \in 0 .. 7 PROVE ValueOf(BitsOf(n) \intersect 0..2) = n
  <2> DEFINE s == BitsOf(n) \intersect 0..2
  <2>1. s \in SUBSET (0 .. 3) /\ \A k \in 0 .. 2 : k \in s <=> k \in BitsOf(n)
    OBVIOUS
  <2>2. 3 \notin s
    OBVIOUS
  <2> HIDE DEF s
  <2>3. Weighed(s) = n
    BY <1>1, <2>1, <2>2 DEF Weighed
  <2> QED BY <2>1, <2>3, ValueIsWeighed DEF s
<1>3. ASSUME NEW n \in 0 .. 3 PROVE ValueOf(BitsOf(n) \intersect 0..1) = n
  <2>1. n \in 0 .. 7 /\ 2 \notin BitsOf(n)
    <3>1. n \in 0 .. 7 /\ (n \div 4) % 2 = 0
      OBVIOUS
    <3> QED BY <1>1, <3>1
  <2>2. BitsOf(n) \intersect 0..1 = BitsOf(n) \intersect 0..2
    BY <2>1
  <2> QED BY <1>2, <2>1, <2>2
<1> QED BY <1>2, <1>3

-----------------------------------------------------------------------------
(* The registers. *)

\* A field within 32 bits, and one whose reset value fits it.
IsField(f) == f.start \in 0..31 /\ f.size \in 1..31 /\ f.start + f.size <= 32

IsRow(f) == IsField(f) /\ f.reset \subseteq 0 .. (f.size - 1)

Before(f, g) == f.start + f.size <= g.start

\* A table of fields, each behind the one before.
IsTable(fields) ==
  /\ fields \in Seq(Range(fields))
  /\ \A f \in Range(fields) : IsRow(f)
  /\ \A n \in 1 .. Len(fields) - 1 : Before(fields[n], fields[n + 1])

\* Small numbers have low bits only.
LEMMA BitsBelow ==
  ASSUME NEW k \in 0 .. 29, NEW m, m = 2^k, NEW n \in Nat, n < m
  PROVE  \A b \in BitsOf(n) : b < k
<1>1. m \in Nat
  BY PowersGrow
<1>2. ASSUME NEW b \in 0 .. 30, b >= k PROVE n \div 2^b = 0
  <2> DEFINE y == 2^b
  <2>1. y \in Nat /\ m <= y
    <3>1. CASE b = k
      BY <1>1, <3>1
    <3>2. CASE k < b
      <4>1. k \in 0 .. 30
        OBVIOUS
      <4>2. 2^k < 2^b /\ 2^b \in Nat
        BY <3>2, <4>1, PowersGrow, Zenon
      <4>3. m < y
        BY <4>2
      <4> QED BY <1>1, <4>2, <4>3
    <3> QED BY <1>2, <3>1, <3>2
  <2> HIDE DEF y
  <2>2. n \div y = 0
    BY <1>1, <2>1
  <2> QED BY <2>2 DEF y
<1>3. ASSUME NEW b \in BitsOf(n), ~(b < k) PROVE FALSE
  <2> DEFINE q == n \div 2^b
  <2>1. b \in 0 .. 30 /\ q % 2 = 1
    BY DEF BitsOf
  <2>2. b >= k
    BY <1>3, <2>1
  <2>3. q = 0
    BY <1>2, <2>1, <2>2
  <2> HIDE DEF q
  <2> QED BY <2>1, <2>3
<1> QED BY <1>3

\* The fields of every kind of register are apart, and the reset values fit.
LEMMA FieldsFit == \A k \in DOMAIN Indices : IsTable(Fields[k])
<1>1. \A a :
       IsRow(a)
       => IsTable(<<a>>)
  BY DEF IsTable, Range
<1>2. \A a, b, c :
       IsRow(a) /\ IsRow(b) /\ IsRow(c) /\ Before(a, b) /\ Before(b, c)
       => IsTable(<<a, b, c>>)
  BY DEF IsTable, Range
<1>3. \A a, b, c, d :
       IsRow(a) /\ IsRow(b) /\ IsRow(c) /\ IsRow(d) /\ Before(a, b) /\ Before(b, c)
       /\ Before(c, d)
       => IsTable(<<a, b, c, d>>)
  BY DEF IsTable, Range
<1>4. \A a, b, c, d, e :
       IsRow(a) /\ IsRow(b) /\ IsRow(c) /\ IsRow(d) /\ IsRow(e) /\ Before(a, b)
       /\ Before(b, c) /\ Before(c, d) /\ Before(d, e)
       => IsTable(<<a, b, c, d, e>>)
  BY DEF IsTable, Range
<1>5. \A a, b, c, d, e, f :
       IsRow(a) /\ IsRow(b) /\ IsRow(c) /\ IsRow(d) /\ IsRow(e) /\ IsRow(f)
       /\ Before(a, b) /\ Before(b, c) /\ Before(c, d) /\ Before(d, e) /\ Before(e, f)
       => IsTable(<<a, b, c, d, e, f>>)
  BY DEF IsTable, Range
<1>6. \A a, b, c, d, e, f, g, h, i :
       IsRow(a) /\ IsRow(b) /\ IsRow(c) /\ IsRow(d) /\ IsRow(e) /\ IsRow(f) /\ IsRow(g)
       /\ IsRow(h) /\ IsRow(i) /\ Before(a, b) /\ Before(b, c) /\ Before(c, d)
       /\ Before(d, e) /\ Before(e, f) /\ Before(f, g) /\ Before(g, h) /\ Before(h, i)
       => IsTable(<<a, b, c, d, e, f, g, h, i>>)
  BY DEF IsTable, Range
<1>7. \A a, b, c, d, e, f, g, h, i, j, k :
       IsRow(a) /\ IsRow(b) /\ IsRow(c) /\ IsRow(d) /\ IsRow(e) /\ IsRow(f) /\ IsRow(g)
       /\ IsRow(h) /\ IsRow(i) /\ IsRow(j) /\ IsRow(k) /\ Before(a, b) /\ Before(b, c)
       /\ Before(c, d) /\ Before(d, e) /\ Before(e, f) /\ Before(f, g) /\ Before(g, h)
       /\ Before(h, i) /\ Before(i, j) /\ Before(j, k)
       => IsTable(<<a, b, c, d, e, f, g, h, i, j, k>>)
  BY DEF IsTable, Range
<1>8. /\ BitsOf(0) = {} /\ BitsOf(1) \subseteq 0 .. 0 /\ BitsOf(2) \subseteq 0 .. 1
        /\ BitsOf(3) \subseteq 0 .. 1 /\ BitsOf(5) \subseteq 0 .. 2 /\ BitsOf(8) \subseteq 0 .. 3
        /\ BitsOf(15) \subseteq 0 .. 3 /\ BitsOf(16) \subseteq 0 .. 4 /\ BitsOf(100) \subseteq 0 .. 6
  <2>1. /\ 1 = 2^0 /\ 2 = 2^1 /\ 4 = 2^2 /\ 8 = 2^3 /\ 16 = 2^4 /\ 32 = 2^5 /\ 128 = 2^7
    OBVIOUS
  <2>2. \A b \in BitsOf(0) : b < 0
    <3>1. 0 < 1
      OBVIOUS
    <3> QED BY <2>1, <3>1, BitsBelow
  <2>3. \A b \in BitsOf(1) : b < 1
    <3>1. 1 < 2
      OBVIOUS
    <3> QED BY <2>1, <3>1, BitsBelow
  <2>4. \A b \in BitsOf(2) : b < 2
    <3>1. 2 < 4
      OBVIOUS
    <3> QED BY <2>1, <3>1, BitsBelow
  <2>5. \A b \in BitsOf(3) : b < 2
    <3>1. 3 < 4
      OBVIOUS
    <3> QED BY <2>1, <3>1, BitsBelow
  <2>6. \A b \in BitsOf(5) : b < 3
    <3>1. 5 < 8
      OBVIOUS
    <3> QED BY <2>1, <3>1, BitsBelow
  <2>7. \A b \in BitsOf(8) : b < 4
    <3>1. 8 < 16
      OBVIOUS
    <3> QED BY <2>1, <3>1, BitsBelow
  <2>8. \A b \in BitsOf(15) : b < 4
    <3>1. 15 < 16
      OBVIOUS
    <3> QED BY <2>1, <3>1, BitsBelow
  <2>9. \A b \in BitsOf(16) : b < 5
    <3>1. 16 < 32
      OBVIOUS
    <3> QED BY <2>1, <3>1, BitsBelow
  <2>10. \A b \in BitsOf(100) : b < 7
    <3>1. 100 < 128
      OBVIOUS
    <3> QED BY <2>1, <3>1, BitsBelow
  <2>11. \A x \in {0, 1, 2, 3, 5, 8, 15, 16, 100} : BitsOf(x) \subseteq 0 .. 30
    BY DEF BitsOf
  <2> QED BY <2>2, <2>3, <2>4, <2>5, <2>6, <2>7, <2>8, <2>9, <2>10, <2>11
<1>9. IsTable(Fields["EDR"])
  <2>1. \A n, t :
          /\ IsRow(F(n, 0, 8, t, 0))
          /\ IsRow(F(n, 8, 8, t, 0))
          /\ IsRow(F(n, 16, 6, t, 0))
          /\ IsRow(F(n, 22, 4, t, 0))
          /\ IsRow(F(n, 26, 5, t, 0))
          /\ IsRow(F(n, 31, 1, t, 0))
    BY <1>8 DEF F, IsRow, IsField
  <2>2. \A n, t, m, u :
          /\ Before(F(n, 0, 8, t, 0), F(m, 8, 8, u, 0))
          /\ Before(F(n, 8, 8, t, 0), F(m, 16, 6, u, 0))
          /\ Before(F(n, 16, 6, t, 0), F(m, 22, 4, u, 0))
          /\ Before(F(n, 22, 4, t, 0), F(m, 26, 5, u, 0))
          /\ Before(F(n, 26, 5, t, 0), F(m, 31, 1, u, 0))
    BY DEF F, Before
  <2> QED BY <1>5, <2>1, <2>2, Zenon DEF Fields
<1>10. IsTable(Fields["GC"])
  <2>1. \A n, t :
          /\ IsRow(F(n, 4, 1, t, 0))
          /\ IsRow(F(n, 5, 1, t, 0))
          /\ IsRow(F(n, 6, 1, t, 0))
    BY <1>8 DEF F, IsRow, IsField
  <2>2. \A n, t, m, u :
          /\ Before(F(n, 4, 1, t, 0), F(m, 5, 1, u, 0))
          /\ Before(F(n, 5, 1, t, 0), F(m, 6, 1, u, 0))
    BY DEF F, Before
  <2> QED BY <1>2, <2>1, <2>2, Zenon DEF Fields
<1>11. IsTable(Fields["LC"])
  <2>1. \A n, t :
          /\ IsRow(F(n, 0, 2, t, 1))
          /\ IsRow(F(n, 2, 1, t, 0))
          /\ IsRow(F(n, 3, 1, t, 1))
          /\ IsRow(F(n, 4, 1, t, 1))
          /\ IsRow(F(n, 5, 1, t, 1))
          /\ IsRow(F(n, 6, 1, t, 1))
          /\ IsRow(F(n, 7, 1, t, 0))
          /\ IsRow(F(n, 8, 1, t, 0))
          /\ IsRow(F(n, 9, 1, t, 1))
          /\ IsRow(F(n, 10, 1, t, 1))
          /\ IsRow(F(n, 11, 1, t, 1))
    BY <1>8 DEF F, IsRow, IsField
  <2>2. \A n, t, m, u :
          /\ Before(F(n, 0, 2, t, 1), F(m, 2, 1, u, 0))
          /\ Before(F(n, 2, 1, t, 0), F(m, 3, 1, u, 1))
          /\ Before(F(n, 3, 1, t, 1), F(m, 4, 1, u, 1))
          /\ Before(F(n, 4, 1, t, 1), F(m, 5, 1, u, 1))
          /\ Before(F(n, 5, 1, t, 1), F(m, 6, 1, u, 1))
          /\ Before(F(n, 6, 1, t, 1), F(m, 7, 1, u, 0))
          /\ Before(F(n, 7, 1, t, 0), F(m, 8, 1, u, 0))
          /\ Before(F(n, 8, 1, t, 0), F(m, 9, 1, u, 1))
          /\ Before(F(n, 9, 1, t, 1), F(m, 10, 1, u, 1))
          /\ Before(F(n, 10, 1, t, 1), F(m, 11, 1, u, 1))
    BY DEF F, Before
  <2> QED BY <1>7, <2>1, <2>2, Zenon DEF Fields
<1>12. IsTable(Fields["LRLL"])
  <2>1. \A n, t :
          /\ IsRow(F(n, 16, 8, t, 0))
    BY <1>8 DEF F, IsRow, IsField
  <2> QED BY <1>1, <2>1, Zenon DEF Fields
<1>13. IsTable(Fields["LR"])
  <2>1. \A n, t :
          /\ IsRow(F(n, 0, 1, t, 0))
          /\ IsRow(F(n, 1, 3, t, 3))
          /\ IsRow(F(n, 4, 3, t, 5))
          /\ IsRow(F(n, 8, 6, t, 8))
          /\ IsRow(F(n, 16, 6, t, 16))
    BY <1>8 DEF F, IsRow, IsField
  <2>2. \A n, t, m, u :
          /\ Before(F(n, 0, 1, t, 0), F(m, 1, 3, u, 3))
          /\ Before(F(n, 1, 3, t, 3), F(m, 4, 3, u, 5))
          /\ Before(F(n, 4, 3, t, 5), F(m, 8, 6, u, 8))
          /\ Before(F(n, 8, 6, t, 8), F(m, 16, 6, u, 16))
    BY DEF F, Before
  <2> QED BY <1>4, <2>1, <2>2, Zenon DEF Fields
<1>14. IsTable(Fields["IBTC"])
  <2>1. \A n, t :
          /\ IsRow(F(n, 0, 8, t, 100))
    BY <1>8 DEF F, IsRow, IsField
  <2> QED BY <1>1, <2>1, Zenon DEF Fields
<1>15. IsTable(Fields["AC"])
  <2>1. \A n, t :
          /\ IsRow(F(n, 0, 4, t, 2))
          /\ IsRow(F(n, 4, 5, t, 0))
          /\ IsRow(F(n, 9, 5, t, 0))
    BY <1>8 DEF F, IsRow, IsField
  <2>2. \A n, t, m, u :
          /\ Before(F(n, 0, 4, t, 2), F(m, 4, 5, u, 0))
          /\ Before(F(n, 4, 5, t, 0), F(m, 9, 5, u, 0))
    BY DEF F, Before
  <2> QED BY <1>2, <2>1, <2>2, Zenon DEF Fields
<1>16. IsTable(Fields["VCR"])
  <2>1. \A n, t :
          /\ IsRow(F(n, 0, 2, t, 0))
          /\ IsRow(F(n, 2, 1, t, 0))
          /\ IsRow(F(n, 3, 1, t, 1))
          /\ IsRow(F(n, 4, 1, t, 1))
          /\ IsRow(F(n, 5, 1, t, 1))
          /\ IsRow(F(n, 6, 3, t, 1))
          /\ IsRow(F(n, 9, 1, t, 1))
          /\ IsRow(F(n, 11, 1, t, 1))
          /\ IsRow(F(n, 12, 1, t, 1))
    BY <1>8 DEF F, IsRow, IsField
  <2>2. \A n, t, m, u :
          /\ Before(F(n, 0, 2, t, 0), F(m, 2, 1, u, 0))
          /\ Before(F(n, 2, 1, t, 0), F(m, 3, 1, u, 1))
          /\ Before(F(n, 3, 1, t, 1), F(m, 4, 1, u, 1))
          /\ Before(F(n, 4, 1, t, 1), F(m, 5, 1, u, 1))
          /\ Before(F(n, 5, 1, t, 1), F(m, 6, 3, u, 1))
          /\ Before(F(n, 6, 3, t, 1), F(m, 9, 1, u, 1))
          /\ Before(F(n, 9, 1, t, 1), F(m, 11, 1, u, 1))
          /\ Before(F(n, 11, 1, t, 1), F(m, 12, 1, u, 1))
    BY DEF F, Before
  <2> QED BY <1>6, <2>1, <2>2, Zenon DEF Fields
<1>17. IsTable(Fields["FEAT"])
  <2>1. \A n, t :
          /\ IsRow(F(n, 0, 4, t, 0))
          /\ IsRow(F(n, 4, 4, t, 0))
          /\ IsRow(F(n, 8, 4, t, 0))
          /\ IsRow(F(n, 12, 4, t, 0))
    BY <1>8 DEF F, IsRow, IsField
  <2>2. \A n, t, m, u :
          /\ Before(F(n, 0, 4, t, 0), F(m, 4, 4, u, 0))
          /\ Before(F(n, 4, 4, t, 0), F(m, 8, 4, u, 0))
          /\ Before(F(n, 8, 4, t, 0), F(m, 12, 4, u, 0))
    BY DEF F, Before
  <2> QED BY <1>3, <2>1, <2>2, Zenon DEF Fields
<1>18. IsTable(Fields["RVID"])
  <2>1. \A n, t :
          /\ IsRow(F(n, 0, 8, t, 15))
          /\ IsRow(F(n, 8, 8, t, 3))
          /\ IsRow(F(n, 16, 8, t, 2))
          /\ IsRow(F(n, 24, 8, t, 2))
    BY <1>8 DEF F, IsRow, IsField
  <2>2. \A n, t, m, u :
          /\ Before(F(n, 0, 8, t, 15), F(m, 8, 8, u, 3))
          /\ Before(F(n, 8, 8, t, 3), F(m, 16, 8, u, 2))
          /\ Before(F(n, 16, 8, t, 2), F(m, 24, 8, u, 2))
    BY DEF F, Before
  <2> QED BY <1>3, <2>1, <2>2, Zenon DEF Fields
<1>19. DOMAIN Indices = {"EDR", "GC", "LC", "LRLL", "LR", "IBTC", "AC", "VCR", "FEAT", "RVID"}
  BY DEF Indices
<1> QED BY <1>9, <1>10, <1>11, <1>12, <1>13, <1>14, <1>15, <1>16, <1>17, <1>18, <1>19

LEMMA OnesBelow ==
  ASSUME NEW n \in 1 .. 31
  PROVE  Ones(n) = 0 .. (n - 1)
<1>1. n % 32 = n
  OBVIOUS
<1> QED BY <1>1 DEF Ones

Registered == SUBSET (0 .. 31)

\* Members of a shifted set of bits.
LEMMA UpMember ==
  ASSUME NEW bits \in SUBSET Int, NEW n \in Int, NEW x \in Int
  PROVE  x \in Up(bits, n) <=> x - n \in bits
<1>1. ASSUME x \in Up(bits, n) PROVE x - n \in bits
  <2>1. PICK b \in bits : x = b + n
    BY <1>1 DEF Up
  <2>2. x - n = b
    BY <2>1
  <2> QED BY <2>2
<1>2. ASSUME x - n \in bits PROVE x \in Up(bits, n)
  <2>1. x = (x - n) + n
    OBVIOUS
  <2> QED BY <1>2, <2>1 DEF Up
<1> QED BY <1>1, <1>2

LEMMA DownMember ==
  ASSUME NEW bits \in SUBSET Int, NEW n \in Int, NEW x \in Int
  PROVE  x \in Down(bits, n) <=> x >= 0 /\ x + n \in bits
<1>1. ASSUME x \in Down(bits, n) PROVE x >= 0 /\ x + n \in bits
  <2>1. PICK b \in bits : b >= n /\ x = b - n
    BY <1>1 DEF Down
  <2>2. x >= 0 /\ x + n = b
    BY <2>1
  <2> QED BY <2>2
<1>2. ASSUME x >= 0, x + n \in bits PROVE x \in Down(bits, n)
  <2>1. x = (x + n) - n /\ x + n >= n
    BY <1>2
  <2> QED BY <1>2, <2>1 DEF Down
<1> QED BY <1>1, <1>2

LEMMA PutType ==
  ASSUME NEW reg \in Registered, NEW f, IsField(f), NEW value
  PROVE  Put(reg, f, value) \in Registered
<1> DEFINE n == f.size
           s == f.start
<1>1. n \in 1 .. 31 /\ s \in 0 .. 31 /\ s + n <= 32
  BY DEF IsField
<1> HIDE DEF n, s
<1>2. Ones(n) = 0 .. (n - 1)
  BY <1>1, OnesBelow
<1>3. Up(value \intersect Ones(n), s) \subseteq 0 .. 31
  <2>1. ASSUME NEW x \in Up(value \intersect Ones(n), s) PROVE x \in 0 .. 31
    <3>1. PICK b \in value \intersect Ones(n) : x = b + s
      BY DEF Up
    <3>2. b \in 0 .. (n - 1)
      BY <1>2
    <3> QED BY <1>1, <3>1, <3>2
  <2> QED BY <2>1
<1>4. Put(reg, f, value) = (reg \ Up(Ones(n), s)) \union Up(value \intersect Ones(n), s)
  BY DEF Put, n, s
<1> QED BY <1>3, <1>4 DEF Registered

\* What is put into a field is read from it, as far as it fits.
LEMMA GetOfPut ==
  ASSUME NEW reg \in Registered, NEW f, IsField(f), NEW value
  PROVE  Get(Put(reg, f, value), f) = value \intersect Ones(f.size)
<1> DEFINE n == f.size
           s == f.start
<1>1. n \in 1 .. 31 /\ s \in 0 .. 31 /\ s + n <= 32
  BY DEF IsField
<1> HIDE DEF n, s
<1>2. Ones(n) = 0 .. (n - 1)
  BY <1>1, OnesBelow
<1> DEFINE p == (reg \ Up(Ones(n), s)) \union Up(value \intersect Ones(n), s)
<1>3. Down(p, s) \intersect Ones(n) = value \intersect Ones(n)
  <2>1. ASSUME NEW b \in Ones(n) PROVE b \in Down(p, s) <=> b \in value
    <3>1. /\ b \in Int /\ s \in Int /\ b >= 0 /\ b + s \in Int /\ (b + s) - s = b
          /\ value \intersect Ones(n) \in SUBSET Int /\ Ones(n) \in SUBSET Int
      BY <1>1, <1>2
    <3>2. Up(value \intersect Ones(n), s) \in SUBSET Int
      BY <3>1 DEF Up
    <3>3. p \in SUBSET Int
      <4>1. reg \in SUBSET Int
        BY DEF Registered
      <4> QED BY <3>2, <4>1
    <3>4. b + s \in Up(Ones(n), s) /\ (b + s \in Up(value \intersect Ones(n), s) <=> b \in value)
      BY <3>1, UpMember
    <3>5. b + s \in p <=> b \in value
      BY <3>4
    <3> HIDE DEF p
    <3>6. b \in Down(p, s) <=> b + s \in p
      BY <3>1, <3>3, DownMember
    <3> QED BY <3>5, <3>6
  <2> QED BY <2>1
<1> QED BY <1>3 DEF Get, Put, n, s

LEMMA ResetType ==
  ASSUME NEW i
  PROVE  Reset(i) \in Registered
<1>1. CASE \E k \in DOMAIN Indices : i \in Indices[k]
  <2> DEFINE k == CHOOSE x \in DOMAIN Indices : i \in Indices[x]
             fields == Fields[k]
  <2>1. k \in DOMAIN Indices
    BY <1>1
  <2>2. IsTable(fields)
    BY <2>1, FieldsFit
  <2>3. Reset(i) = Fold(PutReset(fields), {}, fields)
    BY <1>1 DEF Reset
  <2> HIDE DEF fields, k
  <2>4. Steps(PutReset(fields), Registered, Range(fields))
    <3>1. ASSUME NEW z \in Registered \X Range(fields)
          PROVE  Put(z[1], z[2], z[2].reset) \in Registered
      BY <2>2, PutType DEF IsTable, IsRow
    <3> QED BY <3>1 DEF Steps, PutReset, Registered
  <2>5. {} \in Registered /\ fields \in Seq(Range(fields))
    BY <2>2 DEF Registered, IsTable
  <2> QED BY <2>3, <2>4, <2>5, FoldType
<1>2. CASE ~\E k \in DOMAIN Indices : i \in Indices[k]
  BY <1>2 DEF Reset, Registered
<1> QED BY <1>1, <1>2

\* What is put into a field leaves the fields beside it alone.
LEMMA GetOfOtherPut ==
  ASSUME NEW reg \in Registered, NEW f, IsField(f), NEW g, IsField(g),
         Before(f, g) \/ Before(g, f), NEW value
  PROVE  Get(Put(reg, f, value), g) = Get(reg, g)
<1> DEFINE n == f.size
           s == f.start
           m == g.size
           t == g.start
<1>1. /\ n \in 1 .. 31 /\ s \in 0 .. 31 /\ m \in 1 .. 31 /\ t \in 0 .. 31
      /\ s + n <= t \/ t + m <= s
  BY DEF IsField, Before
<1> HIDE DEF n, s, m, t
<1>2. Ones(n) = 0 .. (n - 1) /\ Ones(m) = 0 .. (m - 1)
  BY <1>1, OnesBelow
<1> DEFINE p == (reg \ Up(Ones(n), s)) \union Up(value \intersect Ones(n), s)
<1>3. Down(p, t) \intersect Ones(m) = Down(reg, t) \intersect Ones(m)
  <2>1. ASSUME NEW b \in Ones(m) PROVE b \in Down(p, t) <=> b \in Down(reg, t)
    <3>1. /\ b \in Int /\ s \in Int /\ t \in Int /\ b + t \in Int
          /\ ~((b + t) - s \in Ones(n)) /\ ~((b + t) - s \in value \intersect Ones(n))
          /\ value \intersect Ones(n) \in SUBSET Int /\ Ones(n) \in SUBSET Int
      BY <1>1, <1>2
    <3>2. Up(value \intersect Ones(n), s) \in SUBSET Int
      BY <3>1 DEF Up
    <3>3. p \in SUBSET Int /\ reg \in SUBSET Int
      <4>1. reg \in SUBSET Int
        BY DEF Registered
      <4> QED BY <3>2, <4>1
    <3>4. b + t \notin Up(Ones(n), s) /\ b + t \notin Up(value \intersect Ones(n), s)
      BY <3>1, UpMember
    <3>5. b + t \in p <=> b + t \in reg
      BY <3>4
    <3> HIDE DEF p
    <3>6. /\ b \in Down(p, t) <=> b >= 0 /\ b + t \in p
          /\ b \in Down(reg, t) <=> b >= 0 /\ b + t \in reg
      BY <3>1, <3>3, DownMember
    <3> QED BY <3>5, <3>6
  <2> QED BY <2>1
<1> QED BY <1>3 DEF Get, Put, n, s, m, t

\* The fields of a table do not overlap.
LEMMA TableApart ==
  ASSUME NEW fields, IsTable(fields)
  PROVE  \A m, n \in 1 .. Len(fields) : m < n => Before(fields[m], fields[n])
<1> DEFINE I == {n \in Nat : n <= Len(fields) =>
                   \A m \in 1 .. n - 1 : Before(fields[m], fields[n])}
<1>1. /\ Len(fields) \in Nat
      /\ \A n \in 1 .. Len(fields) : IsField(fields[n])
      /\ \A n \in 1 .. Len(fields) - 1 : Before(fields[n], fields[n + 1])
  BY DEF IsTable, IsRow, Range
<1>2. 0 \in I
  OBVIOUS
<1>3. ASSUME NEW n \in Nat, n \in I PROVE n + 1 \in I
  <2>1. ASSUME n + 1 <= Len(fields), NEW m \in 1 .. n PROVE Before(fields[m], fields[n + 1])
    <3>1. Before(fields[n], fields[n + 1])
      BY <1>1, <2>1
    <3>2. CASE m = n
      BY <3>1, <3>2
    <3>3. CASE m < n
      <4>1. Before(fields[m], fields[n])
        BY <1>3, <2>1, <3>3
      <4>2. IsField(fields[m]) /\ IsField(fields[n]) /\ IsField(fields[n + 1])
        BY <1>1, <2>1, <3>3
      <4> QED BY <3>1, <4>1, <4>2 DEF Before, IsField
    <3> QED BY <2>1, <3>2, <3>3
  <2> QED BY <2>1
<1> HIDE DEF I
<1>4. \A n \in Nat : n \in I
  BY <1>2, <1>3, SetInduction
<1> QED BY <1>1, <1>4 DEF I

\* No two kinds have a register in common.
LEMMA OneKind ==
  ASSUME NEW k \in DOMAIN Indices, NEW l \in DOMAIN Indices,
         NEW i \in Indices[k], i \in Indices[l]
  PROVE  k = l
BY DEF Indices

\* After a reset every field reads as its reset value, whichever fields were
\* reset after it.
LEMMA ResetReads ==
  ASSUME NEW k \in DOMAIN Indices, NEW i \in Indices[k], NEW f \in Range(Fields[k])
  PROVE  Get(Reset(i), f) = f.reset
<1> DEFINE s == Fields[k]
           step == PutReset(s)
<1>1. IsTable(s)
  BY FieldsFit
<1>2. Reset(i) = Fold(step, {}, s)
  <2>1. \E l \in DOMAIN Indices : i \in Indices[l]
    OBVIOUS
  <2>2. (CHOOSE l \in DOMAIN Indices : i \in Indices[l]) = k
    BY <2>1, OneKind
  <2> QED BY <2>1, <2>2 DEF Reset
<1>3. f \in Range(s)
  OBVIOUS
<1> HIDE DEF s
<1>4. /\ \A z \in Registered \X Range(s) : step[z] = Put(z[1], z[2], z[2].reset)
      /\ Steps(step, Registered, Range(s))
  <2>1. ASSUME NEW z \in Registered \X Range(s)
        PROVE  Put(z[1], z[2], z[2].reset) \in Registered
    BY <1>1, PutType DEF IsTable, IsRow
  <2> QED BY <2>1 DEF Steps, PutReset, Registered
<1> HIDE DEF step
<1>5. /\ s \in Seq(Range(s)) /\ {} \in Registered /\ Len(s) \in Nat
      /\ \A n \in 1 .. Len(s) : s[n] \in Range(s) /\ IsField(s[n])
                                /\ s[n].reset \subseteq 0 .. (s[n].size - 1)
  BY <1>1 DEF IsTable, IsRow, Range, Registered
<1> DEFINE AllRead(n, a) == \A m \in 1 .. n : Get(a, s[m]) = s[m].reset
           I == {z \in Nat \X Registered : AllRead(z[1], z[2])}
<1>6. <<0, {}>> \in I
  <2>1. AllRead(0, {})
    OBVIOUS
  <2>2. {} \in Registered /\ 0 \in Nat
    BY <1>5
  <2> HIDE DEF AllRead
  <2> QED BY <2>1, <2>2
<1>7. ASSUME NEW n \in 1 .. Len(s), NEW a \in Registered, <<n - 1, a>> \in I
      PROVE  <<n, step[<<a, s[n]>>]>> \in I
  <2> DEFINE b == Put(a, s[n], s[n].reset)
  <2>1. step[<<a, s[n]>>] = b /\ b \in Registered
    BY <1>4, <1>5, PutType
  <2>2. ASSUME NEW m \in 1 .. n PROVE Get(b, s[m]) = s[m].reset
    <3>1. IsField(s[m]) /\ IsField(s[n])
      BY <1>5
    <3>2. CASE m = n
      <4>1. Get(b, s[n]) = s[n].reset \intersect Ones(s[n].size)
        BY <3>1, GetOfPut
      <4>2. Ones(s[n].size) = 0 .. (s[n].size - 1)
        <5>1. s[n].size \in 1 .. 31
          BY <3>1 DEF IsField
        <5> QED BY <5>1, OnesBelow
      <4>3. s[n].reset \subseteq 0 .. (s[n].size - 1)
        BY <1>5
      <4> QED BY <3>2, <4>1, <4>2, <4>3
    <3>3. CASE m < n
      <4>1. Before(s[m], s[n])
        BY <1>1, <1>5, <3>3, TableApart
      <4>2. Get(b, s[m]) = Get(a, s[m])
        BY <3>1, <4>1, GetOfOtherPut
      <4>3. Get(a, s[m]) = s[m].reset
        BY <1>7, <3>3
      <4> QED BY <4>2, <4>3
    <3> QED BY <3>2, <3>3
  <2> HIDE DEF b
  <2> QED BY <2>1, <2>2
<1>8. <<Len(s), Fold(step, {}, s)>> \in I
  <2> HIDE DEF I
  <2> QED BY <1>4, <1>5, <1>6, <1>7, FoldInvariant
<1>9. PICK n \in 1 .. Len(s) : f = s[n]
  BY <1>3, <1>5 DEF Range
<1> QED BY <1>2, <1>8, <1>9

\* The fields that the decoding depends on.
LEMMA DecodingFields ==
  /\ IsField(Mode) /\ Mode.start = 0 /\ Mode.size = 4
  /\ IsField(CubeSize) /\ CubeSize.size = 4
  /\ IsField(BanksPerVault) /\ BanksPerVault.start = 8 /\ BanksPerVault.size = 4
<1>1. \A n, t, r : /\ F(n, 0, 4, t, r).start = 0 /\ F(n, 0, 4, t, r).size = 4
                   /\ F(n, 8, 4, t, r).start = 8 /\ F(n, 8, 4, t, r).size = 4
                   /\ IsField(F(n, 0, 4, t, r)) /\ IsField(F(n, 8, 4, t, r))
  BY DEF F, IsField
<1>2. Mode = F("ADDRESS_MAPPING_MODE", 0, 4, "RW", 2)
  BY Zenon DEF Mode, Fields
<1>3. CubeSize = F("CUBE_SIZE", 0, 4, "RO", 0)
  BY Zenon DEF CubeSize, Fields
<1>4. BanksPerVault = F("NUMBER_OF_BANKS_PER_VAULT", 8, 4, "RO", 0)
  BY Zenon DEF BanksPerVault, Fields
<1> QED BY <1>1, <1>2, <1>3, <1>4, Zenon

-----------------------------------------------------------------------------
(* What the registers say about the decoding. *)

LEMMA ValueIn ==
  ASSUME NEW bits \in SUBSET (0 .. 3)
  PROVE  /\ ValueOf(bits) \in 0 .. 15
         /\ bits \subseteq 0 .. 1 => ValueOf(bits) \in 0 .. 3
         /\ bits \subseteq 0 .. 2 => ValueOf(bits) \in 0 .. 7
BY ValueIsWeighed DEF Weighed

Bsizes == {0, 32, 64, 128, 256}

LEMMA BsizeFacts ==
  ASSUME NEW regs
  PROVE  /\ GetBsize(regs) \in Bsizes
         /\ Log2(GetBsize(regs)) >= 5 => GetBsize(regs) = 2^Log2(GetBsize(regs))
<1> DEFINE bits == Get(regs[AC], Mode)
           mode == ValueOf(bits)
<1>1. bits \in SUBSET (0 .. 3)
  BY DecodingFields, OnesBelow DEF Get
<1>2. mode \in 0 .. 15
  BY <1>1, ValueIn
<1>3. GetBsize(regs) = DecodeBsize(mode)
  BY DEF GetBsize
<1> HIDE DEF mode
<1> DEFINE b == DecodeBsize(mode)
<1>4. b \in Bsizes
  <2> DEFINE r == mode % 8
  <2>1. b = IF r <= 3 THEN 2^(5 + r) ELSE 0
    BY DEF DecodeBsize
  <2>2. r \in 0 .. 7
    BY <1>2
  <2> HIDE DEF b, r
  <2>3. CASE r = 0
    BY <2>1, <2>3 DEF Bsizes
  <2>4. CASE r = 1
    BY <2>1, <2>4 DEF Bsizes
  <2>5. CASE r = 2
    BY <2>1, <2>5 DEF Bsizes
  <2>6. CASE r = 3
    BY <2>1, <2>6 DEF Bsizes
  <2>7. CASE r > 3
    BY <2>1, <2>2, <2>7 DEF Bsizes
  <2> QED BY <2>2, <2>3, <2>4, <2>5, <2>6, <2>7
<1> HIDE DEF b
<1>5. Log2(b) >= 5 => b = 2^Log2(b)
  <2>1. CASE b = 0
    BY <2>1, LogValues
  <2>2. CASE b # 0
    <3>1. 32 = 2^5 /\ 64 = 2^6 /\ 128 = 2^7 /\ 256 = 2^8
      OBVIOUS
    <3>2. \E m \in 0 .. 29 : b = 2^m
      BY <1>4, <2>2, <3>1 DEF Bsizes
    <3>3. PICK m \in 0 .. 29 : b = 2^m
      BY <3>2
    <3>4. Log2(b) = m
      BY <3>3, LogOfPower
    <3> QED BY <3>3, <3>4, Zenon
  <2> QED BY <2>1, <2>2
<1> QED BY <1>3, <1>4, <1>5 DEF b

BankNumbers == {2^m : m \in 3 .. 18}

LEMMA BanksFacts ==
  ASSUME NEW regs
  PROVE  GetNumBanksPerVault(regs) \in BankNumbers
<1> DEFINE bits == Get(regs[FEAT], BanksPerVault)
           v == ValueOf(bits)
<1>1. bits \in SUBSET (0 .. 3)
  BY DecodingFields, OnesBelow DEF Get
<1>2. v \in 0 .. 15
  BY <1>1, ValueIn
<1>3. GetNumBanksPerVault(regs) = 2^(v + 3)
  BY DEF GetNumBanksPerVault
<1> DEFINE m == v + 3
<1>4. m \in 3 .. 18
  BY <1>2
<1> HIDE DEF m
<1>5. 2^m \in BankNumbers
  BY <1>4 DEF BankNumbers
<1> QED BY <1>3, <1>5 DEF m

Decodings == {SetDecoding(bsize, banks) : bsize \in Bsizes, banks \in BankNumbers}

Cube == [regs : [Registers -> Registered], decoding : Decodings]

\* The decoding was made from the mode that the registers name.
Mapped(cube) ==
  \E banks \in BankNumbers : cube.decoding = SetDecoding(GetBsize(cube.regs), banks)

\* FEAT names the banks that a cube of this capacity has.
Genuine(cube, gb) == GetNumBanksPerVault(cube.regs) = NumBanks(gb)

\* The decoding was made from the banks that a cube of this capacity has.
Banked(cube, gb) == cube.decoding = SetDecoding(GetBsize(cube.regs), NumBanks(gb))

\* The decoding was made from the banks that FEAT names.
UpToDate(cube) ==
  cube.decoding = SetDecoding(GetBsize(cube.regs), GetNumBanksPerVault(cube.regs))

LEMMA MappedType ==
  ASSUME NEW cube, cube = [regs |-> cube.regs, decoding |-> cube.decoding],
         cube.regs \in [Registers -> Registered], Mapped(cube)
  PROVE  cube \in Cube
<1>1. cube.decoding \in Decodings
  BY BsizeFacts DEF Mapped, Decodings
<1> QED BY <1>1 DEF Cube

LEMMA ConstructedFacts ==
  ASSUME NEW gb \in {4, 8}
  PROVE  /\ Constructed(gb) \in Cube
         /\ Mapped(Constructed(gb))
         /\ Genuine(Constructed(gb), gb) /\ Banked(Constructed(gb), gb)
         /\ UpToDate(Constructed(gb))
<1> DEFINE size == BitsOf(Log2(gb) - 1)
           banks == BitsOf(Log2(NumBanks(gb)) - 3)
           feat == Put(Put(Reset(FEAT), CubeSize, size), BanksPerVault, banks)
           regs == [i \in Registers |->
                      IF i = FEAT THEN Put(Put(Reset(i), CubeSize, size), BanksPerVault, banks)
                      ELSE Reset(i)]
           c == Constructed(gb)
<1>1. c = [regs |-> regs, decoding |-> SetDecoding(GetBsize(regs), NumBanks(gb))]
  BY DEF Constructed
<1>2. feat \in Registered /\ Get(feat, BanksPerVault) = banks \intersect Ones(4)
  <2> HIDE DEF size, banks
  <2>1. Put(Reset(FEAT), CubeSize, size) \in Registered
    BY ResetType, PutType, DecodingFields
  <2> QED BY <2>1, PutType, GetOfPut, DecodingFields
<1>3. regs \in [Registers -> Registered] /\ regs[FEAT] = feat
  <2> HIDE DEF size, banks
  <2>1. FEAT \in Registers
    BY DEF FEAT, Registers
  <2>2. ASSUME NEW i \in Registers, i # FEAT PROVE Reset(i) \in Registered
    BY ResetType
  <2> QED BY <1>2, <2>1, <2>2
<1>4. NumBanks(gb) \in BankNumbers /\ GetNumBanksPerVault(regs) = NumBanks(gb)
  <2>1. GetNumBanksPerVault(regs) = 2^(ValueOf(banks \intersect Ones(4)) + 3)
    BY <1>2, <1>3 DEF GetNumBanksPerVault
  <2>2. banks \intersect Ones(4) \in SUBSET (0 .. 3)
    BY OnesBelow
  <2>3. CASE gb = 4
    <3>1. NumBanks(gb) = 8 /\ banks = BitsOf(0)
      BY <2>3, LogValues DEF NumBanks
    <3>2. ~\E b \in 0 .. 3 : b \in BitsOf(0)
      <4>1. 0 \notin BitsOf(0) /\ 1 \notin BitsOf(0) /\ 2 \notin BitsOf(0) /\ 3 \notin BitsOf(0)
        BY DEF BitsOf
      <4> QED BY <4>1
    <3>3. ValueOf(banks \intersect Ones(4)) = 0
      BY <2>2, <3>1, <3>2, ValueIsWeighed DEF Weighed
    <3>4. 2^(0 + 3) = 8 /\ 2^3 = 8
      OBVIOUS
    <3> QED BY <2>1, <3>1, <3>3, <3>4 DEF BankNumbers
  <2>4. CASE gb = 8
    <3>1. NumBanks(gb) = 16 /\ banks = BitsOf(1)
      BY <2>4, LogValues DEF NumBanks
    <3>2. 0 \in BitsOf(1) /\ 1 \notin BitsOf(1) /\ 2 \notin BitsOf(1) /\ 3 \notin BitsOf(1)
      BY DEF BitsOf
    <3>3. 0 \in Ones(4)
      BY OnesBelow
    <3>4. ValueOf(banks \intersect Ones(4)) = 1
      BY <2>2, <3>1, <3>2, <3>3, ValueIsWeighed DEF Weighed
    <3>5. 2^(1 + 3) = 16 /\ 2^4 = 16
      OBVIOUS
    <3> QED BY <2>1, <3>1, <3>4, <3>5 DEF BankNumbers
  <2> QED BY <2>3, <2>4
<1> HIDE DEF regs
<1>5. c.regs = regs /\ c.decoding = SetDecoding(GetBsize(regs), NumBanks(gb))
      /\ c = [regs |-> c.regs, decoding |-> c.decoding]
  BY <1>1
<1> HIDE DEF c
<1>6. Mapped(c) /\ Genuine(c, gb) /\ Banked(c, gb) /\ UpToDate(c)
  BY <1>4, <1>5 DEF Mapped, Genuine, Banked, UpToDate
<1> QED BY <1>3, <1>5, <1>6, MappedType DEF c

\* What a write to register i makes of cube c, which becomes d: its decoding
\* is renewed by AC, and the banks that FEAT names are changed by FEAT only.
Follows(c, i, d) ==
  /\ \A gb : i # FEAT /\ Genuine(c, gb) => Genuine(d, gb)
  /\ \A gb : i # AC /\ Banked(c, gb) => Banked(d, gb)
  /\ \A gb : i = AC /\ Genuine(c, gb) => Banked(d, gb)
  /\ i = AC \/ (i # FEAT /\ UpToDate(c)) => UpToDate(d)

\* Whatever register is written, the decoding is the one of the mode.
LEMMA SetFullFacts ==
  ASSUME NEW cube \in Cube, Mapped(cube), NEW i \in Registers, NEW value
  PROVE  /\ SetFull(cube, i, value) \in Cube
         /\ Mapped(SetFull(cube, i, value))
         /\ Follows(cube, i, SetFull(cube, i, value))
<1> DEFINE regs == [cube.regs EXCEPT ![i] = value \intersect 0..31]
           c == SetFull(cube, i, value)
           d == IF i = AC THEN SetDecoding(GetBsize(regs), GetNumBanksPerVault(regs))
                ELSE cube.decoding
<1>1. c = [regs |-> regs, decoding |-> d]
  BY DEF SetFull
<1>2. regs \in [Registers -> Registered] /\ cube.regs \in [Registers -> Registered]
  BY DEF Cube, Registered
<1>3. AC \in Registers /\ FEAT \in Registers /\ AC # FEAT
  BY DEF AC, FEAT, Registers
<1>4. i # AC => GetBsize(regs) = GetBsize(cube.regs)
  BY <1>2, <1>3 DEF GetBsize
<1>5. i # FEAT => GetNumBanksPerVault(regs) = GetNumBanksPerVault(cube.regs)
  BY <1>2, <1>3 DEF GetNumBanksPerVault
<1> HIDE DEF regs
<1>6. c.regs = regs /\ c.decoding = d /\ c = [regs |-> c.regs, decoding |-> c.decoding]
  BY <1>1
<1> HIDE DEF c
<1>7. Mapped(c)
  <2>1. CASE i = AC
    BY <1>6, <2>1, BanksFacts DEF Mapped
  <2>2. CASE i # AC
    BY <1>4, <1>6, <2>2 DEF Mapped
  <2> QED BY <2>1, <2>2
<1>8. Follows(cube, i, c)
  <2>1. ASSUME NEW gb
        PROVE  /\ i # FEAT /\ Genuine(cube, gb) => Genuine(c, gb)
               /\ i # AC /\ Banked(cube, gb) => Banked(c, gb)
               /\ i = AC /\ Genuine(cube, gb) => Banked(c, gb)
    BY <1>3, <1>4, <1>5, <1>6 DEF Genuine, Banked
  <2>2. i = AC \/ (i # FEAT /\ UpToDate(cube)) => UpToDate(c)
    BY <1>4, <1>5, <1>6 DEF UpToDate
  <2> QED BY <2>1, <2>2 DEF Follows
<1> QED BY <1>2, <1>6, <1>7, <1>8, MappedType DEF c

-----------------------------------------------------------------------------
(* The address mapping. *)

LEMMA UpRange ==
  ASSUME NEW n \in Nat, NEW s \in Nat
  PROVE  Up(0 .. (n - 1), s) = s .. (s + n - 1)
<1> DEFINE S == 0 .. (n - 1)
           A == Up(S, s)
           B == s .. (s + n - 1)
<1>1. A \subseteq Int /\ B \subseteq Int /\ S \in SUBSET Int
  BY DEF Up
<1>2. \A x \in Int : x \in B <=> x - s \in S
  OBVIOUS
<1> HIDE DEF S
<1>3. \A x \in Int : x \in A <=> x - s \in S
  BY <1>1, UpMember
<1> HIDE DEF A, B
<1>4. A = B
  BY <1>1, <1>2, <1>3
<1> QED BY <1>4 DEF A, B, S

\* The fields of decoding d for blocks of 2^b bytes and 2^n banks.
Layout(d, b, n) ==
  /\ b \in {0, 5, 6, 7, 8} /\ n \in 3 .. 18 /\ d.start = b
  /\ d.vault.shift = b /\ d.vault.mask = 0 .. 2
  /\ d.quad.shift = b + 3 /\ d.quad.mask = 0 .. 1
  /\ d.bank.shift = b + 5 /\ d.bank.mask = 0 .. (n - 1)
  /\ b >= 5 => /\ d.dram_lo.shift = 4 /\ d.dram_lo.mask = 0 .. (b - 5)
               /\ d.dram_hi.shift = 10 + n
               /\ d.dram_hi.mask = (b - 4) .. 19

LEMMA DecodingFacts ==
  ASSUME NEW bsize \in Bsizes, NEW banks \in BankNumbers
  PROVE  Layout(SetDecoding(bsize, banks), Log2(bsize), Log2(banks))
<1> DEFINE d == SetDecoding(bsize, banks)
           b == Log2(bsize)
           n == Log2(banks)
<1>1. n \in 3 .. 18
  <2>1. PICK m \in 3 .. 18 : banks = 2^m
    BY DEF BankNumbers
  <2>2. m \in 0 .. 29
    BY <2>1
  <2>3. n = m
    BY <2>1, <2>2, LogOfPower
  <2> QED BY <2>3
<1>2. b \in {0, 5, 6, 7, 8}
  BY LogValues DEF Bsizes
<1>3. Log2(VAULTS_PER_QUAD) = 3 /\ Log2(HMC_NUM_QUADS) = 2
  BY LogValues DEF VAULTS_PER_QUAD, HMC_NUM_QUADS
<1>4. Ones(3) = 0 .. 2 /\ Ones(2) = 0 .. 1 /\ Ones(n) = 0 .. (n - 1)
  <2> HIDE DEF n
  <2>1. Ones(n) = 0 .. (n - 1)
    <3>1. n \in 1 .. 31
      BY <1>1
    <3> QED BY <3>1, OnesBelow
  <2>2. Ones(3) = 0 .. (3 - 1) /\ Ones(2) = 0 .. (2 - 1)
    BY OnesBelow
  <2> QED BY <2>1, <2>2
<1> HIDE DEF b, n
<1>5. d = [start   |-> b,
           vault   |-> Field(b, Ones(3)),
           quad    |-> Field(b + 3, Ones(2)),
           bank    |-> Field(b + 3 + 2, Ones(n)),
           dram_lo |-> Field(4, Ones(b - 4)),
           dram_hi |-> Field(b + 3 + 2 + n - (b - 4 - 1),
                             Up(Ones(20 - (b - 4)), (b - 4) % 32) \intersect 0..31)]
  BY <1>3 DEF SetDecoding, b, n
<1> HIDE DEF d
<1>6. /\ d.start = b
      /\ d.vault.shift = b /\ d.vault.mask = 0 .. 2
      /\ d.quad.shift = b + 3 /\ d.quad.mask = 0 .. 1
      /\ d.bank.shift = b + 5 /\ d.bank.mask = 0 .. (n - 1)
  BY <1>2, <1>4, <1>5 DEF Field
<1>7. ASSUME b >= 5
      PROVE  /\ d.dram_lo.shift = 4 /\ d.dram_lo.mask = 0 .. (b - 5)
             /\ d.dram_hi.shift = 10 + n
             /\ d.dram_hi.mask = (b - 4) .. 19
  <2>1. b - 4 \in 1 .. 31 /\ 20 - (b - 4) \in 1 .. 31 /\ (b - 4) % 32 = b - 4
        /\ b \in {5, 6, 7, 8}
    BY <1>2, <1>7
  <2>2. Ones(b - 4) = 0 .. (b - 5)
    <3> DEFINE k == b - 4
    <3>1. k \in 1 .. 31
      BY <2>1
    <3> HIDE DEF k
    <3>2. Ones(k) = 0 .. (k - 1)
      BY <3>1, OnesBelow
    <3> QED BY <2>1, <3>2 DEF k
  <2>3. Up(Ones(20 - (b - 4)), b - 4) = (b - 4) .. 19
    <3> DEFINE k == 20 - (b - 4)
               s == b - 4
    <3>1. k \in 1 .. 31 /\ s \in Nat /\ s + k = 20
      BY <2>1
    <3> HIDE DEF k, s
    <3>2. Ones(k) = 0 .. (k - 1)
      BY <3>1, OnesBelow
    <3>3. Up(Ones(k), s) = s .. (s + (k - 1))
      BY <3>1, <3>2, UpRange
    <3>4. Up(Ones(k), s) = s .. 19
      BY <3>1, <3>3
    <3> QED BY <3>4 DEF k, s
  <2>4. d.dram_hi.mask = Up(Ones(20 - (b - 4)), b - 4) \intersect 0..31
    BY <1>5, <2>1 DEF Field
  <2>5. d.dram_hi.mask = (b - 4) .. 19
    <3>1. (b - 4) .. 19 \subseteq 0 .. 31
      BY <2>1
    <3> QED BY <2>3, <2>4, <3>1
  <2>6. d.dram_hi.shift = 10 + n
    <3>1. d.dram_hi.shift = b + 3 + 2 + n - (b - 4 - 1)
      BY <1>5 DEF Field
    <3> QED BY <1>1, <2>1, <3>1
  <2>7. d.dram_lo.shift = 4 /\ d.dram_lo.mask = 0 .. (b - 5)
    BY <1>5, <2>2 DEF Field
  <2> QED BY <2>5, <2>6, <2>7
<1>8. Layout(d, b, n)
  BY <1>1, <1>2, <1>6, <1>7 DEF Layout
<1> QED BY <1>8 DEF d, b, n

\* Whatever the address, the decoded quad and vault exist.
LEMMA DecodedExist ==
  ASSUME NEW d \in Decodings, NEW addr
  PROVE  Quad(addr, d) \in 0 .. 3 /\ Vault(addr, d) \in 0 .. 7
<1>1. d.vault.mask = 0 .. 2 /\ d.quad.mask = 0 .. 1
  <2>1. PICK bsize \in Bsizes, banks \in BankNumbers : d = SetDecoding(bsize, banks)
    BY DEF Decodings
  <2>2. Layout(d, Log2(bsize), Log2(banks))
    BY <2>1, DecodingFacts
  <2> QED BY <2>2 DEF Layout
<1>2. Decoded(addr, d.vault) \subseteq 0 .. 2 /\ Decoded(addr, d.quad) \subseteq 0 .. 1
  BY <1>1 DEF Decoded
<1>3. Decoded(addr, d.vault) \in SUBSET (0 .. 3) /\ Decoded(addr, d.quad) \in SUBSET (0 .. 3)
  BY <1>2
<1> QED BY <1>2, <1>3, ValueIn DEF Quad, Vault

-----------------------------------------------------------------------------
Vaults == 0 .. (VAULTS_PER_QUAD - 1)

-----------------------------------------------------------------------------
(* Places and packets. *)

\* A place tells what kind of place it is, and which one.
LEMMA PlaceKinds ==
  /\ AtDriver[1] = "driver" /\ Over[1] = "over"
  /\ \A s : AtHost(s)[1] = "host" /\ AtHost(s)[2] = s
  /\ \A c, q : AtQuad(c, q)[1] = "quad" /\ AtQuad(c, q)[2] = c /\ AtQuad(c, q)[3] = q
  /\ \A c, q, v : /\ AtVault(c, q, v)[1] = "vault" /\ AtVault(c, q, v)[2] = c
                  /\ AtVault(c, q, v)[3] = q /\ AtVault(c, q, v)[4] = v
  /\ \A c, q, v : /\ InDram(c, q, v)[1] = "dram" /\ InDram(c, q, v)[2] = c
                  /\ InDram(c, q, v)[3] = q /\ InDram(c, q, v)[4] = v
BY DEF AtDriver, Over, AtHost, AtQuad, AtVault, InDram

Asked ==
  [cub : Cubes, tag : RqstTags, cmd : Executable, where : Cells \union {Nothing},
   slid : Slids \union {0}]

RequestOf(a, p) ==
  [cmd |-> a.cmd, lng |-> p.lng, tag |-> a.tag % 2048, adrs |-> p.adrs,
   cub |-> a.cub, slid |-> a.slid]

ResponseOf(a, p) ==
  [cmd |-> p.cmd, lng |-> RspLen(a.cmd), tag |-> a.tag % 2048, slid |-> a.slid,
   cub |-> a.cub, errstat |-> p.errstat]

LEMMA TagsAreNumbers == RqstTags \subseteq Int
BY DEF RqstTags

\* A request is not taken for a response, and neither for no packet.
LEMMA PacketKinds ==
  /\ \A a, p : RequestOf(a, p) # Nothing /\ ~IsResponse(RequestOf(a, p))
  /\ \A a, p : ResponseOf(a, p) # Nothing /\ IsResponse(ResponseOf(a, p))
<1>1. DOMAIN Nothing = {}
  BY DEF Nothing
<1>2. ASSUME NEW a, NEW p
      PROVE  /\ "cmd" \in DOMAIN RequestOf(a, p) /\ "errstat" \notin DOMAIN RequestOf(a, p)
             /\ "errstat" \in DOMAIN ResponseOf(a, p)
  BY DEF RequestOf, ResponseOf
<1> QED BY <1>1, <1>2 DEF IsResponse

-----------------------------------------------------------------------------
(* The links of a switch. *)

\* What is assumed of the network.
LEMMA Network ==
  /\ Cubes \subseteq 0..7 /\ Slids \subseteq 0..7
  /\ HostAt \in [Slids -> Cubes \X QuadIds]
  /\ \A s, t \in Slids : HostAt[s] = HostAt[t] => s = t
  /\ DOMAIN Wire \subseteq Cubes \X QuadIds
  /\ \A p \in DOMAIN Wire : Wire[p] \in DOMAIN Wire
  /\ \A s \in Slids : HostAt[s] \notin DOMAIN Wire
  /\ \A c \in Cubes : \A d \in Cubes \ {c} :
       Ext[c][d] # {} /\ \A l \in Ext[c][d] :
         <<c, l>> \in DOMAIN Wire /\ Wire[<<c, l>>][1] # c
BY JourneyAssumption, Zenon

LEMMA Slots ==
  /\ \A q, r : RING_LINK(q) = RING_LINK(r) <=> 1 + q = 1 + r
  /\ \A q \in QuadIds : RING_LINK(q) # EXT_LINK
  /\ \A q \in QuadIds, v \in Vaults : RING_LINK(q) # VAULT_LINK(v)
  /\ \A v \in Vaults : VAULT_LINK(v) # EXT_LINK
  /\ \A v, w \in Vaults : VAULT_LINK(v) = VAULT_LINK(w) => v = w
BY DEF RING_LINK, EXT_LINK, VAULT_LINK, QuadIds, Vaults, VAULTS_PER_QUAD

\* The next quad on the way within a cube is connected, and nearer.
LEMMA NextQuad ==
  ASSUME topology \in Topologies, NEW q \in QuadIds, NEW w \in QuadIds, w # q
  PROVE  LET r == Routing(topology, q, w) IN
         /\ r \in QuadIds \ {q} /\ {q, r} \in QuadLinks(topology)
         /\ QuadDistance(r, w) < QuadDistance(q, w)
<1> DEFINE r == Routing(topology, q, w)
<1>1. CASE topology = "xbar"
  <2>1. r = w
    BY <1>1 DEF Routing
  <2>2. {q, w} \in XbarLinks
    <3>1. {q, w} \in {{i, j} : i, j \in QuadIds}
      OBVIOUS
    <3>2. \A i \in QuadIds : {q, w} # {i}
      OBVIOUS
    <3> QED BY <3>1, <3>2 DEF XbarLinks
  <2>3. QuadDistance(w, w) = 0 /\ QuadDistance(q, w) = 1
    BY <1>1 DEF QuadDistance
  <2> QED BY <1>1, <2>1, <2>2, <2>3 DEF QuadLinks
<1>2. CASE topology = "ring"
  <2> DEFINE Differ(a, bit) == (a \div bit) % 2 # (w \div bit) % 2
  <2>1. r = RingRouting(q, w)
    BY <1>2 DEF Routing
  <2>2. \A a : QuadDistance(a, w) = Cardinality({bit \in {1, 2} : Differ(a, bit)})
    BY <1>2 DEF QuadDistance
  <2>3. \/ r \in QuadIds /\ ~Differ(r, 1) /\ Differ(q, 1) /\ (Differ(r, 2) <=> Differ(q, 2))
        \/ r \in QuadIds /\ ~Differ(r, 1) /\ ~Differ(q, 1) /\ ~Differ(r, 2) /\ Differ(q, 2)
    BY <2>1 DEF RingRouting, Flip, QuadIds
  <2>4. {q, r} \in RingLinks
    <3>1. RingLinks = {{0, 2}, {1, 0}, {2, 3}, {3, 1}}
      BY DEF RingLinks, QuadIds
    <3>2. <<q, r>> \in {<<0, 2>>, <<2, 0>>, <<1, 0>>, <<0, 1>>, <<2, 3>>, <<3, 2>>, <<3, 1>>, <<1, 3>>}
      BY <2>1 DEF RingRouting, Flip, QuadIds
    <3> QED BY <3>1, <3>2
  <2>5. QuadDistance(r, w) < QuadDistance(q, w)
    <3>1. Cardinality({}) = 0 /\ Cardinality({1}) = 1 /\ Cardinality({2}) = 1
          /\ Cardinality({1, 2}) = 2
      <4>1. 1 .. 2 = {1, 2} /\ 1 \in Int /\ 2 \in Int
        OBVIOUS
      <4>2. Cardinality(1 .. 2) = IF 1 > 2 THEN 0 ELSE 2 - 1 + 1
        BY <4>1, FS_Interval, Zenon
      <4> QED BY <4>1, <4>2, FS_EmptySet, FS_Singleton
    <3>2. ASSUME NEW a
          PROVE  {bit \in {1, 2} : Differ(a, bit)} =
                   IF Differ(a, 1) THEN IF Differ(a, 2) THEN {1, 2} ELSE {1}
                   ELSE IF Differ(a, 2) THEN {2} ELSE {}
      OBVIOUS
    <3> HIDE DEF Differ, r
    <3> QED BY <2>2, <2>3, <3>1, <3>2
  <2>6. r # q
    BY <2>3
  <2> QED BY <1>2, <2>3, <2>4, <2>5, <2>6 DEF QuadLinks
<1> QED BY <1>1, <1>2 DEF Topologies

\* The slots to another quad and to a vault lead only there.
LEMMA EndsWithin ==
  ASSUME NEW c, NEW q \in QuadIds
  PROVE  /\ \A r \in QuadIds : {q, r} \in QuadLinks(topology) =>
              EndOf(c, q, RING_LINK(r)) = {AtQuad(c, r)}
         /\ \A v \in Vaults : EndOf(c, q, VAULT_LINK(v)) = {AtVault(c, q, v)}
<1>1. ASSUME NEW r \in QuadIds, {q, r} \in QuadLinks(topology)
      PROVE  EndOf(c, q, RING_LINK(r)) = {AtQuad(c, r)}
  <2> DEFINE slot == RING_LINK(r)
  <2>1. slot # EXT_LINK /\ \A v \in Vaults : slot # VAULT_LINK(v)
    BY Slots
  <2>2. {x \in QuadIds : slot = RING_LINK(x) /\ {q, x} \in QuadLinks(topology)} = {r}
    BY <1>1, Slots DEF QuadIds
  <2>3. {x \in Vaults : slot = VAULT_LINK(x)} = {}
    BY <2>1
  <2> HIDE DEF slot
  <2> QED BY <2>1, <2>2, <2>3 DEF EndOf, HostEnds, CubeEnds, QuadEnds, VaultEnds, Vaults, slot
<1>2. ASSUME NEW v \in Vaults
      PROVE  EndOf(c, q, VAULT_LINK(v)) = {AtVault(c, q, v)}
  <2> DEFINE slot == VAULT_LINK(v)
  <2>1. slot # EXT_LINK /\ \A r \in QuadIds : slot # RING_LINK(r)
    BY Slots
  <2>2. {x \in Vaults : slot = VAULT_LINK(x)} = {v}
    BY Slots
  <2>3. {x \in QuadIds : slot = RING_LINK(x) /\ {q, x} \in QuadLinks(topology)} = {}
    BY <2>1
  <2> HIDE DEF slot
  <2> QED BY <2>1, <2>2, <2>3 DEF EndOf, HostEnds, CubeEnds, QuadEnds, VaultEnds, Vaults, slot
<1> QED BY <1>1, <1>2

\* The external slot leads to the host that is there, or along the wire.
LEMMA EndsOutside ==
  ASSUME NEW c, NEW q
  PROVE  /\ \A s \in Slids : HostAt[s] = <<c, q>> => EndOf(c, q, EXT_LINK) = {AtHost(s)}
         /\ <<c, q>> \in DOMAIN Wire =>
              EndOf(c, q, EXT_LINK) = {AtQuad(Wire[<<c, q>>][1], Wire[<<c, q>>][2])}
<1> DEFINE hosts == {t \in Slids : HostAt[t] = <<c, q>>}
<1>1. EndOf(c, q, EXT_LINK) =
        {AtHost(s) : s \in hosts} \union {AtQuad(e[1], e[2]) : e \in External(c, q)}
  <2>1. \A x \in QuadIds : EXT_LINK # RING_LINK(x)
    BY Slots
  <2>2. \A x \in Vaults : EXT_LINK # VAULT_LINK(x)
    BY Slots
  <2> QED BY <2>1, <2>2 DEF EndOf, HostEnds, CubeEnds, QuadEnds, VaultEnds, Vaults
<1>2. ASSUME NEW s \in Slids, HostAt[s] = <<c, q>>
      PROVE  EndOf(c, q, EXT_LINK) = {AtHost(s)}
  <2>1. hosts = {s}
    BY <1>2, Network
  <2>2. External(c, q) = {}
    BY <1>2, Network DEF External
  <2> QED BY <1>1, <2>1, <2>2
<1>3. ASSUME <<c, q>> \in DOMAIN Wire
      PROVE  EndOf(c, q, EXT_LINK) = {AtQuad(Wire[<<c, q>>][1], Wire[<<c, q>>][2])}
  <2>1. hosts = {}
    BY <1>3, Network
  <2>2. External(c, q) = {Wire[<<c, q>>]}
    BY <1>3 DEF External
  <2> QED BY <1>1, <2>1, <2>2
<1> QED BY <1>2, <1>3

-----------------------------------------------------------------------------
(* The inductive invariant. *)

\* The registers and the mapping of every cube.
Configured ==
  /\ topology \in Topologies /\ capacity \in {4, 8}
  /\ disturbed \subseteq {"way", "vault"} /\ written \in Seq(Cubes \X Registers)
  /\ cubes \in [Cubes -> Cube]
  /\ \A c \in Cubes :
       /\ Mapped(cubes[c])
       /\ <<c, FEAT>> \notin ToSet(written) => Genuine(cubes[c], capacity)
       /\ ~BanksRenewed(c) => Banked(cubes[c], capacity)
       /\ ~FeatPending(c) => UpToDate(cubes[c])

\* The packet carries what the driver asked for, or the response to it.
Carried ==
  IF packet = Nothing THEN place = AtDriver /\ asked = Nothing /\ cell = Nothing
  ELSE /\ asked \in Asked
       /\ IF IsResponse(packet)
          THEN packet = ResponseOf(asked, packet) /\ HasResponse(asked.cmd)
          ELSE packet = RequestOf(asked, packet) /\ packet.adrs \in SUBSET (0..33)

\* Where what kind of packet can be.
Located ==
  \/ place = AtDriver /\ (packet = Nothing \/ ~IsResponse(packet))
  \/ /\ packet # Nothing /\ asked.slid \in Slids
     /\ \/ place = Over
        \/ place = AtHost(asked.slid) /\ IsResponse(packet)
        \/ \E c \in Cubes, q \in QuadIds :
             \/ place = AtQuad(c, q)
             \/ /\ c = asked.cub /\ ~IsResponse(packet)
                /\ \E v \in Vaults : place = AtVault(c, q, v) \/ place = InDram(c, q, v)

\* An undisturbed response was made with the block size that is in force.
Judged ==
  packet # Nothing /\ disturbed = {} =>
    (IsResponse(packet) =>
       (packet.errstat <=> ExceedsBlock(asked.cmd, GetBsize(cubes[asked.cub].regs))))

\* An undisturbed request has the address that its cell still encodes to.
Addressed ==
  packet # Nothing /\ disturbed = {} =>
    (~IsResponse(packet) /\ asked.where # Nothing =>
       packet.adrs = Address(BitsOf(asked.where.quad), BitsOf(asked.where.vault),
                             asked.where.bank, asked.where.dram,
                             cubes[asked.cub].decoding) \intersect 0..33)

\* A request is at the vault that its address is decoded to, and its cell is
\* decoded alike, unless a register was written since it got there.
Delivered ==
  \A c \in Cubes, q \in QuadIds, v \in Vaults :
    /\ "vault" \notin disturbed /\ (place = AtVault(c, q, v) \/ place = InDram(c, q, v)) =>
         q = Quad(packet.adrs, cubes[c].decoding) /\ v = Vault(packet.adrs, cubes[c].decoding)
    /\ "vault" \notin disturbed /\ place = InDram(c, q, v) =>
         cell = Cell(packet.adrs, cubes[c].decoding)

IInv == Configured /\ Carried /\ Located /\ Judged /\ Addressed /\ Delivered /\ RankExists

\* The switch of a quad of cube c has packet p and host s is its own.
Switched(c, q, p) ==
  /\ c \in Cubes /\ q \in QuadIds /\ DestCube(p) \in Cubes
  /\ IsResponse(p) => p.slid \in Slids
  /\ cubes[c].decoding \in Decodings

LEMMA Wanted ==
  ASSUME NEW c, NEW q, NEW p, Switched(c, q, p)
  PROVE  /\ WantedQuad(c, p) \in QuadIds
         /\ DestCube(p) # c =>
              /\ <<c, WantedQuad(c, p)>> \in DOMAIN Wire
              /\ Wire[<<c, WantedQuad(c, p)>>] \in Cubes \X QuadIds
              /\ Wire[<<c, WantedQuad(c, p)>>][1] # c
<1>1. CASE DestCube(p) # c
  <2> DEFINE d == DestCube(p)
             links == Ext[c][d]
  <2>1. c \in Cubes /\ d \in Cubes \ {c}
    BY <1>1 DEF Switched
  <2>2. links # {} /\ \A l \in links : <<c, l>> \in DOMAIN Wire /\ Wire[<<c, l>>][1] # c
    BY <2>1, Network
  <2>3. links \in SUBSET QuadIds
    BY <2>2, Network
  <2> HIDE DEF links
  <2>4. Min(links) \in links
    <3>1. \E x \in links : \A y \in links : x <= y
      BY <2>2, <2>3, LeastExists DEF QuadIds
    <3> QED BY <3>1 DEF Min
  <2>5. WantedQuad(c, p) = Min(links)
    BY <1>1 DEF WantedQuad, links
  <2> QED BY <2>2, <2>3, <2>4, <2>5, Network
<1>2. CASE DestCube(p) = c /\ IsResponse(p)
  BY <1>2, Network DEF Switched, WantedQuad
<1>3. CASE DestCube(p) = c /\ ~IsResponse(p)
  BY <1>3, DecodedExist DEF Switched, WantedQuad, QuadIds
<1> QED BY <1>1, <1>2, <1>3

\* A switch has exactly one link for a packet.  It leads to another quad that
\* is nearer, to another cube, to the vault or to the host.
Way(c, q, p, e) ==
  \/ \E r \in QuadIds \ {q} :
       /\ e = AtQuad(c, r)
       /\ QuadDistance(r, WantedQuad(c, p)) < QuadDistance(q, WantedQuad(c, p))
  \/ \E d \in Cubes \ {c}, r \in QuadIds : e = AtQuad(d, r)
  \/ /\ c = DestCube(p) /\ ~IsResponse(p) /\ q = Quad(p.adrs, cubes[c].decoding)
     /\ Vault(p.adrs, cubes[c].decoding) \in Vaults
     /\ e = AtVault(c, q, Vault(p.adrs, cubes[c].decoding))
  \/ IsResponse(p) /\ e = AtHost(p.slid)

LEMMA OneEnd ==
  ASSUME NEW c, NEW q, NEW p, Switched(c, q, p), topology \in Topologies
  PROVE  \E e : EndOf(c, q, DecodeLink(c, q, p)) = {e} /\ Way(c, q, p, e)
<1> DEFINE w == WantedQuad(c, p)
<1>1. w \in QuadIds /\ q \in QuadIds /\ c \in Cubes
  BY Wanted DEF Switched
<1>2. CASE w # q
  <2> DEFINE r == Routing(topology, q, w)
  <2>1. /\ r \in QuadIds \ {q} /\ {q, r} \in QuadLinks(topology)
        /\ QuadDistance(r, w) < QuadDistance(q, w)
    <3> HIDE DEF w
    <3> QED BY <1>1, <1>2, NextQuad
  <2>2. DecodeLink(c, q, p) = RING_LINK(r)
    BY <1>2 DEF DecodeLink
  <2>3. EndOf(c, q, RING_LINK(r)) = {AtQuad(c, r)}
    <3> HIDE DEF r
    <3> QED BY <1>1, <2>1, EndsWithin
  <2> HIDE DEF r
  <2> QED BY <2>1, <2>2, <2>3 DEF Way
<1>3. CASE w = q /\ DestCube(p) = c /\ ~IsResponse(p)
  <2> DEFINE v == Vault(p.adrs, cubes[c].decoding)
  <2>1. v \in Vaults
    BY DecodedExist DEF Switched, Vaults, VAULTS_PER_QUAD
  <2>2. DecodeLink(c, q, p) = VAULT_LINK(v)
    BY <1>3 DEF DecodeLink
  <2>3. EndOf(c, q, VAULT_LINK(v)) = {AtVault(c, q, v)}
    <3> HIDE DEF v
    <3> QED BY <1>1, <2>1, EndsWithin
  <2>4. q = Quad(p.adrs, cubes[c].decoding)
    BY <1>3 DEF WantedQuad
  <2> QED BY <1>3, <2>1, <2>2, <2>3, <2>4 DEF Way
<1>4. CASE w = q /\ DestCube(p) = c /\ IsResponse(p)
  <2>1. p.slid \in Slids /\ HostAt[p.slid] = <<c, q>>
    <3>1. p.slid \in Slids
      BY <1>4 DEF Switched
    <3>2. HostAt[p.slid][1] = c /\ HostAt[p.slid][2] = q
      BY <1>4 DEF DestCube, WantedQuad
    <3>3. HostAt[p.slid] \in Cubes \X QuadIds
      BY <3>1, Network
    <3> QED BY <3>1, <3>2, <3>3
  <2>2. DecodeLink(c, q, p) = EXT_LINK
    BY <1>4 DEF DecodeLink
  <2>3. EndOf(c, q, EXT_LINK) = {AtHost(p.slid)}
    BY <2>1, EndsOutside
  <2> QED BY <1>4, <2>2, <2>3 DEF Way
<1>5. CASE w = q /\ DestCube(p) # c
  <2> DEFINE x == Wire[<<c, q>>]
  <2>1. <<c, q>> \in DOMAIN Wire /\ x \in Cubes \X QuadIds /\ x[1] # c
    BY <1>5, Wanted
  <2>2. DecodeLink(c, q, p) = EXT_LINK
    BY <1>5 DEF DecodeLink
  <2>3. EndOf(c, q, EXT_LINK) = {AtQuad(x[1], x[2])}
    BY <2>1, EndsOutside
  <2>4. x[1] \in Cubes \ {c} /\ x[2] \in QuadIds
    BY <2>1
  <2> HIDE DEF x
  <2> QED BY <2>2, <2>3, <2>4 DEF Way
<1> QED BY <1>2, <1>3, <1>4, <1>5

-----------------------------------------------------------------------------
(* What the invariant says of the packet under way. *)

LEMMA PacketFacts ==
  ASSUME IInv, packet # Nothing
  PROVE  /\ asked \in Asked /\ asked.cub \in Cubes /\ asked.cmd \in Executable
         /\ packet.slid = asked.slid /\ packet.cub = asked.cub
         /\ packet.tag = asked.tag % 2048
         /\ ~IsResponse(packet) => /\ packet = RequestOf(asked, packet)
                                   /\ packet.cmd = asked.cmd
                                   /\ packet.adrs \in SUBSET (0..33)
         /\ IsResponse(packet) => /\ packet = ResponseOf(asked, packet)
                                  /\ HasResponse(asked.cmd)
                                  /\ packet.lng = RspLen(asked.cmd)
<1>1. /\ asked \in Asked
      /\ \/ /\ IsResponse(packet) /\ packet = ResponseOf(asked, packet)
            /\ HasResponse(asked.cmd)
         \/ /\ ~IsResponse(packet) /\ packet = RequestOf(asked, packet)
            /\ packet.adrs \in SUBSET (0..33)
  BY DEF IInv, Carried
<1>2. asked.cub \in Cubes /\ asked.cmd \in Executable
  BY <1>1 DEF Asked
<1>3. CASE IsResponse(packet)
  <2>1. packet = ResponseOf(asked, packet) /\ HasResponse(asked.cmd)
    BY <1>1, <1>3
  <2>2. /\ packet.slid = asked.slid /\ packet.cub = asked.cub
        /\ packet.tag = asked.tag % 2048 /\ packet.lng = RspLen(asked.cmd)
    BY <2>1 DEF ResponseOf
  <2> QED BY <1>1, <1>2, <1>3, <2>1, <2>2
<1>4. CASE ~IsResponse(packet)
  <2>1. packet = RequestOf(asked, packet) /\ packet.adrs \in SUBSET (0..33)
    BY <1>1, <1>4
  <2>2. /\ packet.slid = asked.slid /\ packet.cub = asked.cub
        /\ packet.tag = asked.tag % 2048 /\ packet.cmd = asked.cmd
    BY <2>1 DEF RequestOf
  <2> QED BY <1>1, <1>2, <1>4, <2>1, <2>2
<1> QED BY <1>3, <1>4

\* Beyond the driver there is a packet, sent by a host.
LEMMA UnderWay ==
  ASSUME IInv, place[1] # "driver"
  PROVE  packet # Nothing /\ asked.slid \in Slids
<1>1. place # AtDriver
  BY PlaceKinds
<1> QED BY <1>1 DEF IInv, Located

LEMMA AtSwitch ==
  ASSUME IInv, NEW c \in Cubes, NEW q \in QuadIds, place = AtQuad(c, q)
  PROVE  Switched(c, q, packet) /\ packet # Nothing /\ asked.slid \in Slids
<1>1. packet # Nothing /\ asked.slid \in Slids
  BY UnderWay, PlaceKinds
<1>2. asked.cub \in Cubes /\ packet.slid = asked.slid /\ packet.cub = asked.cub
  BY <1>1, PacketFacts
<1>3. DestCube(packet) \in Cubes
  BY <1>1, <1>2, Network DEF DestCube
<1>4. cubes[c].decoding \in Decodings
  BY DEF IInv, Configured, Cube
<1> QED BY <1>1, <1>2, <1>3, <1>4 DEF Switched

LEMMA AtDestination ==
  ASSUME IInv, NEW c \in Cubes, NEW q \in QuadIds, NEW v \in Vaults,
         place = AtVault(c, q, v) \/ place = InDram(c, q, v)
  PROVE  /\ packet # Nothing /\ asked.slid \in Slids
         /\ c = asked.cub /\ ~IsResponse(packet)
<1>1. packet # Nothing /\ asked.slid \in Slids
  BY UnderWay, PlaceKinds
<1>2. place # AtDriver /\ place # Over /\ place # AtHost(asked.slid)
      /\ \A d, r : place # AtQuad(d, r)
  BY PlaceKinds
<1>3. PICK d \in Cubes, r \in QuadIds :
        /\ d = asked.cub /\ ~IsResponse(packet)
        /\ \E w \in Vaults : place = AtVault(d, r, w) \/ place = InDram(d, r, w)
  BY <1>1, <1>2 DEF IInv, Located
<1>4. c = d
  BY <1>3, PlaceKinds
<1> QED BY <1>1, <1>3, <1>4

-----------------------------------------------------------------------------
(* The steps preserve the invariant. *)

\* A cube has the ranks that its address mapping names.
LEMMA CellRank ==
  ASSUME capacity \in {4, 8}, NEW cube, Banked(cube, capacity), NEW addr
  PROVE  Cell(addr, cube.decoding).rank < capacity
<1> DEFINE d == cube.decoding
           bits == Decoded(addr, d.bank)
           k == IF capacity = 4 THEN 3 ELSE 4
<1>1. NumBanks(capacity) = 2^k /\ k \in 3 .. 18
  BY DEF NumBanks
<1>2. NumBanks(capacity) \in BankNumbers /\ Log2(NumBanks(capacity)) = k
  <2>1. ASSUME NEW m \in 3 .. 18 PROVE 2^m \in BankNumbers /\ Log2(2^m) = m
    <3>1. m \in 0 .. 29
      OBVIOUS
    <3> QED BY <3>1, LogOfPower DEF BankNumbers
  <2> HIDE DEF k
  <2> QED BY <1>1, <2>1
<1>3. GetBsize(cube.regs) \in Bsizes
  BY BsizeFacts
<1>4. d.bank.mask = 0 .. (k - 1)
  <2>1. d = SetDecoding(GetBsize(cube.regs), NumBanks(capacity))
    BY DEF Banked
  <2>2. ASSUME NEW bsize \in Bsizes, NEW banks \in BankNumbers
        PROVE  SetDecoding(bsize, banks).bank.mask = 0 .. (Log2(banks) - 1)
    BY DecodingFacts DEF Layout
  <2> HIDE DEF d, k
  <2>3. d.bank.mask = 0 .. (Log2(NumBanks(capacity)) - 1)
    BY <1>2, <1>3, <2>1, <2>2, Zenon
  <2> QED BY <1>2, <2>3
<1>5. bits \in SUBSET Int /\ bits \subseteq 0 .. (k - 1)
  BY <1>4 DEF Decoded
<1> HIDE DEF bits, d
<1>6. Down(bits, 1) \subseteq 0 .. (k - 2)
  <2>1. ASSUME NEW x \in Down(bits, 1) PROVE x \in 0 .. (k - 2)
    <3>1. PICK b \in bits : b >= 1 /\ x = b - 1
      BY <2>1 DEF Down
    <3> QED BY <1>5, <3>1
  <2> QED BY <2>1
<1>7. Cell(addr, d).rank = ValueOf(Down(bits, 1))
  BY DEF Cell, BANK_BITS_PER_RANK, bits
<1> DEFINE ranks == Down(bits, 1)
<1>8. ranks \in SUBSET (0 .. 3) /\ (capacity = 4 => ranks \subseteq 0 .. 1) /\ ranks \subseteq 0 .. 2
  BY <1>6
<1> HIDE DEF ranks
<1>9. ValueOf(ranks) < capacity
  <2>1. ValueOf(ranks) \in 0 .. 7 /\ (capacity = 4 => ValueOf(ranks) \in 0 .. 3)
    BY <1>8, ValueIn
  <2> QED BY <2>1
<1> QED BY <1>7, <1>9 DEF ranks, d

LEMMA SameConfiguration ==
  ASSUME Configured, UNCHANGED <<topology, capacity, cubes, written>>,
         disturbed' \subseteq {"way", "vault"}
  PROVE  Configured'
BY DEF Configured, BanksRenewed, FeatPending

LEMMA InitHolds == Init => IInv
<1> SUFFICES ASSUME Init PROVE IInv
  OBVIOUS
<1>1. Configured
  <2>1. cubes = [c \in Cubes |-> Constructed(capacity)] /\ capacity \in {4, 8}
    BY DEF Init
  <2>2. \A c \in Cubes : /\ cubes[c] \in Cube /\ Mapped(cubes[c])
                         /\ Genuine(cubes[c], capacity) /\ Banked(cubes[c], capacity)
                         /\ UpToDate(cubes[c])
    BY <2>1, ConstructedFacts
  <2>3. cubes \in [Cubes -> Cube]
    BY <2>1, <2>2
  <2>4. written \in Seq(Cubes \X Registers)
    BY DEF Init
  <2> QED BY <2>1, <2>2, <2>3, <2>4 DEF Init, Configured
<1>2. Carried /\ Located /\ Judged /\ Addressed /\ RankExists
  BY DEF Init, Carried, Located, Judged, Addressed, RankExists
<1>3. Delivered
  BY PlaceKinds DEF Init, Delivered
<1> QED BY <1>1, <1>2, <1>3 DEF IInv

LEMMA EncodeKeeps ==
  ASSUME IInv, NEW cub \in Cubes, NEW addr, NEW tag \in RqstTags, NEW cmd \in Executable,
         NEW where \in Cells \union {Nothing}, Encode(cub, addr, tag, cmd, where),
         where # Nothing =>
           addr = Address(BitsOf(where.quad), BitsOf(where.vault), where.bank, where.dram,
                          cubes[cub].decoding)
  PROVE  IInv'
<1>1. /\ place = AtDriver /\ place' = place /\ packet' = Request(cub, addr, tag, cmd)
      /\ asked' = [cub |-> cub, tag |-> tag, cmd |-> cmd, where |-> where, slid |-> 0]
      /\ disturbed' = {} /\ UNCHANGED <<topology, capacity, cubes, cell, written>>
  BY DEF Encode
<1>2. packet' = RequestOf(asked', packet') /\ packet'.adrs = addr \intersect 0..33
  <2>1. cub % 8 = cub
    BY Network
  <2> QED BY <1>1, <2>1 DEF Request, RequestOf
<1>3. packet' # Nothing /\ ~IsResponse(packet')
  BY <1>2, PacketKinds
<1>4. asked' \in Asked
  BY <1>1 DEF Asked
<1>5. Configured'
  BY <1>1, SameConfiguration DEF IInv
<1>6. Carried'
  BY <1>2, <1>3, <1>4 DEF Carried
<1>7. Located' /\ Judged'
  BY <1>1, <1>3 DEF Located, Judged
<1>8. Addressed'
  BY <1>1, <1>2 DEF Addressed
<1>9. Delivered'
  BY <1>1, PlaceKinds DEF Delivered
<1>10. RankExists'
  <2>1. cell = Nothing
    BY DEF IInv, Carried, Encode
  <2> QED BY <1>1, <2>1 DEF RankExists
<1> QED BY <1>5, <1>6, <1>7, <1>8, <1>9, <1>10 DEF IInv

LEMMA SendKeeps ==
  ASSUME IInv, NEW s \in Slids, Send(s)
  PROVE  IInv'
<1>1. /\ place = AtDriver /\ packet # Nothing
      /\ packet' = [packet EXCEPT !.slid = s] /\ asked' = [asked EXCEPT !.slid = s]
      /\ place' = AtQuad(HostAt[s][1], HostAt[s][2])
      /\ UNCHANGED <<topology, capacity, cubes, cell, disturbed, written>>
  BY DEF Send
<1>2. ~IsResponse(packet)
  <2>1. place # Over /\ \A t : place # AtHost(t)
    BY <1>1, PlaceKinds
  <2>2. \A c, q, v : place # AtQuad(c, q) /\ place # AtVault(c, q, v) /\ place # InDram(c, q, v)
    BY <1>1, PlaceKinds
  <2> QED BY <1>1, <2>1, <2>2 DEF IInv, Located
<1>3. asked \in Asked /\ packet = RequestOf(asked, packet) /\ packet.adrs \in SUBSET (0..33)
  BY <1>1, <1>2, PacketFacts
<1>4. /\ asked' \in Asked /\ asked'.slid = s
      /\ asked'.cub = asked.cub /\ asked'.where = asked.where
  BY <1>1, <1>3 DEF Asked
<1>5. packet' = RequestOf(asked', packet') /\ packet'.adrs = packet.adrs
  BY <1>1, <1>3 DEF RequestOf, Asked
<1>6. packet' # Nothing /\ ~IsResponse(packet')
  BY <1>5, PacketKinds
<1>7. Configured'
  BY <1>1, SameConfiguration DEF IInv, Configured
<1>8. Carried'
  BY <1>3, <1>4, <1>5, <1>6 DEF Carried
<1>9. Located'
  <2>1. HostAt[s][1] \in Cubes /\ HostAt[s][2] \in QuadIds
    BY Network
  <2> QED BY <1>1, <1>4, <1>6, <2>1 DEF Located
<1>10. Judged'
  BY <1>6 DEF Judged
<1>11. Addressed'
  BY <1>1, <1>2, <1>4, <1>5, <1>6 DEF IInv, Addressed
<1>12. Delivered'
  BY <1>1, PlaceKinds DEF Delivered
<1>13. RankExists'
  BY <1>1, <1>4 DEF IInv, RankExists, BanksRenewed
<1> QED BY <1>7, <1>8, <1>9, <1>10, <1>11, <1>12, <1>13 DEF IInv

\* A step that moves the packet only.
LEMMA OnlyMoved ==
  ASSUME IInv, packet # Nothing,
         UNCHANGED <<topology, capacity, cubes, packet, cell, asked, disturbed, written>>
  PROVE  Configured' /\ Carried' /\ Judged' /\ Addressed' /\ RankExists'
<1>1. Configured'
  BY SameConfiguration DEF IInv, Configured
<1>2. Carried'
  BY DEF IInv, Carried
<1>3. Judged' /\ Addressed' /\ RankExists'
  BY DEF IInv, Judged, Addressed, RankExists, BanksRenewed
<1> QED BY <1>1, <1>2, <1>3

LEMMA HopTakesWay ==
  ASSUME IInv, NEW c \in Cubes, NEW q \in QuadIds, Hop(c, q)
  PROVE  /\ Way(c, q, packet, place') /\ packet # Nothing /\ asked.slid \in Slids
         /\ UNCHANGED <<topology, capacity, cubes, packet, cell, asked, disturbed, written>>
<1>1. /\ place = AtQuad(c, q) /\ place' \in EndOf(c, q, DecodeLink(c, q, packet))
      /\ UNCHANGED <<topology, capacity, cubes, packet, cell, asked, disturbed, written>>
  BY DEF Hop
<1>2. Switched(c, q, packet) /\ packet # Nothing /\ asked.slid \in Slids
  BY <1>1, AtSwitch
<1>3. topology \in Topologies
  BY DEF IInv, Configured
<1>4. PICK e : EndOf(c, q, DecodeLink(c, q, packet)) = {e} /\ Way(c, q, packet, e)
  BY <1>2, <1>3, OneEnd
<1>5. place' = e
  BY <1>1, <1>4
<1> QED BY <1>1, <1>2, <1>4, <1>5

LEMMA HopKeeps ==
  ASSUME IInv, NEW c \in Cubes, NEW q \in QuadIds, Hop(c, q)
  PROVE  IInv'
<1>1. /\ Way(c, q, packet, place') /\ packet # Nothing /\ asked.slid \in Slids
      /\ UNCHANGED <<topology, capacity, cubes, packet, cell, asked, disturbed, written>>
  BY HopTakesWay
<1>2. Configured' /\ Carried' /\ Judged' /\ Addressed' /\ RankExists'
  BY <1>1, OnlyMoved
<1>3. packet.slid = asked.slid /\ packet.cub = asked.cub
  BY <1>1, PacketFacts
<1>4. CASE \E d \in Cubes, r \in QuadIds : place' = AtQuad(d, r)
  <2>1. Located'
    BY <1>1, <1>4 DEF Located
  <2>2. Delivered'
    BY <1>4, PlaceKinds DEF Delivered
  <2> QED BY <1>2, <2>1, <2>2 DEF IInv
<1>5. CASE IsResponse(packet) /\ place' = AtHost(packet.slid)
  <2>1. Located'
    BY <1>1, <1>3, <1>5 DEF Located
  <2>2. Delivered'
    BY <1>5, PlaceKinds DEF Delivered
  <2> QED BY <1>2, <2>1, <2>2 DEF IInv
<1> DEFINE v == Vault(packet.adrs, cubes[c].decoding)
<1>6. CASE /\ c = DestCube(packet) /\ ~IsResponse(packet)
           /\ q = Quad(packet.adrs, cubes[c].decoding)
           /\ v \in Vaults /\ place' = AtVault(c, q, v)
  <2>1. c = asked.cub
    BY <1>3, <1>6 DEF DestCube
  <2>2. Located'
    <3> HIDE DEF v
    <3> QED BY <1>1, <1>6, <2>1 DEF Located
  <2>3. ASSUME NEW c1 \in Cubes, NEW q1 \in QuadIds, NEW v1 \in Vaults,
               place' = AtVault(c1, q1, v1) \/ place' = InDram(c1, q1, v1)
        PROVE  c1 = c /\ q1 = q /\ v1 = v /\ place' # InDram(c1, q1, v1)
    <3> HIDE DEF v
    <3> QED BY <1>6, <2>3, PlaceKinds
  <2>4. Delivered'
    BY <1>1, <1>6, <2>3 DEF Delivered
  <2> QED BY <1>2, <2>2, <2>4 DEF IInv
<1> QED BY <1>1, <1>4, <1>5, <1>6 DEF Way

LEMMA AcceptKeeps ==
  ASSUME IInv, NEW c \in Cubes, NEW q \in QuadIds, NEW v \in Vaults, Accept(c, q, v)
  PROVE  IInv'
<1>1. /\ place = AtVault(c, q, v) /\ place' = InDram(c, q, v)
      /\ cell' = Cell(packet.adrs, cubes[c].decoding)
      /\ UNCHANGED <<topology, capacity, cubes, packet, asked, disturbed, written>>
  BY DEF Accept
<1>2. /\ packet # Nothing /\ asked.slid \in Slids
      /\ c = asked.cub /\ ~IsResponse(packet)
  BY <1>1, AtDestination
<1>3. Configured'
  BY <1>1, SameConfiguration DEF IInv, Configured
<1>4. Carried' /\ Judged' /\ Addressed'
  BY <1>1, <1>2 DEF IInv, Carried, Judged, Addressed
<1>5. Located'
  BY <1>1, <1>2 DEF Located
<1>6. Delivered'
  <2>1. ASSUME NEW c1 \in Cubes, NEW q1 \in QuadIds, NEW v1 \in Vaults,
               place' = AtVault(c1, q1, v1) \/ place' = InDram(c1, q1, v1)
        PROVE  c1 = c /\ q1 = q /\ v1 = v
    BY <1>1, <2>1, PlaceKinds
  <2>2. "vault" \notin disturbed => /\ q = Quad(packet.adrs, cubes[c].decoding)
                                   /\ v = Vault(packet.adrs, cubes[c].decoding)
    BY <1>1 DEF IInv, Delivered
  <2> QED BY <1>1, <2>1, <2>2 DEF Delivered
<1>7. RankExists'
  <2>1. SUFFICES ASSUME ~BanksRenewed(c) PROVE cell'.rank < capacity
    BY <1>1, <1>2 DEF RankExists, BanksRenewed
  <2>2. Banked(cubes[c], capacity) /\ capacity \in {4, 8}
    BY <2>1 DEF IInv, Configured
  <2> QED BY <1>1, <2>2, CellRank
<1> QED BY <1>3, <1>4, <1>5, <1>6, <1>7 DEF IInv

LEMMA AnswerKeeps ==
  ASSUME IInv, NEW c \in Cubes, NEW q \in QuadIds, NEW v \in Vaults, Answer(c, q, v)
  PROVE  IInv'
<1>1. /\ place = InDram(c, q, v)
      /\ UNCHANGED <<topology, capacity, cubes, cell, asked, disturbed, written>>
  BY DEF Answer
<1>2. /\ packet # Nothing /\ asked.slid \in Slids
      /\ c = asked.cub /\ ~IsResponse(packet)
  BY <1>1, AtDestination
<1>3. /\ asked \in Asked /\ packet.slid = asked.slid /\ packet.cub = asked.cub
      /\ packet.tag = asked.tag % 2048 /\ packet.cmd = asked.cmd
  BY <1>2, PacketFacts
<1>4. CASE ~HasResponse(packet.cmd)
  <2>1. packet' = packet /\ place' = Over
    BY <1>4 DEF Answer
  <2>2. Configured' /\ Carried' /\ Judged' /\ Addressed' /\ RankExists'
    BY <1>1, <1>2, <2>1, OnlyMoved
  <2>3. Located'
    BY <1>1, <1>2, <2>1 DEF Located
  <2>4. Delivered'
    BY <2>1, PlaceKinds DEF Delivered
  <2> QED BY <2>2, <2>3, <2>4 DEF IInv
<1>5. CASE HasResponse(packet.cmd)
  <2>1. packet' = Response(packet, c, GetBsize(cubes[c].regs)) /\ place' = AtQuad(c, q)
    BY <1>5 DEF Answer
  <2>2. /\ packet' = ResponseOf(asked, packet')
        /\ packet'.errstat = ExceedsBlock(asked.cmd, GetBsize(cubes[asked.cub].regs))
    BY <1>2, <1>3, <2>1 DEF Response, ResponseOf
  <2>3. packet' # Nothing /\ IsResponse(packet')
    BY <2>2, PacketKinds
  <2>4. Configured'
    BY <1>1, SameConfiguration DEF IInv, Configured
  <2>5. Carried'
    BY <1>1, <1>3, <1>5, <2>2, <2>3 DEF Carried
  <2>6. Located'
    BY <1>1, <1>2, <2>1, <2>3 DEF Located
  <2>7. Judged' /\ Addressed'
    BY <1>1, <2>2, <2>3 DEF Judged, Addressed
  <2>8. Delivered'
    BY <2>1, PlaceKinds DEF Delivered
  <2>9. RankExists'
    BY <1>1 DEF IInv, RankExists, BanksRenewed
  <2> QED BY <2>4, <2>5, <2>6, <2>7, <2>8, <2>9 DEF IInv
<1> QED BY <1>4, <1>5

LEMMA RecvKeeps ==
  ASSUME IInv, NEW s \in Slids, Recv(s)
  PROVE  IInv'
<1>1. /\ place = AtHost(s) /\ place' = Over
      /\ UNCHANGED <<topology, capacity, cubes, packet, cell, asked, disturbed, written>>
  BY DEF Recv
<1>2. packet # Nothing /\ asked.slid \in Slids
  BY <1>1, UnderWay, PlaceKinds
<1>3. Configured' /\ Carried' /\ Judged' /\ Addressed' /\ RankExists'
  BY <1>1, <1>2, OnlyMoved
<1>4. Located'
  BY <1>1, <1>2 DEF Located
<1>5. Delivered'
  BY <1>1, PlaceKinds DEF Delivered
<1> QED BY <1>3, <1>4, <1>5 DEF IInv

\* What one more write adds to the history of cube d.
LEMMA OneMoreWrite ==
  ASSUME written \in Seq(Cubes \X Registers), NEW c \in Cubes, NEW i \in Registers,
         written' = Append(written, <<c, i>>), NEW d
  PROVE  /\ written' \in Seq(Cubes \X Registers)
         /\ <<d, FEAT>> \in ToSet(written) \/ (d = c /\ i = FEAT) => <<d, FEAT>> \in ToSet(written')
         /\ BanksRenewed(d) => BanksRenewed(d)'
         /\ <<d, FEAT>> \in ToSet(written) /\ d = c /\ i = AC => BanksRenewed(d)'
         /\ d = c /\ i = FEAT => FeatPending(d)'
         /\ FeatPending(d) /\ ~(d = c /\ i = AC) => FeatPending(d)'
<1> DEFINE n == Len(written) + 1
<1>1. /\ n \in Nat /\ DOMAIN written = 1 .. (n - 1) /\ DOMAIN written' = 1 .. n
      /\ \A k \in 1 .. (n - 1) : written'[k] = written[k]
      /\ written'[n] = <<c, i>>
      /\ written' \in Seq(Cubes \X Registers)
  OBVIOUS
<1> HIDE DEF n
<1>2. <<d, FEAT>> \in ToSet(written) \/ (d = c /\ i = FEAT) => <<d, FEAT>> \in ToSet(written')
  <2>1. ASSUME NEW k \in 1 .. (n - 1), written[k] = <<d, FEAT>>
        PROVE  \E j \in 1 .. n : written'[j] = <<d, FEAT>>
    BY <1>1, <2>1
  <2>2. d = c /\ i = FEAT => \E j \in 1 .. n : written'[j] = <<d, FEAT>>
    BY <1>1
  <2> QED BY <1>1, <2>1, <2>2 DEF ToSet
<1>3. BanksRenewed(d) => BanksRenewed(d)'
  BY <1>1 DEF BanksRenewed
<1>4. <<d, FEAT>> \in ToSet(written) /\ d = c /\ i = AC => BanksRenewed(d)'
  <2>1. SUFFICES ASSUME <<d, FEAT>> \in ToSet(written), d = c, i = AC PROVE BanksRenewed(d)'
    OBVIOUS
  <2>2. PICK k \in 1 .. (n - 1) : written[k] = <<d, FEAT>>
    BY <1>1, <2>1 DEF ToSet
  <2>3. k < n /\ k \in DOMAIN written' /\ n \in DOMAIN written'
    BY <1>1, <2>2
  <2> QED BY <1>1, <2>1, <2>2, <2>3 DEF BanksRenewed
<1>5. d = c /\ i = FEAT => FeatPending(d)'
  <2>1. n \in DOMAIN written' /\ \A j \in DOMAIN written' : ~(j > n)
    BY <1>1
  <2> QED BY <1>1, <2>1 DEF FeatPending
<1>6. FeatPending(d) /\ ~(d = c /\ i = AC) => FeatPending(d)'
  <2>1. SUFFICES ASSUME FeatPending(d), ~(d = c /\ i = AC) PROVE FeatPending(d)'
    OBVIOUS
  <2>2. PICK k \in 1 .. (n - 1) :
          /\ written[k] = <<d, FEAT>>
          /\ \A j \in 1 .. (n - 1) : j > k => written[j] # <<d, AC>>
    BY <1>1, <2>1 DEF FeatPending
  <2>3. ASSUME NEW j \in 1 .. n, j > k PROVE written'[j] # <<d, AC>>
    <3>1. CASE j = n
      BY <1>1, <2>1, <3>1
    <3>2. CASE j \in 1 .. (n - 1)
      BY <1>1, <2>2, <2>3, <3>2
    <3> QED BY <1>1, <3>1, <3>2
  <2>4. k \in DOMAIN written' /\ written'[k] = <<d, FEAT>>
    BY <1>1, <2>2
  <2> QED BY <1>1, <2>3, <2>4 DEF FeatPending
<1> QED BY <1>1, <1>2, <1>3, <1>4, <1>5, <1>6

\* A register is written: cube replaces what cube c was.
LEMMA RenewedKeeps ==
  ASSUME IInv, NEW c \in Cubes, NEW i \in Registers, NEW cube \in Cube, Mapped(cube),
         Follows(cubes[c], i, cube), Renewed(c, i, cube)
  PROVE  IInv'
<1>1. /\ written' = Append(written, <<c, i>>)
      /\ cubes' = [cubes EXCEPT ![c] = cube]
      /\ disturbed' = IF asked # Nothing /\ c = asked.cub THEN disturbed \union {Part}
                      ELSE disturbed
      /\ UNCHANGED <<topology, capacity, place, packet, cell, asked>>
  BY DEF Renewed
<1>2. /\ written \in Seq(Cubes \X Registers) /\ cubes \in [Cubes -> Cube]
      /\ disturbed \subseteq {"way", "vault"}
  BY DEF IInv, Configured
<1>3. ASSUME NEW d
      PROVE  /\ written' \in Seq(Cubes \X Registers)
             /\ <<d, FEAT>> \notin ToSet(written') =>
                  <<d, FEAT>> \notin ToSet(written) /\ ~(d = c /\ i = FEAT)
             /\ ~BanksRenewed(d)' =>
                  /\ ~BanksRenewed(d)
                  /\ d = c /\ i = AC => <<d, FEAT>> \notin ToSet(written)
             /\ ~FeatPending(d)' =>
                  /\ ~(d = c /\ i = FEAT)
                  /\ (d = c /\ i = AC) \/ ~FeatPending(d)
  BY <1>1, <1>2, OneMoreWrite
<1>4. /\ cubes' \in [Cubes -> Cube] /\ cubes'[c] = cube
      /\ \A d \in Cubes \ {c} : cubes'[d] = cubes[d]
  BY <1>1, <1>2
<1>5. Configured'
  <2>1. ASSUME NEW d \in Cubes
        PROVE  /\ Mapped(cubes'[d])
               /\ <<d, FEAT>> \notin ToSet(written') => Genuine(cubes'[d], capacity)
               /\ ~BanksRenewed(d)' => Banked(cubes'[d], capacity)
               /\ ~FeatPending(d)' => UpToDate(cubes'[d])
    <3>1. /\ Mapped(cubes[d])
          /\ <<d, FEAT>> \notin ToSet(written) => Genuine(cubes[d], capacity)
          /\ ~BanksRenewed(d) => Banked(cubes[d], capacity)
          /\ ~FeatPending(d) => UpToDate(cubes[d])
      BY DEF IInv, Configured
    <3>2. CASE d = c
      BY <1>3, <1>4, <3>1, <3>2 DEF Follows
    <3>3. CASE d # c
      BY <1>3, <1>4, <3>1, <3>3
    <3> QED BY <3>2, <3>3
  <2>2. disturbed' \subseteq {"way", "vault"}
    BY <1>1, <1>2 DEF Part
  <2>3. topology \in Topologies /\ capacity \in {4, 8}
    BY DEF IInv, Configured
  <2> QED BY <1>1, <1>3, <1>4, <2>1, <2>2, <2>3 DEF Configured
<1>6. Carried' /\ Located'
  BY <1>1 DEF IInv, Carried, Located
<1>7. ASSUME packet # Nothing
      PROVE  /\ disturbed \subseteq disturbed' /\ asked.cub \in Cubes
             /\ Part \notin disturbed' => cubes'[asked.cub] = cubes[asked.cub]
  <2>1. asked \in Asked
    BY <1>7, PacketFacts
  <2>2. asked # Nothing
    <3>1. "cub" \in DOMAIN asked /\ "cub" \notin DOMAIN Nothing
      BY <2>1 DEF Asked, Nothing
    <3> QED BY <3>1
  <2>3. asked.cub \in Cubes
    BY <2>1 DEF Asked
  <2>4. disturbed \subseteq disturbed' /\ (Part \notin disturbed' => c # asked.cub)
    BY <1>1, <2>2
  <2> QED BY <1>4, <2>3, <2>4
<1>8. Judged'
  BY <1>1, <1>7 DEF IInv, Judged
<1>9. Addressed'
  BY <1>1, <1>7 DEF IInv, Addressed
<1>10. Delivered'
  <2>1. ASSUME NEW d \in Cubes, NEW q \in QuadIds, NEW v \in Vaults, "vault" \notin disturbed',
               place = AtVault(d, q, v) \/ place = InDram(d, q, v)
        PROVE  "vault" \notin disturbed /\ cubes'[d] = cubes[d]
    <3>1. packet # Nothing /\ d = asked.cub
      BY <2>1, AtDestination
    <3>2. Part = "vault"
      BY <2>1, PlaceKinds DEF Part
    <3> QED BY <1>7, <2>1, <3>1, <3>2
  <2> QED BY <1>1, <2>1 DEF IInv, Delivered
<1>11. RankExists'
  BY <1>1, <1>3 DEF IInv, RankExists
<1> QED BY <1>5, <1>6, <1>8, <1>9, <1>10, <1>11 DEF IInv

\* Every write of a register goes through hmcsim_reg_value_set_full.
LEMMA SetFullKeeps ==
  ASSUME IInv, NEW c \in Cubes, NEW i \in Registers, NEW value,
         Renewed(c, i, SetFull(cubes[c], i, value))
  PROVE  IInv'
<1> DEFINE cube == SetFull(cubes[c], i, value)
<1>1. cubes[c] \in Cube /\ Mapped(cubes[c])
  BY DEF IInv, Configured
<1>2. cube \in Cube /\ Mapped(cube)
  BY <1>1, SetFullFacts
<1>3. Follows(cubes[c], i, cube)
  BY <1>1, SetFullFacts
<1> HIDE DEF cube
<1>4. Renewed(c, i, cube)
  BY DEF cube
<1> QED BY <1>2, <1>3, <1>4, RenewedKeeps

LEMMA NextKeeps == IInv /\ [Next]_vars => IInv'
<1> SUFFICES ASSUME IInv, [Next]_vars PROVE IInv'
  OBVIOUS
<1>1. ASSUME NEW cub \in Cubes, NEW r \in Rqsts, NEW addr \in Addresses,
             EncodeAddress(cub, addr, r[2], r[1])
      PROVE  IInv'
  <2>1. r[2] \in RqstTags /\ r[1] \in Executable
    BY JourneyAssumption
  <2>2. Encode(cub, addr, r[2], r[1], Nothing)
    BY <1>1 DEF EncodeAddress
  <2>3. Nothing \in Cells \union {Nothing}
    OBVIOUS
  <2> QED BY <2>1, <2>2, <2>3, EncodeKeeps
<1>2. ASSUME NEW cub \in Cubes, NEW r \in Rqsts, NEW x \in Cells,
             EncodeCell(cub, x, r[2], r[1])
      PROVE  IInv'
  <2>1. r[2] \in RqstTags /\ r[1] \in Executable
    BY JourneyAssumption
  <2> DEFINE addr == Address(BitsOf(x.quad), BitsOf(x.vault), x.bank, x.dram,
                             cubes[cub].decoding)
  <2>2. Encode(cub, addr, r[2], r[1], x)
    BY <1>2 DEF EncodeCell
  <2>3. x \in Cells \union {Nothing}
    OBVIOUS
  <2>4. addr = Address(BitsOf(x.quad), BitsOf(x.vault), x.bank, x.dram, cubes[cub].decoding)
    OBVIOUS
  <2> HIDE DEF addr
  <2> QED BY <2>1, <2>2, <2>3, <2>4, EncodeKeeps
<1>3. CASE Step
  <2>1. \A v \in 0 .. (VAULTS_PER_QUAD - 1) : v \in Vaults
    BY DEF Vaults
  <2> QED BY <1>3, <2>1, SendKeeps, RecvKeeps, HopKeeps, AcceptKeeps, AnswerKeeps DEF Step
<1>4. ASSUME NEW w \in JtagWrites, JtagRegWrite(w[1], w[2], w[3]) PROVE IInv'
  <2>1. w[1] \in Cubes /\ w[2] \in Registers
    BY JourneyAssumption
  <2>2. Renewed(w[1], w[2], SetFull(cubes[w[1]], w[2], w[3]))
    BY <1>4 DEF JtagRegWrite
  <2> QED BY <2>1, <2>2, SetFullKeeps
<1>5. ASSUME NEW b \in Blocksizes, UtilSetMaxBlocksize(b[1], b[2]) PROVE IInv'
  <2> DEFINE value == (cubes[b[1]].regs[AC] \ 0..3) \union BitsOf(Log2(b[2]) - 5)
  <2>1. b[1] \in Cubes
    BY JourneyAssumption
  <2>2. AC \in Registers
    BY DEF AC, Registers
  <2>3. Renewed(b[1], AC, SetFull(cubes[b[1]], AC, value))
    BY <1>5 DEF UtilSetMaxBlocksize, SetMaxBlocksize
  <2> HIDE DEF value
  <2> QED BY <2>1, <2>2, <2>3, SetFullKeeps
<1>6. CASE UNCHANGED vars
  <2>1. UNCHANGED <<topology, capacity, cubes, place, packet, cell, asked, disturbed, written>>
    BY <1>6 DEF vars
  <2>2. Configured' /\ Carried' /\ Located'
    BY <2>1 DEF IInv, Configured, Carried, Located, BanksRenewed, FeatPending
  <2>3. Judged' /\ Addressed' /\ Delivered' /\ RankExists'
    BY <2>1 DEF IInv, Judged, Addressed, Delivered, RankExists, BanksRenewed
  <2> QED BY <2>2, <2>3 DEF IInv
<1> QED BY <1>1, <1>2, <1>3, <1>4, <1>5, <1>6 DEF Next

\* Every reachable state satisfies the inductive invariant.
THEOREM JourneyInvariant == Spec => []IInv
BY InitHolds, NextKeeps, PTL DEF Spec

-----------------------------------------------------------------------------
(* What follows from the invariant. *)

\* Every variable has its type; the fields of a packet fit into their bits.
THEOREM JourneyTypeOK == Spec => []TypeOK
<1>1. IInv => TypeOK
  <2> SUFFICES ASSUME IInv PROVE TypeOK
    OBVIOUS
  <2>1. /\ topology \in Topologies /\ capacity \in {4, 8}
        /\ disturbed \subseteq {"way", "vault"} /\ written \in Seq(Cubes \X Registers)
    BY DEF IInv, Configured
  <2>2. \A c \in Cubes : cubes[c].regs \in [Registers -> SUBSET (0..31)]
    BY DEF IInv, Configured, Cube, Registered
  <2>3. place[1] \in {"driver", "host", "quad", "vault", "dram", "over"}
    BY PlaceKinds DEF IInv, Located
  <2>4. PacketType
    <3>1. SUFFICES ASSUME packet # Nothing PROVE PacketType
      BY DEF PacketType
    <3>2. asked \in Asked /\ packet.tag = asked.tag % 2048
      BY <3>1, PacketFacts
    <3>3. packet.tag \in Tags
      <4>1. asked.tag \in RqstTags
        BY <3>1, PacketFacts DEF Asked
      <4>2. asked.tag \in Int
        BY <4>1, TagsAreNumbers
      <4> QED BY <3>2, <4>2 DEF Tags
    <3>4. IsResponse(packet) => packet.slid \in Slids
      <4>1. IsResponse(packet) => asked.slid \in Slids
        BY <3>1 DEF IInv, Located
      <4> QED BY <3>1, <4>1, PacketFacts
    <3>5. packet.cub \in Cubes /\ (~IsResponse(packet) => packet.adrs \subseteq 0..33)
      BY <3>1, PacketFacts
    <3> QED BY <3>3, <3>4, <3>5 DEF PacketType
  <2> QED BY <2>1, <2>2, <2>3, <2>4 DEF TypeOK
<1> QED BY <1>1, JourneyInvariant, PTL

\* The registers of a new cube read as their resets say; the sizes in FEAT as
\* its capacity, which is written after the reset.
LEMMA NewRegisters ==
  ASSUME NEW capac \in {4, 8}, NEW k \in DOMAIN Indices, NEW i \in Indices[k],
         NEW f \in Range(Fields[k])
  PROVE  Get(Constructed(capac).regs[i], f) =
           IF k = "FEAT" /\ f = CubeSize THEN BitsOf(IF capac = 8 THEN 2 ELSE 1)
           ELSE IF k = "FEAT" /\ f = BanksPerVault THEN BitsOf(IF capac = 8 THEN 1 ELSE 0)
           ELSE f.reset
<1> DEFINE size == BitsOf(Log2(capac) - 1)
           banks == BitsOf(Log2(NumBanks(capac)) - 3)
           regs == [r \in Registers |->
                      IF r = FEAT THEN Put(Put(Reset(r), CubeSize, size), BanksPerVault, banks)
                      ELSE Reset(r)]
<1>1. Constructed(capac).regs = regs
  BY DEF Constructed
<1>2. i \in Registers /\ (i = FEAT <=> k = "FEAT")
  BY DEF Indices, Registers, FEAT
<1>3. Get(Reset(i), f) = f.reset
  BY ResetReads
<1>4. CASE k # "FEAT"
  BY <1>1, <1>2, <1>3, <1>4
<1>5. CASE k = "FEAT"
  <2> DEFINE once == Put(Reset(i), CubeSize, size)
  <2>1. regs[i] = Put(once, BanksPerVault, banks)
    BY <1>2, <1>5
  <2>2. /\ size = BitsOf(IF capac = 8 THEN 2 ELSE 1)
        /\ banks = BitsOf(IF capac = 8 THEN 1 ELSE 0)
    <3>1. CASE capac = 4
      <4>1. NumBanks(capac) = 8
        BY <3>1 DEF NumBanks
      <4>2. Log2(capac) - 1 = 1 /\ Log2(NumBanks(capac)) - 3 = 0
        BY <3>1, <4>1, LogValues
      <4> QED BY <3>1, <4>2
    <3>2. CASE capac = 8
      <4>1. NumBanks(capac) = 16
        BY <3>2 DEF NumBanks
      <4>2. Log2(capac) - 1 = 2 /\ Log2(NumBanks(capac)) - 3 = 1
        BY <3>2, <4>1, LogValues
      <4> QED BY <3>2, <4>2
    <3> QED BY <3>1, <3>2
  <2>3. size \intersect Ones(4) = size /\ banks \intersect Ones(4) = banks
    <3>1. 4 = 2^2 /\ 0 < 4 /\ 1 < 4 /\ 2 < 4
      OBVIOUS
    <3>2. \A b \in BitsOf(0) \union BitsOf(1) \union BitsOf(2) : b < 2
      BY <3>1, BitsBelow
    <3>3. BitsOf(0) \union BitsOf(1) \union BitsOf(2) \subseteq 0 .. 30
      BY DEF BitsOf
    <3>4. Ones(4) = 0 .. 3
      BY OnesBelow
    <3> QED BY <2>2, <3>2, <3>3, <3>4
  <2> HIDE DEF size, banks
  <2>4. /\ IsField(f) /\ IsField(CubeSize) /\ IsField(BanksPerVault)
        /\ CubeSize.size = 4 /\ BanksPerVault.size = 4
    <3>1. IsTable(Fields[k])
      BY FieldsFit
    <3> QED BY <3>1, DecodingFields DEF IsTable, IsRow
  <2>5. /\ f = CubeSize \/ Before(CubeSize, f)
        /\ f = BanksPerVault \/ Before(f, BanksPerVault) \/ Before(BanksPerVault, f)
        /\ CubeSize # BanksPerVault
        /\ Before(CubeSize, BanksPerVault)
    <3> DEFINE s == Fields["FEAT"]
    <3>1. IsTable(s) /\ f \in Range(s) /\ Len(s) = 4
      <4>1. Len(s) = 4
        BY DEF Fields
      <4> QED BY <1>5, <1>2, <4>1, FieldsFit
    <3>2. CubeSize = s[1] /\ BanksPerVault = s[3]
      BY DEF CubeSize, BanksPerVault
    <3> HIDE DEF s
    <3>3. PICK n \in 1 .. 4 : f = s[n]
      BY <3>1 DEF IsTable, Range
    <3>4. \A m, l \in 1 .. 4 : m < l => Before(s[m], s[l])
      BY <3>1, TableApart
    <3>5. CubeSize.start = 0 /\ BanksPerVault.start = 8
      <4>1. CubeSize.start = 0
        BY Zenon DEF CubeSize, Fields, F
      <4> QED BY <4>1, DecodingFields
    <3> QED BY <3>2, <3>3, <3>4, <3>5
  <2>6. Reset(i) \in Registered
    BY ResetType
  <2>7. once \in Registered
    BY <2>4, <2>6, PutType
  <2> DEFINE twice == Put(once, BanksPerVault, banks)
  <2>8. CASE f = BanksPerVault
    <3>1. Get(twice, f) = banks
      <4> HIDE DEF once
      <4>1. Get(twice, BanksPerVault) = banks \intersect Ones(BanksPerVault.size)
        BY <2>4, <2>7, GetOfPut
      <4> QED BY <2>3, <2>4, <2>8, <4>1
    <3> QED BY <1>1, <1>5, <2>1, <2>2, <2>5, <2>8, <3>1
  <2>9. CASE f # BanksPerVault
    <3>1. Get(twice, f) = Get(once, f)
      BY <2>4, <2>5, <2>7, <2>9, GetOfOtherPut
    <3>2. CASE f = CubeSize
      <4>1. Get(once, f) = size
        BY <2>3, <2>4, <2>6, <3>2, GetOfPut
      <4> QED BY <1>1, <1>5, <2>1, <2>2, <3>1, <3>2, <4>1
    <3>3. CASE f # CubeSize
      <4>1. Get(once, f) = Get(Reset(i), f)
        BY <2>4, <2>5, <2>6, <3>3, GetOfOtherPut
      <4> QED BY <1>1, <1>3, <2>1, <2>9, <3>1, <3>3, <4>1
    <3> QED BY <3>2, <3>3
  <2> QED BY <2>8, <2>9
<1> QED BY <1>4, <1>5

\* The registers are those of the constructor until one is written.
Untouched == written = <<>> => cubes = [c \in Cubes |-> Constructed(capacity)]

\* What the constructor of a cube puts into the fields of its registers: each
\* holds its reset value or the size of the cube, and none was spoilt by the
\* fields that were written after it.
THEOREM JourneyFieldsKept == Spec => []FieldsKept
<1>1. Init => Untouched
  BY DEF Init, Untouched
<1>2. IInv /\ Untouched /\ [Next]_vars => Untouched'
  <2> SUFFICES ASSUME IInv, Untouched, [Next]_vars PROVE Untouched'
    OBVIOUS
  <2>1. written \in Seq(Cubes \X Registers)
    BY DEF IInv, Configured
  <2>2. ASSUME NEW c \in Cubes, NEW i \in Registers, NEW cube, Renewed(c, i, cube)
        PROVE  Untouched'
    <3>1. written' = Append(written, <<c, i>>)
      BY <2>2 DEF Renewed
    <3>2. written' # <<>>
      BY <2>1, <3>1
    <3> QED BY <3>2 DEF Untouched
  <2>3. ASSUME UNCHANGED <<cubes, capacity, written>> PROVE Untouched'
    BY <2>3 DEF Untouched
  <2>4. ASSUME NEW w \in JtagWrites, JtagRegWrite(w[1], w[2], w[3]) PROVE Untouched'
    <3>1. w[1] \in Cubes /\ w[2] \in Registers
      BY JourneyAssumption
    <3> QED BY <2>2, <2>4, <3>1 DEF JtagRegWrite
  <2>5. ASSUME NEW b \in Blocksizes, UtilSetMaxBlocksize(b[1], b[2]) PROVE Untouched'
    <3>1. b[1] \in Cubes /\ AC \in Registers
      BY JourneyAssumption DEF AC, Registers
    <3> QED BY <2>2, <2>5, <3>1 DEF UtilSetMaxBlocksize
  <2>6. ASSUME NEW cub, NEW addr, NEW tag, NEW cmd, NEW x, Encode(cub, addr, tag, cmd, x)
        PROVE  Untouched'
    BY <2>3, <2>6 DEF Encode
  <2>7. CASE Step
    BY <2>3, <2>7 DEF Step, Send, Recv, Hop, Accept, Answer
  <2>8. CASE UNCHANGED vars
    BY <2>3, <2>8 DEF vars
  <2> QED BY <2>4, <2>5, <2>6, <2>7, <2>8 DEF Next, EncodeAddress, EncodeCell
<1>3. IInv /\ Untouched => FieldsKept
  <2> SUFFICES ASSUME IInv, Untouched, written = <<>>, NEW c \in Cubes,
                      NEW k \in DOMAIN Indices, NEW i \in Indices[k], NEW f \in ToSet(Fields[k])
               PROVE  Get(cubes[c].regs[i], f) =
                        CASE k = "FEAT" /\ f = CubeSize      -> BitsOf(IF capacity = 8 THEN 2 ELSE 1)
                          [] k = "FEAT" /\ f = BanksPerVault -> BitsOf(IF capacity = 8 THEN 1 ELSE 0)
                          [] OTHER                           -> f.reset
    BY DEF FieldsKept
  <2>1. cubes[c] = Constructed(capacity) /\ capacity \in {4, 8}
    BY DEF Untouched, IInv, Configured
  <2>2. f \in Range(Fields[k])
    BY DEF ToSet, Range
  <2>3. CubeSize # BanksPerVault
    BY Zenon DEF CubeSize, BanksPerVault, Fields, F
  <2> DEFINE regs == cubes[c].regs
             one == BitsOf(IF capacity = 8 THEN 2 ELSE 1)
             two == BitsOf(IF capacity = 8 THEN 1 ELSE 0)
  <2>4. Get(regs[i], f) = IF k = "FEAT" /\ f = CubeSize THEN one
                          ELSE IF k = "FEAT" /\ f = BanksPerVault THEN two ELSE f.reset
    BY <2>1, <2>2, NewRegisters
  <2> HIDE DEF regs, one, two
  <2>5. Get(regs[i], f) = CASE k = "FEAT" /\ f = CubeSize -> one
                            [] k = "FEAT" /\ f = BanksPerVault -> two
                            [] OTHER -> f.reset
    BY <2>3, <2>4
  <2> QED BY <2>5 DEF regs, one, two
<1> QED BY <1>1, <1>2, <1>3, JourneyInvariant, PTL DEF Spec

\* The copy of the registers in the decoding: whatever was written, its block
\* size is the one that AC names, and all of it is what the registers say
\* unless FEAT was written after AC.
THEOREM JourneyDecodingFresh == Spec => []DecodingFresh
<1>1. IInv => DecodingFresh
  <2>1. \A bsize, banks : SetDecoding(bsize, banks).start = Log2(bsize)
    BY DEF SetDecoding
  <2>2. SUFFICES ASSUME IInv, NEW c \in Cubes
                 PROVE  LET regs == cubes[c].regs IN
                        /\ cubes[c].decoding.start = Log2(GetBsize(regs))
                        /\ ~FeatPending(c) =>
                             cubes[c].decoding =
                               SetDecoding(GetBsize(regs), GetNumBanksPerVault(regs))
    BY DEF DecodingFresh
  <2>3. Mapped(cubes[c]) /\ (~FeatPending(c) => UpToDate(cubes[c]))
    BY <2>2 DEF IInv, Configured
  <2> QED BY <2>1, <2>3 DEF Mapped, UpToDate
<1> QED BY <1>1, JourneyInvariant, PTL

\* The switch of a quad has exactly one link for a packet, however the
\* decoding was changed under way: the assertion of hmc_conn_part::clock.
THEOREM JourneyLinkExists == Spec => []LinkExists
<1>1. IInv => LinkExists
  <2> SUFFICES ASSUME IInv, NEW c \in Cubes, NEW q \in QuadIds, place = AtQuad(c, q)
               PROVE  Cardinality(EndOf(c, q, DecodeLink(c, q, packet))) = 1
    BY DEF LinkExists
  <2>1. Switched(c, q, packet) /\ topology \in Topologies
    BY AtSwitch DEF IInv, Configured
  <2>2. PICK e : EndOf(c, q, DecodeLink(c, q, packet)) = {e}
    BY <2>1, OneEnd
  <2> QED BY <2>2, FS_Singleton
<1> QED BY <1>1, JourneyInvariant, PTL

\* The rank that a request is given to exists, unless AC was written after
\* FEAT.
THEOREM JourneyRankExists == Spec => []RankExists
<1>1. IInv => RankExists
  BY DEF IInv
<1> QED BY <1>1, JourneyInvariant, PTL

\* Within a cube a packet never turns back: every link brings it nearer to the
\* quad it has to leave by.
THEOREM JourneyHopsNearer == Spec => HopsNearer
<1> DEFINE Nearer ==
      \A c \in Cubes, q, r \in QuadIds :
        q # r /\ place = AtQuad(c, q) /\ place' = AtQuad(c, r) =>
          QuadDistance(r, WantedQuad(c, packet)) < QuadDistance(q, WantedQuad(c, packet))
<1>1. IInv /\ Next => Nearer
  <2> SUFFICES ASSUME IInv, Next, NEW c \in Cubes, NEW q \in QuadIds, NEW r \in QuadIds,
                      q # r, place = AtQuad(c, q), place' = AtQuad(c, r)
               PROVE  QuadDistance(r, WantedQuad(c, packet))
                        < QuadDistance(q, WantedQuad(c, packet))
    OBVIOUS
  <2>1. place # AtDriver /\ place' # place /\ \A s : place # AtHost(s)
    BY PlaceKinds
  <2>2. \A d, k, v : place # AtVault(d, k, v) /\ place # InDram(d, k, v)
    BY PlaceKinds
  <2>3. Step
    BY <2>1 DEF Next, EncodeAddress, EncodeCell, Encode, JtagRegWrite, UtilSetMaxBlocksize, Renewed
  <2>4. PICK d \in Cubes, k \in QuadIds : Hop(d, k)
    BY <2>1, <2>2, <2>3 DEF Step, Send, Recv, Accept, Answer
  <2>5. Hop(c, q)
    <3>1. place = AtQuad(d, k)
      BY <2>4 DEF Hop
    <3>2. AtQuad(c, q)[2] = AtQuad(d, k)[2] /\ AtQuad(c, q)[3] = AtQuad(d, k)[3]
      BY <3>1
    <3>3. c = d /\ q = k
      <4>1. \A x, y : AtQuad(x, y)[2] = x /\ AtQuad(x, y)[3] = y
        BY PlaceKinds
      <4>2. AtQuad(c, q)[2] = c /\ AtQuad(d, k)[2] = d
        BY <4>1
      <4>3. AtQuad(c, q)[3] = q /\ AtQuad(d, k)[3] = k
        BY <4>1
      <4> QED BY <3>2, <4>2, <4>3
    <3> QED BY <2>4, <3>3
  <2>6. Way(c, q, packet, place')
    BY <2>5, HopTakesWay
  <2> QED BY <2>6, PlaceKinds DEF Way
<1>2. IInv /\ [Next]_vars => [Nearer]_vars
  BY <1>1
<1> QED BY <1>2, JourneyInvariant, PTL DEF Spec, HopsNearer

-----------------------------------------------------------------------------
(* What the tables say of the answer to a command. *)

LEMMA CommandNames ==
  /\ Reads = {"RD16", "RD32", "RD48", "RD64", "RD80", "RD96", "RD112", "RD128", "RD256"}
  /\ Writes = {"WR16", "WR32", "WR48", "WR64", "WR80", "WR96", "WR112", "WR128", "WR256"}
  /\ PostedWrites = {"P_WR16", "P_WR32", "P_WR48", "P_WR64", "P_WR80", "P_WR96", "P_WR112",
                     "P_WR128", "P_WR256"}
<1>1. DOMAIN Read = 1 .. 9 /\ DOMAIN Write = 1 .. 9 /\ DOMAIN PostedWrite = 1 .. 9
  BY DEF Read, Write, PostedWrite
<1>2. Reads = {Read[i] : i \in 1 .. 9} /\ Writes = {Write[i] : i \in 1 .. 9}
      /\ PostedWrites = {PostedWrite[i] : i \in 1 .. 9}
  BY <1>1 DEF Reads, Writes, PostedWrites, ToSet
<1>3. ASSUME NEW f PROVE {f[i] : i \in 1 .. 9} = {f[1], f[2], f[3], f[4], f[5], f[6], f[7], f[8], f[9]}
  OBVIOUS
<1>4. \A f : {f[i] : i \in 1 .. 9} = {f[1], f[2], f[3], f[4], f[5], f[6], f[7], f[8], f[9]}
  BY <1>3
<1>5. Reads = {Read[1], Read[2], Read[3], Read[4], Read[5], Read[6], Read[7], Read[8], Read[9]}
  BY <1>2, <1>4, Zenon
<1>6. Writes = {Write[1], Write[2], Write[3], Write[4], Write[5], Write[6], Write[7], Write[8],
                Write[9]}
  BY <1>2, <1>4, Zenon
<1>7. PostedWrites = {PostedWrite[1], PostedWrite[2], PostedWrite[3], PostedWrite[4],
                      PostedWrite[5], PostedWrite[6], PostedWrite[7], PostedWrite[8],
                      PostedWrite[9]}
  BY <1>2, <1>4, Zenon
<1>8. Reads = {"RD16", "RD32", "RD48", "RD64", "RD80", "RD96", "RD112", "RD128", "RD256"}
  BY <1>5 DEF Read
<1>9. Writes = {"WR16", "WR32", "WR48", "WR64", "WR80", "WR96", "WR112", "WR128", "WR256"}
  BY <1>6 DEF Write
<1>10. PostedWrites = {"P_WR16", "P_WR32", "P_WR48", "P_WR64", "P_WR80", "P_WR96", "P_WR112",
                       "P_WR128", "P_WR256"}
  BY <1>7 DEF PostedWrite
<1> QED BY <1>8, <1>9, <1>10

\* A command that is carried out and answered has a response of its flits of
\* data and one for header and tail.
LEMMA AnswerLength ==
  ASSUME NEW cmd \in Executable, HasResponse(cmd)
  PROVE  RspLen(cmd) = 1 + DataFlits(cmd)
<1>1. cmd \notin Swapping \union Adding \union Comparing \union {"INC8"}
  BY CommandNames DEF Executable, TransactionType, Swapping, Adding, Comparing, BitWrites
<1>2. cmd \in Reads \union Writes \union {"MD_RD", "MD_WR", "BWR", "BWR8R"}
  BY <1>1 DEF HasResponse
<1>3. CASE cmd \in Reads
  <2>1. cmd \notin Writes \union Comparing \union Swapping \union Silent
                    \union {"MD_WR", "BWR", "INC8", "MD_RD", "BWR8R"}
    BY <1>3, CommandNames DEF Comparing, Swapping, Silent
  <2> QED BY <1>3, <2>1 DEF RspLen, DataFlits
<1>4. CASE cmd \in Writes \union {"MD_WR", "BWR"}
  <2>1. cmd \notin Reads \union Swapping \union Silent \union {"MD_RD", "BWR8R"}
    BY <1>4, CommandNames DEF Swapping, Silent
  <2> QED BY <1>4, <2>1 DEF RspLen, DataFlits
<1>5. CASE cmd \in {"MD_RD", "BWR8R"}
  <2>1. cmd \notin Reads \union Writes \union Comparing \union {"MD_WR", "BWR", "INC8"}
    BY <1>5, CommandNames DEF Comparing
  <2> QED BY <1>5, <2>1 DEF RspLen, DataFlits
<1> QED BY <1>2, <1>3, <1>4, <1>5

\* Only commands of at least 48 bytes are compared with the block size, and
\* no smaller one can exceed it.
LEMMA Exceeding ==
  ASSUME NEW cmd, NEW bsize \in Int, bsize >= 32
  PROVE  ExceedsBlock(cmd, bsize) <=> cmd \in DOMAIN Bytes /\ Bytes[cmd] > bsize
<1>1. ASSUME cmd \in DOMAIN Bytes
      PROVE  Bytes[cmd] \in {16, 32, 48, 64, 80, 96, 112, 128, 256}
  <2> DEFINE Named(i) == cmd \in {Read[i], Write[i], PostedWrite[i]}
             k == CHOOSE i \in DOMAIN Sizes : Named(i)
  <2>1. DOMAIN Sizes = 1 .. 9
    BY DEF Sizes
  <2>2. cmd \in Reads \union Writes \union PostedWrites /\ Bytes[cmd] = Sizes[k]
    BY <1>1 DEF Bytes
  <2>3. \E i \in 1 .. 9 : Named(i)
    <3>1. DOMAIN Read = 1 .. 9 /\ DOMAIN Write = 1 .. 9 /\ DOMAIN PostedWrite = 1 .. 9
      BY DEF Read, Write, PostedWrite
    <3> QED BY <2>2, <3>1 DEF Reads, Writes, PostedWrites, ToSet
  <2>4. k \in 1 .. 9
    <3> HIDE DEF Named
    <3> QED BY <2>1, <2>3
  <2>5. \A i \in 1 .. 9 : Sizes[i] \in {16, 32, 48, 64, 80, 96, 112, 128, 256}
    BY DEF Sizes
  <2> HIDE DEF k
  <2> QED BY <2>2, <2>4, <2>5
<1>2. ASSUME cmd \in DOMAIN Bytes
      PROVE  ExceedsBlock(cmd, bsize) <=> Bytes[cmd] > bsize
  BY <1>1, <1>2 DEF ExceedsBlock, Checked
<1>3. ExceedsBlock(cmd, bsize) => cmd \in DOMAIN Bytes
  BY DEF ExceedsBlock, Checked
<1> QED BY <1>2, <1>3

\* A host gets the response to what it has sent itself, as long as it should
\* be, with an error exactly if the data are more than a block.
THEOREM JourneyAnswerFits == Spec => []AnswerFits
<1>1. IInv => AnswerFits
  <2> SUFFICES ASSUME IInv, NEW s \in Slids, place = AtHost(s)
               PROVE  /\ IsResponse(packet) /\ packet.slid = s /\ asked.slid = s
                      /\ packet.tag = asked.tag % 2048 /\ packet.cub = asked.cub
                      /\ packet.lng = 1 + DataFlits(asked.cmd)
                      /\ (disturbed = {} /\ cubes[asked.cub].decoding.start >= 5) =>
                           (packet.errstat <=>
                              asked.cmd \in DOMAIN Bytes
                                /\ Bytes[asked.cmd] > 2^cubes[asked.cub].decoding.start)
    BY DEF AnswerFits
  <2>1. packet # Nothing
    BY UnderWay, PlaceKinds
  <2>2. IsResponse(packet) /\ place = AtHost(asked.slid)
    <3>1. place # AtDriver /\ place # Over
      BY PlaceKinds
    <3>2. \A c, q, v : place # AtQuad(c, q) /\ place # AtVault(c, q, v) /\ place # InDram(c, q, v)
      BY PlaceKinds
    <3> QED BY <3>1, <3>2 DEF IInv, Located
  <2>3. asked.slid = s
    <3>1. AtHost(s)[2] = AtHost(asked.slid)[2]
      BY <2>2
    <3>2. AtHost(s)[2] = s /\ AtHost(asked.slid)[2] = asked.slid
      BY PlaceKinds
    <3> QED BY <3>1, <3>2
  <2>4. /\ packet.slid = s /\ packet.tag = asked.tag % 2048 /\ packet.cub = asked.cub
        /\ HasResponse(asked.cmd) /\ packet.lng = RspLen(asked.cmd)
        /\ asked.cub \in Cubes /\ asked.cmd \in Executable
    BY <2>1, <2>2, <2>3, PacketFacts
  <2>5. packet.lng = 1 + DataFlits(asked.cmd)
    BY <2>4, AnswerLength
  <2> DEFINE start == cubes[asked.cub].decoding.start
             bsize == GetBsize(cubes[asked.cub].regs)
  <2>6. start = Log2(bsize)
    <3>1. \A c \in Cubes : Mapped(cubes[c])
      BY DEF IInv, Configured
    <3>2. \A b, banks : SetDecoding(b, banks).start = Log2(b)
      BY DEF SetDecoding
    <3> QED BY <2>4, <3>1, <3>2 DEF Mapped
  <2>7. ASSUME disturbed = {}, start >= 5
        PROVE  packet.errstat <=> asked.cmd \in DOMAIN Bytes /\ Bytes[asked.cmd] > 2^start
    <3>1. packet.errstat <=> ExceedsBlock(asked.cmd, bsize)
      BY <2>1, <2>2, <2>7 DEF IInv, Judged
    <3>2. bsize = 2^start /\ bsize \in Bsizes
      BY <2>6, <2>7, BsizeFacts
    <3>3. bsize # 0
      BY <2>6, <2>7, LogValues
    <3> HIDE DEF bsize, start
    <3>4. bsize \in Int /\ bsize >= 32
      BY <3>2, <3>3 DEF Bsizes
    <3>5. ExceedsBlock(asked.cmd, bsize) <=> asked.cmd \in DOMAIN Bytes /\ Bytes[asked.cmd] > bsize
      BY <3>4, Exceeding
    <3> QED BY <3>1, <3>2, <3>5, Zenon
  <2> QED BY <2>2, <2>3, <2>4, <2>5, <2>7
<1> QED BY <1>1, JourneyInvariant, PTL

\* A request in the DRAM simulator of a vault is there, at its bank and cell,
\* by one and the same decoding, unless a register was written while it was in
\* the vault.
THEOREM JourneyOneDecoding == Spec => []OneDecoding
<1>1. IInv => OneDecoding
  <2> SUFFICES ASSUME IInv, NEW c \in Cubes, NEW q \in QuadIds,
                      NEW v \in 0..(VAULTS_PER_QUAD - 1),
                      place = InDram(c, q, v), "vault" \notin disturbed
               PROVE  LET d == cubes[c].decoding
                      IN  /\ c = asked.cub
                          /\ q = Quad(packet.adrs, d) /\ v = Vault(packet.adrs, d)
                          /\ cell = Cell(packet.adrs, d)
    BY DEF OneDecoding
  <2>1. v \in Vaults
    BY DEF Vaults
  <2>2. c = asked.cub
    BY <2>1, AtDestination
  <2> QED BY <2>1, <2>2 DEF IInv, Delivered
<1> QED BY <1>1, JourneyInvariant, PTL

-----------------------------------------------------------------------------
(* The mapping of addresses. *)

\* Where the fields of an address are, for the modes that are not the vendor's.
LEMMA SourceBits ==
  ASSUME NEW d, NEW b \in 5 .. 8, NEW n \in 3 .. 18, Layout(d, b, n)
  PROVE  /\ Source(d.vault) = b..(b + 2)
         /\ Source(d.quad) = (b + 3)..(b + 4)
         /\ Source(d.bank) = (b + 5)..(b + 4 + n)
         /\ Source(d.dram_lo) = 4..(b - 1)
         /\ Source(d.dram_hi) \subseteq (b + 6 + n)..(41 + n)
<1>1. ASSUME NEW f, NEW k \in Nat, NEW s \in Nat, f.mask = 0 .. k, f.shift = s
      PROVE  Source(f) = s .. (s + k)
  <2> DEFINE m == k + 1
  <2>1. m \in Nat /\ m - 1 = k /\ s + m - 1 = s + k
    OBVIOUS
  <2> HIDE DEF m
  <2>2. Up(0 .. (m - 1), s) = s .. (s + m - 1)
    BY <2>1, UpRange
  <2> QED BY <1>1, <2>1, <2>2, Zenon DEF Source
<1>2. Source(d.vault) = b..(b + 2)
  <2>1. PICK k \in Nat : k = 2
    OBVIOUS
  <2>2. d.vault.mask = 0 .. k /\ d.vault.shift = b /\ b \in Nat
    BY <2>1 DEF Layout
  <2>3. Source(d.vault) = b .. (b + k)
    BY <1>1, <2>2
  <2> QED BY <2>1, <2>3
<1>3. Source(d.quad) = (b + 3)..(b + 4)
  <2>1. PICK k \in Nat, s \in Nat : k = 1 /\ s = b + 3
    OBVIOUS
  <2>2. d.quad.mask = 0 .. k /\ d.quad.shift = s
    BY <2>1 DEF Layout
  <2>3. Source(d.quad) = s .. (s + k)
    BY <1>1, <2>2
  <2> QED BY <2>1, <2>3
<1>4. Source(d.bank) = (b + 5)..(b + 4 + n)
  <2>1. PICK k \in Nat, s \in Nat : k = n - 1 /\ s = b + 5
    OBVIOUS
  <2>2. d.bank.mask = 0 .. k /\ d.bank.shift = s
    BY <2>1 DEF Layout
  <2>3. Source(d.bank) = s .. (s + k)
    BY <1>1, <2>2
  <2> QED BY <2>1, <2>3
<1>5. Source(d.dram_lo) = 4..(b - 1)
  <2>1. PICK k \in Nat, s \in Nat : k = b - 5 /\ s = 4
    OBVIOUS
  <2>2. d.dram_lo.mask = 0 .. k /\ d.dram_lo.shift = s
    BY <2>1 DEF Layout
  <2>3. Source(d.dram_lo) = s .. (s + k)
    BY <1>1, <2>2
  <2> QED BY <2>1, <2>3
<1>6. Source(d.dram_hi) \subseteq (b + 6 + n)..(41 + n)
  <2> DEFINE m == d.dram_hi.mask
  <2>1. m = (b - 4) .. 19 /\ Source(d.dram_hi) = Up(m, 10 + n)
    BY DEF Source, Layout
  <2> HIDE DEF m
  <2>2. ASSUME NEW x \in Up(m, 10 + n) PROVE x \in (b + 6 + n)..(41 + n)
    <3>1. PICK k \in m : x = k + (10 + n)
      BY <2>2 DEF Up
    <3>2. k \in (b - 4) .. 19
      BY <2>1
    <3> QED BY <3>1, <3>2
  <2> QED BY <2>1, <2>2
<1> QED BY <1>2, <1>3, <1>4, <1>5, <1>6

\* No two fields share a bit, and vault, quad and bank are within an address.
LEMMA SourcesApart ==
  ASSUME NEW d, NEW b \in 5 .. 8, NEW n \in 3 .. 18, Layout(d, b, n)
  PROVE  LET V == Source(d.vault)
             Q == Source(d.quad)
             B == Source(d.bank)
             L == Source(d.dram_lo)
             H == Source(d.dram_hi)
         IN  /\ V \intersect Q = {} /\ V \intersect B = {} /\ V \intersect L = {}
             /\ V \intersect H = {} /\ Q \intersect B = {} /\ Q \intersect L = {}
             /\ Q \intersect H = {} /\ B \intersect L = {} /\ B \intersect H = {}
             /\ L \intersect H = {}
             /\ V \subseteq 0..33 /\ Q \subseteq 0..33 /\ B \subseteq 0..33
<1>1. /\ Source(d.vault) = b..(b + 2)
      /\ Source(d.quad) = (b + 3)..(b + 4)
      /\ Source(d.bank) = (b + 5)..(b + 4 + n)
      /\ Source(d.dram_lo) = 4..(b - 1)
      /\ Source(d.dram_hi) \subseteq (b + 6 + n)..(41 + n)
  BY SourceBits
<1> DEFINE V == Source(d.vault)
           Q == Source(d.quad)
           B == Source(d.bank)
           L == Source(d.dram_lo)
           H == Source(d.dram_hi)
<1>2. /\ V = b..(b + 2) /\ Q = (b + 3)..(b + 4) /\ B = (b + 5)..(b + 4 + n)
      /\ L = 4..(b - 1) /\ H \subseteq (b + 6 + n)..(41 + n)
  BY <1>1
<1> HIDE DEF V, Q, B, L, H
<1>3. /\ V \intersect Q = {} /\ V \intersect B = {} /\ V \intersect L = {}
      /\ V \intersect H = {} /\ Q \intersect B = {} /\ Q \intersect L = {}
      /\ Q \intersect H = {} /\ B \intersect L = {} /\ B \intersect H = {}
      /\ L \intersect H = {}
  BY <1>2
<1>4. V \subseteq 0..33 /\ Q \subseteq 0..33 /\ B \subseteq 0..33
  BY <1>2
<1> QED BY <1>3, <1>4 DEF V, Q, B, L, H

\* The decoding of a cube, in the modes that are not the vendor's.
LEMMA CubeLayout ==
  ASSUME IInv, NEW c \in Cubes, cubes[c].decoding.start >= 5
  PROVE  \E b \in 5 .. 8, n \in 3 .. 18 : Layout(cubes[c].decoding, b, n)
<1>1. PICK bsize \in Bsizes, banks \in BankNumbers :
        cubes[c].decoding = SetDecoding(bsize, banks)
  <2>1. Mapped(cubes[c])
    BY DEF IInv, Configured
  <2> QED BY <2>1, BsizeFacts DEF Mapped
<1> DEFINE b == Log2(bsize)
           n == Log2(banks)
<1>2. Layout(cubes[c].decoding, b, n)
  BY <1>1, DecodingFacts
<1> HIDE DEF b, n
<1>3. b \in 5 .. 8 /\ n \in 3 .. 18
  BY <1>2 DEF Layout
<1> QED BY <1>2, <1>3

\* Whatever was written to the registers, in whatever order, vault, quad, bank
\* and the low DRAM bits come from the bits that the documented table names,
\* every bit of the DRAM address comes from one bit, and none is used twice.
THEOREM JourneyDecodesByTable == Spec => []DecodesByTable
<1>1. IInv => DecodesByTable
  <2> SUFFICES ASSUME IInv, NEW c \in Cubes, cubes[c].decoding.start >= 5
               PROVE  LET d == cubes[c].decoding
                          b == d.start
                          n == Cardinality(d.bank.mask)
                          fields == {"vault", "quad", "bank", "dram_lo", "dram_hi"}
                      IN  /\ Source(d.vault) = b..(b + 2)
                          /\ Source(d.quad) = (b + 3)..(b + 4)
                          /\ Source(d.bank) = (b + 5)..(b + 4 + n)
                          /\ Source(d.dram_lo) = 4..(b - 1)
                          /\ d.dram_lo.mask \union d.dram_hi.mask = 0..19
                          /\ d.dram_lo.mask \intersect d.dram_hi.mask = {}
                          /\ \A x, y \in fields :
                               x # y => Source(d[x]) \intersect Source(d[y]) = {}
    BY DEF DecodesByTable
  <2> DEFINE d == cubes[c].decoding
  <2>1. PICK b \in 5 .. 8, n \in 3 .. 18 : Layout(d, b, n)
    BY CubeLayout
  <2> HIDE DEF d
  <2>2. /\ Source(d.vault) = b..(b + 2)
        /\ Source(d.quad) = (b + 3)..(b + 4)
        /\ Source(d.bank) = (b + 5)..(b + 4 + n)
        /\ Source(d.dram_lo) = 4..(b - 1)
        /\ Source(d.dram_hi) \subseteq (b + 6 + n)..(41 + n)
    BY <2>1, SourceBits
  <2>3. d.start = b /\ d.bank.mask = 0 .. (n - 1)
    BY <2>1 DEF Layout
  <2>4. Cardinality(d.bank.mask) = n
    <3>1. Cardinality(0 .. (n - 1)) = IF 0 > n - 1 THEN 0 ELSE (n - 1) - 0 + 1
      BY FS_Interval
    <3> QED BY <2>3, <3>1
  <2> DEFINE V == Source(d.vault)
             Q == Source(d.quad)
             B == Source(d.bank)
             L == Source(d.dram_lo)
             H == Source(d.dram_hi)
  <2>5. /\ V \intersect Q = {} /\ V \intersect B = {} /\ V \intersect L = {}
        /\ V \intersect H = {} /\ Q \intersect B = {} /\ Q \intersect L = {}
        /\ Q \intersect H = {} /\ B \intersect L = {} /\ B \intersect H = {}
        /\ L \intersect H = {}
    BY <2>1, SourcesApart
  <2>6. ASSUME NEW x \in {"vault", "quad", "bank", "dram_lo", "dram_hi"},
               NEW y \in {"vault", "quad", "bank", "dram_lo", "dram_hi"}, x # y
        PROVE  Source(d[x]) \intersect Source(d[y]) = {}
    <3>1. /\ V = Source(d["vault"]) /\ Q = Source(d["quad"]) /\ B = Source(d["bank"])
          /\ L = Source(d["dram_lo"]) /\ H = Source(d["dram_hi"])
      OBVIOUS
    <3> HIDE DEF V, Q, B, L, H
    <3>2. CASE x = "vault"
      BY <2>5, <2>6, <3>1, <3>2
    <3>3. CASE x = "quad"
      BY <2>5, <2>6, <3>1, <3>3
    <3>4. CASE x = "bank"
      BY <2>5, <2>6, <3>1, <3>4
    <3>5. CASE x = "dram_lo"
      BY <2>5, <2>6, <3>1, <3>5
    <3>6. CASE x = "dram_hi"
      BY <2>5, <2>6, <3>1, <3>6
    <3> QED BY <3>2, <3>3, <3>4, <3>5, <3>6
  <2>7. /\ d.dram_lo.mask \union d.dram_hi.mask = 0..19
        /\ d.dram_lo.mask \intersect d.dram_hi.mask = {}
    <3>1. d.dram_lo.mask = 0 .. (b - 5) /\ d.dram_hi.mask = (b - 4) .. 19
      BY <2>1 DEF Layout
    <3> DEFINE lo == 0 .. (b - 5)
               hi == (b - 4) .. 19
    <3>2. lo \union hi = 0 .. 19 /\ lo \intersect hi = {}
      OBVIOUS
    <3> QED BY <3>1, <3>2
  <2> QED BY <2>2, <2>3, <2>4, <2>6, <2>7 DEF d
<1> QED BY <1>1, JourneyInvariant, PTL

-----------------------------------------------------------------------------
(* An address is decoded to what it was encoded from. *)

\* A field whose bits in an address are its own is read as it was written.
LEMMA FieldRead ==
  ASSUME NEW f, f.mask \in SUBSET Nat, f.shift \in Nat,
         NEW value \in SUBSET Int, NEW addr \in SUBSET Int,
         addr \intersect Source(f) = Encoded(value, f)
  PROVE  Decoded(addr, f) = value \intersect f.mask
<1> DEFINE m == f.mask
           s == f.shift
<1>1. m \in SUBSET Nat /\ s \in Nat
  OBVIOUS
<1>2. Source(f) = Up(m, s) /\ Encoded(value, f) = Up(value \intersect m, s)
      /\ Decoded(addr, f) = Down(addr, s) \intersect m
  BY DEF Source, Encoded, Decoded
<1> HIDE DEF m, s
<1>3. ASSUME NEW x \in m PROVE x \in Down(addr, s) <=> x \in value
  <2> DEFINE y == x + s
             v == value \intersect m
  <2>1. x \in Nat /\ y \in Int /\ y - s = x /\ m \in SUBSET Int /\ v \in SUBSET Int
        /\ s \in Int /\ x \in Int
    BY <1>1
  <2>2. x \in Down(addr, s) <=> y \in addr
    BY <2>1, DownMember
  <2> HIDE DEF y
  <2>3. y \in Up(m, s) <=> x \in m
    BY <2>1, UpMember, Zenon
  <2>4. y \in Up(v, s) <=> x \in v
    <3> HIDE DEF v
    <3> QED BY <2>1, UpMember, Zenon
  <2>5. y \in addr /\ y \in Up(m, s) <=> y \in Up(v, s)
    BY <1>2
  <2> QED BY <1>3, <2>2, <2>3, <2>4, <2>5
<1> QED BY <1>2, <1>3 DEF m

\* Decoding the address made of the four fields finds the first three again.
ReadBack(d, quad, vault, bank, dram) ==
  LET addr == Address(quad, vault, bank, dram, d) \intersect 0..33
  IN  /\ Decoded(addr, d.quad) = quad \intersect d.quad.mask
      /\ Decoded(addr, d.vault) = vault \intersect d.vault.mask
      /\ Decoded(addr, d.bank) = bank \intersect d.bank.mask

\* Quad, vault and bank of an address are those it was made from, whatever
\* was encoded for the DRAM.
LEMMA AddressRead ==
  ASSUME NEW d, NEW b \in 5 .. 8, NEW n \in 3 .. 18, Layout(d, b, n),
         NEW quad \in SUBSET Int, NEW vault \in SUBSET Int, NEW bank \in SUBSET Int,
         NEW dram
  PROVE  ReadBack(d, quad, vault, bank, dram)
<1> DEFINE addr == Address(quad, vault, bank, dram, d) \intersect 0..33
           H == Encoded(Down(dram, (d.start - 4) % 32), d.dram_hi)
           L == Encoded(dram, d.dram_lo)
           Q == Encoded(quad, d.quad)
           V == Encoded(vault, d.vault)
           B == Encoded(bank, d.bank)
<1>1. addr = (Q \union V \union B \union (H \union L)) \intersect 0..33
  BY DEF Address, EncodedDram
<1>2. \A value, f : Encoded(value, f) \subseteq Source(f)
  BY DEF Encoded, Source, Up
<1> DEFINE SV == Source(d.vault)
           SQ == Source(d.quad)
           SB == Source(d.bank)
           SL == Source(d.dram_lo)
           SH == Source(d.dram_hi)
<1>3. H \subseteq SH /\ L \subseteq SL /\ Q \subseteq SQ /\ V \subseteq SV /\ B \subseteq SB
  BY <1>2
<1> HIDE DEF H, L, Q, V, B, addr
<1>4. /\ SV \intersect SQ = {} /\ SV \intersect SB = {} /\ SV \intersect SL = {}
      /\ SV \intersect SH = {} /\ SQ \intersect SB = {} /\ SQ \intersect SL = {}
      /\ SQ \intersect SH = {} /\ SB \intersect SL = {} /\ SB \intersect SH = {}
      /\ SV \subseteq 0..33 /\ SQ \subseteq 0..33 /\ SB \subseteq 0..33
  BY SourcesApart
<1>5. addr \in SUBSET Int
  BY <1>1
<1>6. addr \intersect SQ = Q
  <2> HIDE DEF SV, SQ, SB, SL, SH
  <2> QED BY <1>1, <1>3, <1>4
<1>7. addr \intersect SV = V
  <2> HIDE DEF SV, SQ, SB, SL, SH
  <2> QED BY <1>1, <1>3, <1>4
<1>8. addr \intersect SB = B
  <2> HIDE DEF SV, SQ, SB, SL, SH
  <2> QED BY <1>1, <1>3, <1>4
<1>9. /\ d.quad.mask \in SUBSET Nat /\ d.quad.shift \in Nat
      /\ d.vault.mask \in SUBSET Nat /\ d.vault.shift \in Nat
      /\ d.bank.mask \in SUBSET Nat /\ d.bank.shift \in Nat
  BY DEF Layout
<1>10. Decoded(addr, d.quad) = quad \intersect d.quad.mask
  BY <1>5, <1>6, <1>9, FieldRead DEF Q
<1>11. Decoded(addr, d.vault) = vault \intersect d.vault.mask
  BY <1>5, <1>7, <1>9, FieldRead DEF V
<1>12. Decoded(addr, d.bank) = bank \intersect d.bank.mask
  BY <1>5, <1>8, <1>9, FieldRead DEF B
<1> QED BY <1>10, <1>11, <1>12 DEF addr, ReadBack

\* A request gets to the vault and bank that it was encoded for, by whatever
\* way, if no register of the cube is written meanwhile.
THEOREM JourneyArrivesAsEncoded == Spec => []ArrivesAsEncoded
<1>1. IInv => ArrivesAsEncoded
  <2> SUFFICES ASSUME IInv, NEW c \in Cubes, NEW q \in QuadIds,
                      NEW v \in 0..(VAULTS_PER_QUAD - 1),
                      place = InDram(c, q, v), disturbed = {}, asked.where # Nothing,
                      cubes[c].decoding.start >= 5
               PROVE  LET x == asked.where
                          d == cubes[c].decoding
                      IN  /\ c = asked.cub /\ q = x.quad /\ v = x.vault
                          /\ x.bank \subseteq d.bank.mask =>
                               /\ cell.bank = x.bank \intersect {0}
                               /\ BitsOf(cell.rank) = Down(x.bank, 1)
    BY DEF ArrivesAsEncoded
  <2> DEFINE x == asked.where
             d == cubes[c].decoding
             a == packet.adrs
  <2>1. v \in Vaults
    BY DEF Vaults
  <2>2. packet # Nothing /\ c = asked.cub /\ ~IsResponse(packet)
    BY <2>1, AtDestination
  <2>3. /\ q = Quad(a, d) /\ v = Vault(a, d) /\ cell = Cell(a, d)
    BY <2>1 DEF IInv, Delivered
  <2>4. a = Address(BitsOf(x.quad), BitsOf(x.vault), x.bank, x.dram, d) \intersect 0..33
    BY <2>2 DEF IInv, Addressed
  <2>5. x.quad \in 0 .. 3 /\ x.vault \in 0 .. 7 /\ x.bank \in SUBSET (0 .. 31)
    <3>1. x \in Cells
      BY <2>2, PacketFacts DEF Asked
    <3> HIDE DEF x
    <3>2. x \in [quad : QuadIds, vault : 0..(VAULTS_PER_QUAD - 1),
                 bank : SUBSET (0..31), dram : SUBSET (0..31)]
      BY <3>1, JourneyAssumption
    <3> QED BY <3>2 DEF QuadIds, VAULTS_PER_QUAD
  <2>6. PICK b \in 5 .. 8, n \in 3 .. 18 : Layout(d, b, n)
    BY CubeLayout
  <2> HIDE DEF x, d, a
  <2>7. /\ Decoded(a, d.quad) = BitsOf(x.quad) \intersect d.quad.mask
        /\ Decoded(a, d.vault) = BitsOf(x.vault) \intersect d.vault.mask
        /\ Decoded(a, d.bank) = x.bank \intersect d.bank.mask
    <3>1. \A k : BitsOf(k) \in SUBSET Int
      BY DEF BitsOf
    <3>2. x.bank \in SUBSET Int
      BY <2>5
    <3> DEFINE quad == BitsOf(x.quad)
               vault == BitsOf(x.vault)
               bank == x.bank
               dram == x.dram
    <3>3. quad \in SUBSET Int /\ vault \in SUBSET Int /\ bank \in SUBSET Int
      BY <3>1, <3>2
    <3>4. a = Address(quad, vault, bank, dram, d) \intersect 0..33
      BY <2>4
    <3> HIDE DEF quad, vault, bank, dram
    <3>5. ReadBack(d, quad, vault, bank, dram)
      BY <2>6, <3>3, AddressRead, Zenon
    <3> QED BY <3>4, <3>5 DEF quad, vault, bank, ReadBack
  <2>8. d.quad.mask = 0 .. 1 /\ d.vault.mask = 0 .. 2 /\ d.bank.mask = 0 .. (n - 1)
    BY <2>6 DEF Layout
  <2>9. q = x.quad /\ v = x.vault
    <3>1. ValueOf(BitsOf(x.quad) \intersect 0 .. 1) = x.quad
      BY <2>5, ValueOfBits
    <3>2. ValueOf(BitsOf(x.vault) \intersect 0 .. 2) = x.vault
      BY <2>5, ValueOfBits
    <3> QED BY <2>3, <2>7, <2>8, <3>1, <3>2 DEF Quad, Vault
  <2>10. ASSUME x.bank \subseteq d.bank.mask
         PROVE  cell.bank = x.bank \intersect {0} /\ BitsOf(cell.rank) = Down(x.bank, 1)
    <3>1. Decoded(a, d.bank) = x.bank
      BY <2>7, <2>10
    <3>2. cell.bank = x.bank \intersect Ones(1) /\ cell.rank = ValueOf(Down(x.bank, 1))
      BY <2>3, <3>1 DEF Cell, BANK_BITS_PER_RANK
    <3>3. Ones(1) = {0}
      <4>1. 1 % 32 = 1 /\ 0 .. (1 - 1) = {0}
        OBVIOUS
      <4> QED BY <4>1 DEF Ones
    <3>4. Down(x.bank, 1) \in SUBSET (0 .. 29)
      <4>1. ASSUME NEW k \in Down(x.bank, 1) PROVE k \in 0 .. 29
        <5>1. PICK j \in x.bank : j >= 1 /\ k = j - 1
          BY <4>1 DEF Down
        <5>2. j \in 0 .. (n - 1)
          BY <2>8, <2>10
        <5> QED BY <5>1, <5>2
      <4> QED BY <4>1
    <3> QED BY <3>2, <3>3, <3>4, BitsOfValue
  <2> QED BY <2>2, <2>9, <2>10 DEF x, d
<1> QED BY <1>1, JourneyInvariant, PTL

=============================================================================
