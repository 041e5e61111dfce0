-------------------------- MODULE HmcRecursionProofs --------------------------
(***************************************************************************)
(* Induction over the naturals and over sequences, the least element of a  *)
(* set, and definition by recursion, in a form without operator parameters;*)
(* what follows for Iterated and Total, for folds over a sequence, and for *)
(* the sequences Selected and Joined.                                      *)
(***************************************************************************)
EXTENDS HmcRecursion, HmcFold, TLAPS, WellFoundedInduction, SequenceTheorems

\* A set that contains 0 and the successors of its members contains every
\* natural number.
LEMMA SetInduction ==
  ASSUME NEW S, 0 \in S, \A n \in Nat : n \in S => n + 1 \in S
  PROVE  \A n \in Nat : n \in S
<1> DEFINE T == Nat \ S
<1>1. SUFFICES ASSUME T # {} PROVE FALSE
  OBVIOUS
<1>2. PICK m \in T : \A k \in T : ~(<<k, m>> \in OpToRel(<, Nat))
  <2>1. IsWellFoundedOn(OpToRel(<, Nat), Nat)
    BY NatLessThanWellFounded
  <2>2. T \subseteq Nat
    OBVIOUS
  <2> HIDE DEF T
  <2> QED BY <1>1, <2>1, <2>2, WFMin
<1>3. m \in Nat /\ m # 0 /\ m - 1 \in Nat
  OBVIOUS
<1>4. m - 1 \notin S
  OBVIOUS
<1>5. <<m - 1, m>> \in OpToRel(<, Nat)
  BY <1>3 DEF OpToRel
<1> QED BY <1>2, <1>3, <1>4, <1>5

\* f starts at x and goes on with G.
IsRun(f, S, G, x) ==
  f \in [Nat -> S] /\ f[0] = x /\ \A n \in Nat : f[n + 1] = G[<<n, f[n]>>]

\* A step function on S defines a sequence of members of S.
LEMMA RecursionExists ==
  ASSUME NEW S, NEW G \in [Nat \X S -> S], NEW x \in S
  PROVE  \E f : IsRun(f, S, G, x)
<1> DEFINE Prefix(n) ==
             {g \in [0 .. n -> S] : /\ g[0] = x
                                   /\ \A i \in 0 .. n - 1 : g[i + 1] = G[<<i, g[i]>>]}
<1>1. \A n \in Nat : Prefix(n) # {}
  <2> DEFINE T == {n \in Nat : Prefix(n) # {}}
  <2>1. 0 \in T
    <3>1. [i \in 0 .. 0 |-> x] \in Prefix(0)
      OBVIOUS
    <3> QED BY <3>1
  <2>2. ASSUME NEW n \in Nat, n \in T PROVE n + 1 \in T
    <3>1. PICK g : g \in Prefix(n)
      BY <2>2
    <3> DEFINE h == [i \in 0 .. n + 1 |-> IF i = n + 1 THEN G[<<n, g[n]>>] ELSE g[i]]
    <3>2. g[n] \in S /\ G[<<n, g[n]>>] \in S
      BY <3>1
    <3>3. h \in [0 .. n + 1 -> S]
      BY <3>1, <3>2
    <3>4. h[0] = x
      BY <3>1
    <3>5. ASSUME NEW i \in 0 .. n PROVE h[i + 1] = G[<<i, h[i]>>]
      <4>1. CASE i = n
        <5>1. h[n] = g[n] /\ h[n + 1] = G[<<n, g[n]>>]
          OBVIOUS
        <5> HIDE DEF h
        <5> QED BY <4>1, <5>1
      <4>2. CASE i # n
        BY <4>2, <3>1
      <4> QED BY <4>1, <4>2
    <3>6. (n + 1) - 1 = n
      OBVIOUS
    <3>7. h \in Prefix(n + 1)
      BY <3>3, <3>4, <3>5, <3>6
    <3> QED BY <3>7
  <2> HIDE DEF T
  <2>3. \A n \in Nat : n \in T
    BY <2>1, <2>2, SetInduction
  <2> QED BY <2>3 DEF T
<1>2. ASSUME NEW m \in Nat, NEW n \in Nat, m <= n, NEW g \in Prefix(m), NEW h \in Prefix(n)
      PROVE  g[m] = h[m]
  <2> DEFINE T == {i \in Nat : i <= m => g[i] = h[i]}
  <2>1. 0 \in T
    OBVIOUS
  <2>2. ASSUME NEW i \in Nat, i \in T PROVE i + 1 \in T
    <3>1. SUFFICES ASSUME i + 1 <= m PROVE g[i + 1] = h[i + 1]
      OBVIOUS
    <3>2. i \in 0 .. m - 1 /\ i \in 0 .. n - 1
      BY <1>2, <3>1
    <3>3. g[i + 1] = G[<<i, g[i]>>] /\ h[i + 1] = G[<<i, h[i]>>]
      BY <3>2
    <3>4. g[i] = h[i]
      BY <2>2, <3>1
    <3> QED BY <3>3, <3>4
  <2> HIDE DEF T
  <2>3. \A i \in Nat : i \in T
    BY <2>1, <2>2, SetInduction
  <2> QED BY <2>3 DEF T
<1> DEFINE f == [n \in Nat |-> (CHOOSE g \in Prefix(n) : TRUE)[n]]
<1>3. ASSUME NEW n \in Nat, NEW g \in Prefix(n) PROVE f[n] = g[n]
  <2> DEFINE c == CHOOSE h \in Prefix(n) : TRUE
  <2> HIDE DEF Prefix
  <2>1. c \in Prefix(n)
    BY <1>1
  <2>2. c[n] = g[n]
    BY <1>2, <2>1
  <2> QED BY <2>2
<1> HIDE DEF f
<1>4. ASSUME NEW n \in Nat PROVE f[n] \in S /\ f[n + 1] = G[<<n, f[n]>>]
  <2>1. PICK g : g \in Prefix(n + 1)
    BY <1>1
  <2>2. [i \in 0 .. n |-> g[i]] \in Prefix(n)
    BY <2>1
  <2>3. f[n] = g[n]
    BY <2>2, <1>3
  <2>4. f[n + 1] = g[n + 1]
    BY <2>1, <1>3
  <2> QED BY <2>1, <2>3, <2>4
<1>5. f \in [Nat -> S]
  BY <1>4 DEF f
<1>6. f[0] = x
  <2>1. PICK g : g \in Prefix(0)
    BY <1>1
  <2>2. f[0] = g[0]
    BY <1>3, <2>1
  <2> QED BY <2>1, <2>2
<1> QED BY <1>4, <1>5, <1>6 DEF IsRun

-----------------------------------------------------------------------------
\* f is the sequence of the iterates of F on S from x.
Iterates(f, S, F, x) ==
  f \in [Nat -> S] /\ f[0] = x /\ \A n \in Nat : f[n + 1] = F[f[n]]

\* Iterated satisfies its recursion.
LEMMA IteratedRecursion ==
  ASSUME NEW S, NEW F \in [S -> S], NEW x \in S
  PROVE  Iterates(Iterated(F, x), S, F, x)
<1> DEFINE G == [z \in Nat \X S |-> F[z[2]]]
           r == Iterated(F, x)
<1>1. G \in [Nat \X S -> S]
  <2>1. ASSUME NEW z \in Nat \X S PROVE F[z[2]] \in S
    OBVIOUS
  <2> QED BY <2>1
<1>2. PICK f : IsRun(f, S, G, x)
  <2> HIDE DEF G
  <2> QED BY <1>1, RecursionExists
<1>3. /\ f \in [Nat -> S] /\ f[0] = x
      /\ \A n \in Nat : f[n + 1] = F[f[n]]
  BY <1>2 DEF IsRun
<1> HIDE DEF G
<1>4. f = [n \in Nat |-> IF n = 0 THEN x ELSE F[f[n - 1]]]
  <2>1. ASSUME NEW n \in Nat PROVE f[n] = IF n = 0 THEN x ELSE F[f[n - 1]]
    <3>1. CASE n = 0
      BY <3>1, <1>3
    <3>2. CASE n # 0
      <4>1. n - 1 \in Nat /\ (n - 1) + 1 = n
        BY <3>2
      <4>2. f[(n - 1) + 1] = F[f[n - 1]]
        BY <4>1, <1>3
      <4> QED BY <4>1, <4>2, <3>2
    <3> QED BY <3>1, <3>2
  <2> QED BY <2>1, <1>3
<1>5. r = [n \in Nat |-> IF n = 0 THEN x ELSE F[r[n - 1]]]
  <2> DEFINE Fits(g) == g = [n \in Nat |-> IF n = 0 THEN x ELSE F[g[n - 1]]]
  <2>1. r = CHOOSE g : Fits(g)
    BY DEF Iterated
  <2>2. Fits(f)
    BY <1>4
  <2> HIDE DEF Fits, r
  <2>3. Fits(r)
    BY <2>1, <2>2
  <2> QED BY <2>3 DEF Fits
<1> HIDE DEF r
<1>6. \A n \in Nat : r[n] = IF n = 0 THEN x ELSE F[r[n - 1]]
  BY <1>5
<1>7. \A n \in Nat : r[n] = f[n]
  <2> DEFINE T == {n \in Nat : r[n] = f[n]}
  <2>1. 0 \in T
    BY <1>3, <1>6
  <2>2. ASSUME NEW n \in Nat, n \in T PROVE n + 1 \in T
    <3>1. n + 1 \in Nat /\ n + 1 # 0 /\ (n + 1) - 1 = n
      OBVIOUS
    <3>2. r[n + 1] = F[r[(n + 1) - 1]]
      BY <1>6, <3>1, Zenon
    <3>3. r[n + 1] = F[r[n]]
      BY <3>1, <3>2, Zenon
    <3>4. r[n + 1] = f[n + 1]
      BY <3>3, <2>2, <1>3
    <3> QED BY <3>1, <3>4
  <2> HIDE DEF T
  <2>3. \A n \in Nat : n \in T
    BY <2>1, <2>2, SetInduction
  <2> QED BY <2>3 DEF T
<1>8. r = f
  <2>1. \A n \in Nat : f[n] = IF n = 0 THEN x ELSE F[r[n - 1]]
    BY <1>6, <1>7, Zenon
  <2>2. f = [n \in Nat |-> IF n = 0 THEN x ELSE F[r[n - 1]]]
    BY <1>3, <2>1, Zenon
  <2> QED BY <1>5, <2>2, Zenon
<1>9. r \in [Nat -> S] /\ r[0] = x /\ \A n \in Nat : r[n + 1] = F[r[n]]
  BY <1>3, <1>8, Zenon
<1> QED BY <1>9 DEF r, Iterates

\* A set closed under F that holds x holds every iterate of x.
LEMMA IterationInvariant ==
  ASSUME NEW S, NEW F \in [S -> S], NEW I \in SUBSET S, NEW x \in I,
         \A s \in I : F[s] \in I
  PROVE  \A n \in Nat : Iterated(F, x)[n] \in I
<1> DEFINE r == Iterated(F, x)
           T == {n \in Nat : r[n] \in I}
<1>1. r[0] = x /\ \A n \in Nat : r[n + 1] = F[r[n]]
  <2>1. x \in S
    OBVIOUS
  <2>2. Iterates(r, S, F, x)
    BY <2>1, IteratedRecursion
  <2> QED BY <2>2 DEF Iterates
<1> HIDE DEF r
<1>2. 0 \in T
  BY <1>1
<1>3. ASSUME NEW n \in Nat, n \in T PROVE n + 1 \in T
  BY <1>1, <1>3
<1> HIDE DEF T
<1>4. \A n \in Nat : n \in T
  BY <1>2, <1>3, SetInduction
<1> QED BY <1>4 DEF T, r

-----------------------------------------------------------------------------
LEMMA AtType ==
  ASSUME NEW s \in Seq(Nat), NEW n \in Nat
  PROVE  At(s, n) \in Nat
BY DEF At

\* The partial sums of a sequence of naturals satisfy their recursion.
LEMMA PartialRecursion ==
  ASSUME NEW s \in Seq(Nat)
  PROVE  /\ Partial(s) \in [Nat -> Nat]
         /\ Partial(s)[0] = 0
         /\ \A n \in Nat : Partial(s)[n + 1] = Partial(s)[n] + At(s, n + 1)
<1> DEFINE G == [z \in Nat \X Nat |-> z[2] + At(s, z[1] + 1)]
<1>1. \A n \in Nat : At(s, n) \in Nat
  BY AtType
<1>2. G \in [Nat \X Nat -> Nat]
  <2>1. ASSUME NEW z \in Nat \X Nat PROVE z[2] + At(s, z[1] + 1) \in Nat
    <3>1. z[1] + 1 \in Nat /\ z[2] \in Nat
      OBVIOUS
    <3>2. At(s, z[1] + 1) \in Nat
      BY <1>1, <3>1
    <3> QED BY <3>1, <3>2
  <2> QED BY <2>1
<1>3. PICK f : IsRun(f, Nat, G, 0)
  <2>1. 0 \in Nat
    OBVIOUS
  <2> HIDE DEF G
  <2> QED BY <1>2, <2>1, RecursionExists
<1>4. /\ f \in [Nat -> Nat] /\ f[0] = 0
      /\ \A n \in Nat : f[n + 1] = f[n] + At(s, n + 1)
  BY <1>3 DEF IsRun
<1> HIDE DEF G
<1>5. f = [n \in Nat |-> IF n = 0 THEN 0 ELSE f[n - 1] + At(s, n)]
  <2>1. ASSUME NEW n \in Nat
        PROVE  f[n] = IF n = 0 THEN 0 ELSE f[n - 1] + At(s, n)
    <3>1. CASE n = 0
      BY <3>1, <1>4
    <3>2. CASE n # 0
      <4>1. n - 1 \in Nat /\ (n - 1) + 1 = n
        BY <3>2
      <4>2. f[(n - 1) + 1] = f[n - 1] + At(s, (n - 1) + 1)
        BY <4>1, <1>4
      <4> QED BY <4>1, <4>2, <3>2
    <3> QED BY <3>1, <3>2
  <2> QED BY <2>1, <1>4
<1>6. Partial(s) = [n \in Nat |-> IF n = 0 THEN 0 ELSE Partial(s)[n - 1] + At(s, n)]
  <2> DEFINE IsSum(g) == g = [n \in Nat |-> IF n = 0 THEN 0 ELSE g[n - 1] + At(s, n)]
  <2>1. Partial(s) = CHOOSE g : IsSum(g)
    BY DEF Partial
  <2>2. IsSum(f)
    BY <1>5
  <2> HIDE DEF IsSum
  <2>3. IsSum(Partial(s))
    BY <2>1, <2>2
  <2> QED BY <2>3 DEF IsSum
<1>7. \A n \in Nat : Partial(s)[n] = IF n = 0 THEN 0 ELSE Partial(s)[n - 1] + At(s, n)
  BY <1>6
<1>8. \A n \in Nat : Partial(s)[n] = f[n]
  <2> DEFINE T == {n \in Nat : Partial(s)[n] = f[n]}
  <2>1. 0 \in T
    BY <1>4, <1>7
  <2>2. ASSUME NEW n \in Nat, n \in T PROVE n + 1 \in T
    <3>1. n + 1 \in Nat /\ n + 1 # 0 /\ (n + 1) - 1 = n
      OBVIOUS
    <3>2. Partial(s)[n + 1] = Partial(s)[(n + 1) - 1] + At(s, n + 1)
      BY <1>7, <3>1, Zenon
    <3>3. Partial(s)[n + 1] = Partial(s)[n] + At(s, n + 1)
      BY <3>1, <3>2, Zenon
    <3>4. Partial(s)[n] = f[n] /\ f[n + 1] = f[n] + At(s, n + 1)
      BY <2>2, <1>4
    <3>5. Partial(s)[n + 1] = f[n + 1]
      BY <3>3, <3>4, Zenon
    <3> QED BY <3>1, <3>5
  <2> HIDE DEF T
  <2>3. \A n \in Nat : n \in T
    BY <2>1, <2>2, SetInduction
  <2> QED BY <2>3 DEF T
<1>9. Partial(s) = f
  <2>1. \A n \in Nat : f[n] = IF n = 0 THEN 0 ELSE Partial(s)[n - 1] + At(s, n)
    BY <1>7, <1>8, Zenon
  <2>2. f = [n \in Nat |-> IF n = 0 THEN 0 ELSE Partial(s)[n - 1] + At(s, n)]
    BY <1>4, <2>1, Zenon
  <2> QED BY <1>6, <2>2, Zenon
<1> QED BY <1>4, <1>9

\* The sum of a sequence of naturals is a natural.
LEMMA TotalType ==
  ASSUME NEW s \in Seq(Nat)
  PROVE  Total(s) \in Nat
BY PartialRecursion, LenProperties DEF Total

LEMMA TotalEmpty == Total(<<>>) = 0
<1>1. <<>> \in Seq(Nat) /\ Len(<<>>) = 0
  OBVIOUS
<1> QED BY <1>1, PartialRecursion DEF Total

\* Partial sums up to n only look at the first n members.
LEMMA PartialCongruence ==
  ASSUME NEW s \in Seq(Nat), NEW t \in Seq(Nat), NEW m \in Nat,
         \A i \in 1 .. m : At(s, i) = At(t, i)
  PROVE  Partial(s)[m] = Partial(t)[m]
<1> DEFINE T == {n \in Nat : n <= m => Partial(s)[n] = Partial(t)[n]}
<1>1. 0 \in T
  BY PartialRecursion
<1>2. ASSUME NEW n \in Nat, n \in T PROVE n + 1 \in T
  BY <1>2, PartialRecursion
<1> HIDE DEF T
<1>3. \A n \in Nat : n \in T
  BY <1>1, <1>2, SetInduction
<1> QED BY <1>3 DEF T

LEMMA TotalAppend ==
  ASSUME NEW s \in Seq(Nat), NEW x \in Nat
  PROVE  Total(Append(s, x)) = Total(s) + x
<1> DEFINE t == Append(s, x)
<1>1. t \in Seq(Nat) /\ Len(t) = Len(s) + 1 /\ t[Len(s) + 1] = x
  BY AppendProperties
<1>2. \A i \in 1 .. Len(s) : At(s, i) = At(t, i)
  BY AppendProperties DEF At
<1>3. At(t, Len(s) + 1) = x
  BY <1>1 DEF At
<1> HIDE DEF t
<1>4. Len(s) \in Nat
  OBVIOUS
<1>5. Partial(s)[Len(s)] = Partial(t)[Len(s)]
  BY <1>1, <1>2, <1>4, PartialCongruence
<1>6. Partial(t)[Len(s) + 1] = Partial(t)[Len(s)] + x
  BY <1>1, <1>3, <1>4, PartialRecursion
<1>7. Total(t) = Total(s) + x
  BY <1>1, <1>5, <1>6 DEF Total
<1> QED BY <1>7 DEF t

LEMMA TotalTail ==
  ASSUME NEW s \in Seq(Nat), s # <<>>
  PROVE  Total(s) = Head(s) + Total(Tail(s))
<1> DEFINE t == Tail(s)
<1>1. /\ t \in Seq(Nat) /\ Len(s) = Len(t) + 1 /\ Head(s) = s[1] /\ s[1] \in Nat
      /\ \A i \in 1 .. Len(t) : t[i] = s[i + 1]
  BY HeadTailProperties
<1>2. \A i \in Nat \ {0} : At(t, i) = At(s, i + 1)
  BY <1>1 DEF At
<1>3. At(s, 1) = Head(s)
  BY <1>1 DEF At
<1>6. Len(t) \in Nat
  BY <1>1
<1> HIDE DEF t
<1> DEFINE T == {n \in Nat : Partial(s)[n + 1] = Head(s) + Partial(t)[n]}
<1>4. 0 \in T
  <2>1. Partial(s)[0] = 0 /\ Partial(t)[0] = 0 /\ Partial(s)[0 + 1] = Partial(s)[0] + At(s, 0 + 1)
    BY <1>1, PartialRecursion
  <2> QED BY <1>1, <1>3, <2>1
<1>5. ASSUME NEW n \in Nat, n \in T PROVE n + 1 \in T
  <2>1. Partial(s)[(n + 1) + 1] = Partial(s)[n + 1] + At(s, (n + 1) + 1)
    BY PartialRecursion
  <2>2. Partial(t)[n + 1] = Partial(t)[n] + At(t, n + 1)
    BY <1>1, PartialRecursion
  <2>3. At(t, n + 1) = At(s, (n + 1) + 1)
    BY <1>2
  <2>4. Partial(t)[n] \in Nat /\ At(t, n + 1) \in Nat
    <3>1. t \in Seq(Nat) /\ n + 1 \in Nat
      BY <1>1
    <3>2. Partial(t) \in [Nat -> Nat]
      BY <3>1, PartialRecursion, Zenon
    <3>3. At(t, n + 1) \in Nat
      BY <3>1, AtType, Zenon
    <3> QED BY <3>2, <3>3
  <2> QED BY <1>1, <1>5, <2>1, <2>2, <2>3, <2>4
<1> HIDE DEF T
<1>7. \A n \in Nat : n \in T
  BY <1>4, <1>5, SetInduction
<1>8. Partial(s)[Len(t) + 1] = Head(s) + Partial(t)[Len(t)]
  BY <1>6, <1>7 DEF T
<1> QED BY <1>1, <1>8 DEF Total, t

\* Changing one member changes the sum by the difference.
LEMMA TotalUpdate ==
  ASSUME NEW s \in Seq(Nat), NEW k \in 1 .. Len(s), NEW x \in Nat
  PROVE  Total([s EXCEPT ![k] = x]) = (Total(s) - s[k]) + x
<1> DEFINE t == [s EXCEPT ![k] = x]
<1>1. t \in Seq(Nat) /\ Len(t) = Len(s) /\ t[k] = x /\ s[k] \in Nat /\ Len(s) \in Nat
  BY ExceptSeq
<1>2. \A i \in Nat : i # k => At(t, i) = At(s, i)
  BY DEF At
<1>3. At(t, k) = x /\ At(s, k) = s[k]
  BY <1>1 DEF At
<1> HIDE DEF t
<1> DEFINE T == {n \in Nat : n >= k => Partial(t)[n] = (Partial(s)[n] - s[k]) + x}
<1>4. 0 \in T
  OBVIOUS
<1>5. ASSUME NEW n \in Nat, n \in T PROVE n + 1 \in T
  <2>1. /\ Partial(s)[n + 1] = Partial(s)[n] + At(s, n + 1)
        /\ Partial(t)[n + 1] = Partial(t)[n] + At(t, n + 1)
    BY <1>1, PartialRecursion
  <2>2. /\ Partial(s)[n] \in Nat /\ Partial(t)[n] \in Nat
        /\ At(s, n + 1) \in Nat /\ At(t, n + 1) \in Nat
    <3>1. t \in Seq(Nat) /\ n + 1 \in Nat
      BY <1>1
    <3>2. Partial(s) \in [Nat -> Nat] /\ Partial(t) \in [Nat -> Nat]
      BY <3>1, PartialRecursion, Zenon
    <3>3. At(s, n + 1) \in Nat /\ At(t, n + 1) \in Nat
      BY <3>1, AtType, Zenon
    <3> QED BY <3>2, <3>3
  <2>3. CASE n + 1 < k
    BY <2>3
  <2>4. CASE n + 1 = k
    <3>1. \A i \in 1 .. n : At(s, i) = At(t, i)
      BY <1>2, <2>4
    <3>2. Partial(s)[n] = Partial(t)[n]
      BY <1>1, <3>1, PartialCongruence
    <3>3. At(t, n + 1) = x /\ At(s, n + 1) = s[k]
      BY <1>3, <2>4
    <3> QED BY <1>1, <2>1, <2>2, <3>2, <3>3
  <2>5. CASE n + 1 > k
    <3>1. At(t, n + 1) = At(s, n + 1)
      BY <1>2, <2>5
    <3>2. Partial(t)[n] = (Partial(s)[n] - s[k]) + x
      BY <1>5, <2>5
    <3>3. Partial(t)[n + 1] = (Partial(s)[n + 1] - s[k]) + x
      <4>1. \A a, b, c, d, e \in Int : c = (a - d) + e => c + b = ((a + b) - d) + e
        OBVIOUS
      <4> QED BY <1>1, <2>1, <2>2, <3>1, <3>2, <4>1
    <3> QED BY <3>3
  <2> QED BY <2>3, <2>4, <2>5
<1> HIDE DEF T
<1>6. \A n \in Nat : n \in T
  BY <1>4, <1>5, SetInduction
<1>7. Partial(t)[Len(s)] = (Partial(s)[Len(s)] - s[k]) + x
  BY <1>1, <1>6 DEF T
<1> QED BY <1>1, <1>7 DEF Total, t
-----------------------------------------------------------------------------
(* Folds over sequences. *)

\* A set that contains the empty sequence and is closed under Append contains
\* every sequence.
LEMMA SequenceInduction ==
  ASSUME NEW T, NEW I, <<>> \in I,
         \A s \in Seq(T), e \in T : s \in I => Append(s, e) \in I
  PROVE  \A s \in Seq(T) : s \in I
<1> DEFINE N == {n \in Nat : \A s \in Seq(T) : Len(s) = n => s \in I}
<1>1. 0 \in N
  OBVIOUS
<1>2. ASSUME NEW n \in Nat, n \in N PROVE n + 1 \in N
  <2>1. ASSUME NEW s \in Seq(T), Len(s) = n + 1 PROVE s \in I
    <3>1. PICK t \in Seq(T), e \in T : s = Append(t, e)
      <4>1. s # <<>>
        BY <2>1
      <4> QED BY <4>1, SequenceEmptyOrAppend
    <3>2. Len(t) = n
      BY <2>1, <3>1
    <3> QED BY <1>2, <3>1, <3>2
  <2> QED BY <2>1
<1> HIDE DEF N
<1>3. \A n \in Nat : n \in N
  BY <1>1, <1>2, SetInduction
<1> QED BY <1>3, LenProperties DEF N

\* F is a step function of a fold with results in S over sequences of members of T.
Steps(F, S, T) == F \in [S \X T -> S]

\* r takes the steps of the fold of s by F from x.
IsFoldRun(r, S, F, x, s) ==
  /\ r \in [0 .. Len(s) -> S]
  /\ r[0] = x
  /\ \A n \in 1 .. Len(s) : r[n] = F[<<r[n - 1], s[n]>>]

LEMMA FoldRunExists ==
  ASSUME NEW S, NEW T, NEW F, Steps(F, S, T), NEW x \in S, NEW s \in Seq(T)
  PROVE  \E r : IsFoldRun(r, S, F, x, s)
<1> DEFINE G == [z \in Nat \X S |-> IF z[1] + 1 \in 1 .. Len(s) THEN F[<<z[2], s[z[1] + 1]>>]
                                    ELSE z[2]]
<1>1. G \in [Nat \X S -> S]
  <2>1. ASSUME NEW z \in Nat \X S
        PROVE  (IF z[1] + 1 \in 1 .. Len(s) THEN F[<<z[2], s[z[1] + 1]>>] ELSE z[2]) \in S
    <3>1. CASE z[1] + 1 \in 1 .. Len(s)
      <4>1. s[z[1] + 1] \in T
        BY <3>1
      <4>2. F[<<z[2], s[z[1] + 1]>>] \in S
        BY <4>1 DEF Steps
      <4> QED BY <3>1, <4>2
    <3>2. CASE z[1] + 1 \notin 1 .. Len(s)
      BY <3>2
    <3> QED BY <3>1, <3>2
  <2> QED BY <2>1
<1>2. PICK f : IsRun(f, S, G, x)
  <2> HIDE DEF G
  <2> QED BY <1>1, RecursionExists
<1> DEFINE r == [n \in 0 .. Len(s) |-> f[n]]
<1>3. f \in [Nat -> S] /\ f[0] = x /\ \A n \in Nat : f[n + 1] = G[<<n, f[n]>>]
  BY <1>2 DEF IsRun
<1>4. Len(s) \in Nat
  OBVIOUS
<1>5. ASSUME NEW n \in 1 .. Len(s) PROVE f[n] = F[<<f[n - 1], s[n]>>]
  <2>1. n - 1 \in Nat /\ (n - 1) + 1 = n
    BY <1>4
  <2>2. f[n] = G[<<n - 1, f[n - 1]>>]
    <3>1. f[(n - 1) + 1] = G[<<n - 1, f[n - 1]>>]
      BY <1>3, <2>1, Zenon
    <3> QED BY <2>1, <3>1, Zenon
  <2>3. f[n - 1] \in S
    BY <1>3, <2>1
  <2>4. G[<<n - 1, f[n - 1]>>] = F[<<f[n - 1], s[n]>>]
    BY <2>1, <2>3
  <2> QED BY <2>2, <2>4
<1> HIDE DEF G
<1>6. r \in [0 .. Len(s) -> S] /\ r[0] = x
  BY <1>3, <1>4
<1>7. ASSUME NEW n \in 1 .. Len(s) PROVE r[n] = F[<<r[n - 1], s[n]>>]
  <2>1. r[n] = f[n] /\ r[n - 1] = f[n - 1]
    BY <1>4
  <2> QED BY <1>5, <2>1
<1> HIDE DEF r
<1> QED BY <1>6, <1>7 DEF IsFoldRun

\* The run of a fold satisfies its recursion.
LEMMA FoldRecursion ==
  ASSUME NEW S, NEW T, NEW F, Steps(F, S, T), NEW x \in S, NEW s \in Seq(T)
  PROVE  IsFoldRun(FoldRun(F, x, s), S, F, x, s)
<1> DEFINE r == FoldRun(F, x, s)
           Fits(g) == g = [n \in 0 .. Len(s) |-> IF n = 0 THEN x ELSE F[<<g[n - 1], s[n]>>]]
<1>1. PICK f : IsFoldRun(f, S, F, x, s)
  BY FoldRunExists
<1>2. Len(s) \in Nat
  OBVIOUS
<1>3. Fits(f)
  <2>1. ASSUME NEW n \in 0 .. Len(s)
        PROVE  f[n] = IF n = 0 THEN x ELSE F[<<f[n - 1], s[n]>>]
    BY <1>1, <1>2 DEF IsFoldRun
  <2>2. f = [n \in 0 .. Len(s) |-> f[n]]
    BY <1>1 DEF IsFoldRun
  <2> QED BY <2>1, <2>2
<1>4. Fits(r)
  <2>1. r = CHOOSE g : Fits(g)
    BY DEF FoldRun
  <2> HIDE DEF Fits, r
  <2> QED BY <1>3, <2>1
<1> HIDE DEF r
<1>5. \A n \in 0 .. Len(s) : r[n] = IF n = 0 THEN x ELSE F[<<r[n - 1], s[n]>>]
  BY <1>4
<1> DEFINE N == {n \in Nat : n <= Len(s) => r[n] = f[n]}
<1>6. 0 \in N
  <2>1. r[0] = x
    <3>1. 0 \in 0 .. Len(s)
      BY <1>2
    <3> QED BY <1>5, <3>1, Zenon
  <2>2. f[0] = x
    BY <1>1 DEF IsFoldRun
  <2> QED BY <2>1, <2>2
<1>7. ASSUME NEW n \in Nat, n \in N PROVE n + 1 \in N
  <2>1. SUFFICES ASSUME n + 1 <= Len(s) PROVE r[n + 1] = f[n + 1]
    OBVIOUS
  <2>2. n + 1 \in 1 .. Len(s) /\ n + 1 \in 0 .. Len(s) /\ n + 1 # 0 /\ (n + 1) - 1 = n
    BY <1>2, <2>1
  <2>3. r[n + 1] = F[<<r[n], s[n + 1]>>]
    BY <1>5, <2>2
  <2>4. f[n + 1] = F[<<f[n], s[n + 1]>>]
    BY <1>1, <2>2 DEF IsFoldRun
  <2>5. r[n] = f[n]
    BY <1>2, <1>7, <2>1
  <2> QED BY <2>3, <2>4, <2>5
<1> HIDE DEF N
<1>8. \A n \in Nat : n \in N
  BY <1>6, <1>7, SetInduction
<1>9. \A n \in 0 .. Len(s) : r[n] = f[n]
  BY <1>2, <1>8 DEF N
<1>10. r = f
  <2>1. f = [n \in 0 .. Len(s) |-> f[n]]
    BY <1>1 DEF IsFoldRun
  <2>2. r = [n \in 0 .. Len(s) |-> r[n]]
    BY <1>4
  <2> QED BY <1>9, <2>1, <2>2
<1> QED BY <1>1, <1>10 DEF r

\* What holds at the start and is kept by every step holds along the run and
\* at the end.
LEMMA FoldInvariant ==
  ASSUME NEW S, NEW T, NEW F, Steps(F, S, T), NEW x \in S, NEW s \in Seq(T),
         NEW I, <<0, x>> \in I,
         \A n \in 1 .. Len(s) : \A a \in S :
           <<n - 1, a>> \in I => <<n, F[<<a, s[n]>>]>> \in I
  PROVE  <<Len(s), Fold(F, x, s)>> \in I /\ Fold(F, x, s) \in S
<1> DEFINE r == FoldRun(F, x, s)
           N == {n \in Nat : n <= Len(s) => <<n, r[n]>> \in I}
<1>1. IsFoldRun(r, S, F, x, s)
  BY FoldRecursion
<1>2. Len(s) \in Nat /\ Fold(F, x, s) = r[Len(s)]
  BY DEF Fold
<1> HIDE DEF r
<1>3. 0 \in N
  BY <1>1 DEF IsFoldRun
<1>4. ASSUME NEW n \in Nat, n \in N PROVE n + 1 \in N
  <2>1. SUFFICES ASSUME n + 1 <= Len(s) PROVE <<n + 1, r[n + 1]>> \in I
    OBVIOUS
  <2>2. n + 1 \in 1 .. Len(s) /\ (n + 1) - 1 = n /\ n \in 0 .. Len(s)
    BY <1>2, <2>1
  <2>3. r[n + 1] = F[<<r[n], s[n + 1]>>] /\ r[n] \in S
    BY <1>1, <2>2 DEF IsFoldRun
  <2>4. <<n, r[n]>> \in I
    BY <1>2, <1>4, <2>1
  <2>5. \A a \in S : <<n, a>> \in I => <<n + 1, F[<<a, s[n + 1]>>]>> \in I
    <3>1. \A a \in S : <<(n + 1) - 1, a>> \in I => <<n + 1, F[<<a, s[n + 1]>>]>> \in I
      BY <2>2
    <3> QED BY <2>2, <3>1
  <2> QED BY <2>3, <2>4, <2>5
<1> HIDE DEF N
<1>5. \A n \in Nat : n \in N
  BY <1>3, <1>4, SetInduction
<1>6. <<Len(s), r[Len(s)]>> \in I
  BY <1>2, <1>5 DEF N
<1>7. r[Len(s)] \in S
  BY <1>1, <1>2 DEF IsFoldRun
<1> QED BY <1>2, <1>6, <1>7

LEMMA FoldType ==
  ASSUME NEW S, NEW T, NEW F, Steps(F, S, T), NEW x \in S, NEW s \in Seq(T)
  PROVE  Fold(F, x, s) \in S
<1> DEFINE I == Nat \X S
<1>1. <<0, x>> \in I /\ Len(s) \in Nat
  OBVIOUS
<1>2. \A n \in 1 .. Len(s) : \A a \in S : <<n, F[<<a, s[n]>>]>> \in I
  BY DEF Steps
<1> HIDE DEF I
<1> QED BY <1>1, <1>2, FoldInvariant

\* F and G take the same steps from A with the members of s.
Alike(F, G, A, s) ==
  \A n \in 1 .. Len(s) : \A a \in A : F[<<a, s[n]>>] = G[<<a, s[n]>>]

\* The same steps make the same fold.
LEMMA FoldAgrees ==
  ASSUME NEW S, NEW T, NEW F, Steps(F, S, T), NEW x \in S, NEW s \in Seq(T),
         NEW S2, NEW T2, NEW G, Steps(G, S2, T2), x \in S2, s \in Seq(T2),
         Alike(F, G, S \intersect S2, s)
  PROVE  Fold(F, x, s) = Fold(G, x, s)
<1> DEFINE p == FoldRun(F, x, s)
           q == FoldRun(G, x, s)
           N == {n \in Nat : n <= Len(s) => p[n] = q[n]}
<1>1. IsFoldRun(p, S, F, x, s) /\ IsFoldRun(q, S2, G, x, s)
  BY FoldRecursion
<1>2. Len(s) \in Nat /\ Fold(F, x, s) = p[Len(s)] /\ Fold(G, x, s) = q[Len(s)]
  BY DEF Fold
<1> HIDE DEF p, q
<1>3. 0 \in N
  BY <1>1 DEF IsFoldRun
<1>4. ASSUME NEW n \in Nat, n \in N PROVE n + 1 \in N
  <2>1. SUFFICES ASSUME n + 1 <= Len(s) PROVE p[n + 1] = q[n + 1]
    OBVIOUS
  <2>2. n + 1 \in 1 .. Len(s) /\ (n + 1) - 1 = n /\ n \in 0 .. Len(s)
    BY <1>2, <2>1
  <2>3. p[n + 1] = F[<<p[n], s[n + 1]>>] /\ p[n] \in S
    BY <1>1, <2>2 DEF IsFoldRun
  <2>4. q[n + 1] = G[<<q[n], s[n + 1]>>] /\ q[n] \in S2
    BY <1>1, <2>2 DEF IsFoldRun
  <2>5. p[n] = q[n]
    BY <1>2, <1>4, <2>1
  <2>6. F[<<p[n], s[n + 1]>>] = G[<<p[n], s[n + 1]>>]
    BY <2>2, <2>3, <2>4, <2>5 DEF Alike
  <2> QED BY <2>3, <2>4, <2>5, <2>6
<1> HIDE DEF N
<1>5. \A n \in Nat : n \in N
  BY <1>3, <1>4, SetInduction
<1>6. p[Len(s)] = q[Len(s)]
  BY <1>2, <1>5 DEF N
<1> QED BY <1>2, <1>6

LEMMA FoldEmpty ==
  ASSUME NEW S, NEW T, NEW F, Steps(F, S, T), NEW x \in S
  PROVE  Fold(F, x, <<>>) = x
<1>1. <<>> \in Seq(T) /\ Len(<<>>) = 0
  OBVIOUS
<1>2. IsFoldRun(FoldRun(F, x, <<>>), S, F, x, <<>>)
  BY <1>1, FoldRecursion
<1> QED BY <1>1, <1>2 DEF Fold, IsFoldRun

\* The last member is folded last.
LEMMA FoldAppend ==
  ASSUME NEW S, NEW T, NEW F, Steps(F, S, T), NEW x \in S, NEW s \in Seq(T), NEW e \in T
  PROVE  Fold(F, x, Append(s, e)) = F[<<Fold(F, x, s), e>>]
<1> DEFINE t == Append(s, e)
           p == FoldRun(F, x, s)
           q == FoldRun(F, x, t)
           N == {n \in Nat : n <= Len(s) => p[n] = q[n]}
<1>1. /\ t \in Seq(T) /\ Len(s) \in Nat /\ Len(t) = Len(s) + 1
      /\ t[Len(s) + 1] = e /\ \A n \in 1 .. Len(s) : t[n] = s[n]
  OBVIOUS
<1>2. IsFoldRun(p, S, F, x, s) /\ IsFoldRun(q, S, F, x, t)
  BY <1>1, FoldRecursion
<1>3. Fold(F, x, s) = p[Len(s)] /\ Fold(F, x, Append(s, e)) = q[Len(s) + 1]
  BY <1>1 DEF Fold
<1> HIDE DEF p, q, t
<1>4. 0 \in N
  BY <1>2 DEF IsFoldRun
<1>5. ASSUME NEW n \in Nat, n \in N PROVE n + 1 \in N
  <2>1. SUFFICES ASSUME n + 1 <= Len(s) PROVE p[n + 1] = q[n + 1]
    OBVIOUS
  <2>2. n + 1 \in 1 .. Len(s) /\ n + 1 \in 1 .. Len(t) /\ (n + 1) - 1 = n
    BY <1>1, <2>1
  <2>3. p[n + 1] = F[<<p[n], s[n + 1]>>]
    BY <1>2, <2>2 DEF IsFoldRun
  <2>4. q[n + 1] = F[<<q[n], t[n + 1]>>]
    BY <1>2, <2>2 DEF IsFoldRun
  <2>5. p[n] = q[n] /\ t[n + 1] = s[n + 1]
    BY <1>1, <1>5, <2>1, <2>2
  <2> QED BY <2>3, <2>4, <2>5
<1> HIDE DEF N
<1>6. \A n \in Nat : n \in N
  BY <1>4, <1>5, SetInduction
<1>7. p[Len(s)] = q[Len(s)]
  BY <1>1, <1>6 DEF N
<1>8. Len(s) + 1 \in 1 .. Len(t) /\ (Len(s) + 1) - 1 = Len(s)
  BY <1>1
<1>9. q[Len(s) + 1] = F[<<q[Len(s)], t[Len(s) + 1]>>]
  BY <1>2, <1>8 DEF IsFoldRun
<1> QED BY <1>1, <1>3, <1>7, <1>9

-----------------------------------------------------------------------------
(* Selected. *)

LEMMA RangeFacts ==
  ASSUME NEW U, NEW s \in Seq(U)
  PROVE  /\ Range(s) \subseteq U
         /\ s \in Seq(Range(s))
         /\ \A e \in U : Range(Append(s, e)) = Range(s) \union {e}
<1>1. Range(s) \subseteq U /\ s \in Seq(Range(s))
  BY RangeOfSeq, SeqOfRange
<1>2. ASSUME NEW e \in U PROVE Range(Append(s, e)) = Range(s) \union {e}
  <2> DEFINE t == Append(s, e)
  <2>1. /\ DOMAIN t = 1 .. Len(s) + 1 /\ t[Len(s) + 1] = e
        /\ \A n \in 1 .. Len(s) : t[n] = s[n]
    OBVIOUS
  <2>2. DOMAIN s = 1 .. Len(s) /\ Len(s) \in Nat
    OBVIOUS
  <2> HIDE DEF t
  <2>3. Range(t) \subseteq Range(s) \union {e}
    <3>1. ASSUME NEW n \in 1 .. Len(s) + 1 PROVE t[n] \in Range(s) \union {e}
      <4>1. CASE n = Len(s) + 1
        BY <2>1, <4>1
      <4>2. CASE n # Len(s) + 1
        <5>1. n \in 1 .. Len(s)
          BY <2>2, <4>2
        <5> QED BY <2>1, <2>2, <5>1 DEF Range
      <4> QED BY <4>1, <4>2
    <3> QED BY <2>1, <3>1 DEF Range
  <2>4. Range(s) \union {e} \subseteq Range(t)
    <3>1. ASSUME NEW n \in 1 .. Len(s) PROVE s[n] \in Range(t)
      <4>1. n \in DOMAIN t /\ t[n] = s[n]
        BY <2>1, <2>2
      <4> QED BY <4>1 DEF Range
    <3>2. e \in Range(t)
      <4>1. Len(s) + 1 \in DOMAIN t
        BY <2>1, <2>2
      <4> QED BY <2>1, <4>1 DEF Range
    <3> QED BY <2>2, <3>1, <3>2 DEF Range
  <2> QED BY <2>3, <2>4 DEF t
<1> QED BY <1>1, <1>2

LEMMA KeepSteps ==
  ASSUME NEW U, NEW T
  PROVE  /\ Steps(Keep(U, T), Seq(U), U)
         /\ \A a \in Seq(U), e \in U :
              Keep(U, T)[<<a, e>>] = IF e \in T THEN Append(a, e) ELSE a
<1>1. ASSUME NEW z \in Seq(U) \X U
      PROVE  (IF z[2] \in T THEN Append(z[1], z[2]) ELSE z[1]) \in Seq(U)
  OBVIOUS
<1>2. Keep(U, T) \in [Seq(U) \X U -> Seq(U)]
  BY <1>1 DEF Keep
<1>3. ASSUME NEW a \in Seq(U), NEW e \in U
      PROVE  Keep(U, T)[<<a, e>>] = IF e \in T THEN Append(a, e) ELSE a
  BY DEF Keep
<1> QED BY <1>2, <1>3 DEF Steps

\* Any set of which s is a sequence serves for the fold.
LEMMA SelectedIn ==
  ASSUME NEW U, NEW T, NEW s \in Seq(U)
  PROVE  /\ Selected(s, T) = Fold(Keep(U, T), <<>>, s)
         /\ Selected(s, T) \in Seq(U)
<1> DEFINE V == Range(s)
           F == Keep(V, T)
           G == Keep(U, T)
<1>1. s \in Seq(V) /\ V \subseteq U
  BY RangeFacts
<1>2. Steps(F, Seq(V), V) /\ Steps(G, Seq(U), U)
  BY KeepSteps
<1>3. \A n \in 1 .. Len(s) : \A a \in Seq(V) \intersect Seq(U) : F[<<a, s[n]>>] = G[<<a, s[n]>>]
  <2>1. \A n \in 1 .. Len(s) : s[n] \in V /\ s[n] \in U
    BY <1>1
  <2> QED BY <2>1, KeepSteps
<1>4. <<>> \in Seq(V) /\ <<>> \in Seq(U)
  OBVIOUS
<1>5. Fold(G, <<>>, s) \in Seq(U)
  <2> HIDE DEF F, G, V
  <2> QED BY <1>2, <1>4, FoldType
<1>6. Fold(F, <<>>, s) = Fold(G, <<>>, s)
  <2> DEFINE SV == Seq(V)
             SU == Seq(U)
             nil == <<>>
  <2>1. /\ Steps(F, SV, V) /\ Steps(G, SU, U) /\ nil \in SV /\ nil \in SU
        /\ Alike(F, G, SV \intersect SU, s)
    BY <1>2, <1>3, <1>4 DEF Alike
  <2> HIDE DEF F, G, V, SV, SU, nil
  <2>2. Fold(F, nil, s) = Fold(G, nil, s)
    BY <1>1, <2>1, FoldAgrees, SMT
  <2> QED BY <2>2 DEF nil
<1> QED BY <1>5, <1>6 DEF Selected

LEMMA SelectedEmpty ==
  ASSUME NEW T
  PROVE  Selected(<<>>, T) = <<>>
<1>1. <<>> \in Seq({}) /\ Steps(Keep({}, T), Seq({}), {})
  BY KeepSteps
<1>2. Fold(Keep({}, T), <<>>, <<>>) = <<>>
  BY <1>1, FoldEmpty
<1> QED BY <1>1, <1>2, SelectedIn

LEMMA SelectedAppend ==
  ASSUME NEW U, NEW T, NEW s \in Seq(U), NEW e \in U
  PROVE  Selected(Append(s, e), T) = IF e \in T THEN Append(Selected(s, T), e) ELSE Selected(s, T)
<1> DEFINE G == Keep(U, T)
<1>1. Steps(G, Seq(U), U) /\ <<>> \in Seq(U) /\ Append(s, e) \in Seq(U)
  BY KeepSteps
<1>2. /\ Selected(s, T) = Fold(G, <<>>, s) /\ Selected(s, T) \in Seq(U)
      /\ Selected(Append(s, e), T) = Fold(G, <<>>, Append(s, e))
  BY <1>1, SelectedIn
<1>3. Fold(G, <<>>, Append(s, e)) = G[<<Fold(G, <<>>, s), e>>]
  <2> HIDE DEF G
  <2>1. ASSUME NEW x \in Seq(U) PROVE Fold(G, x, Append(s, e)) = G[<<Fold(G, x, s), e>>]
    BY <1>1, FoldAppend
  <2> QED BY <1>1, <2>1, Zenon
<1>4. G[<<Selected(s, T), e>>] = IF e \in T THEN Append(Selected(s, T), e) ELSE Selected(s, T)
  BY <1>2, KeepSteps
<1> HIDE DEF G
<1> QED BY <1>2, <1>3, <1>4

LEMMA SelectedConcat ==
  ASSUME NEW U, NEW T, NEW s \in Seq(U), NEW t \in Seq(U)
  PROVE  Selected(s \o t, T) = Selected(s, T) \o Selected(t, T)
<1> DEFINE I == {u \in Seq(U) : Selected(s \o u, T) = Selected(s, T) \o Selected(u, T)}
<1>1. <<>> \in I
  <2>1. s \o <<>> = s /\ <<>> \in Seq(U)
    BY ConcatEmptySeq
  <2>2. Selected(s, T) \in Seq(U) /\ Selected(<<>>, T) = <<>>
    BY SelectedIn, SelectedEmpty
  <2>3. Selected(s, T) \o <<>> = Selected(s, T)
    BY <2>2, ConcatEmptySeq
  <2> QED BY <2>1, <2>2, <2>3
<1>2. ASSUME NEW u \in Seq(U), NEW e \in U, Selected(s \o u, T) = Selected(s, T) \o Selected(u, T)
      PROVE  Selected(s \o Append(u, e), T) = Selected(s, T) \o Selected(Append(u, e), T)
  <2>1. s \o Append(u, e) = Append(s \o u, e) /\ s \o u \in Seq(U)
    OBVIOUS
  <2>2. /\ Selected(Append(s \o u, e), T) =
             IF e \in T THEN Append(Selected(s \o u, T), e) ELSE Selected(s \o u, T)
        /\ Selected(Append(u, e), T) =
             IF e \in T THEN Append(Selected(u, T), e) ELSE Selected(u, T)
    <3>1. ASSUME NEW w \in Seq(U)
          PROVE  Selected(Append(w, e), T) =
                   IF e \in T THEN Append(Selected(w, T), e) ELSE Selected(w, T)
      BY SelectedAppend
    <3> QED BY <2>1, <3>1, Zenon
  <2>3. Selected(s, T) \in Seq(U) /\ Selected(u, T) \in Seq(U)
    BY SelectedIn
  <2>4. Selected(s, T) \o Append(Selected(u, T), e) = Append(Selected(s, T) \o Selected(u, T), e)
    BY <2>3
  <2> QED BY <1>2, <2>1, <2>2, <2>4, Zenon
<1>3. \A u \in Seq(U), e \in U : u \in I => Append(u, e) \in I
  <2>1. \A u \in Seq(U), e \in U : Append(u, e) \in Seq(U)
    OBVIOUS
  <2> QED BY <1>2, <2>1
<1> HIDE DEF I
<1>4. t \in I
  BY <1>1, <1>3, SequenceInduction
<1> QED BY <1>4 DEF I

\* The first member and the rest.
LEMMA SelectedHead ==
  ASSUME NEW U, NEW T, NEW s \in Seq(U), s # <<>>
  PROVE  Selected(s, T) = IF Head(s) \in T THEN <<Head(s)>> \o Selected(Tail(s), T)
                          ELSE Selected(Tail(s), T)
<1>1. /\ Head(s) \in U /\ Tail(s) \in Seq(U) /\ s = <<Head(s)>> \o Tail(s)
      /\ <<Head(s)>> \in Seq(U) /\ <<>> \in Seq(U) /\ <<Head(s)>> = Append(<<>>, Head(s))
  OBVIOUS
<1>2. Selected(s, T) = Selected(<<Head(s)>>, T) \o Selected(Tail(s), T)
  BY <1>1, SelectedConcat
<1>3. Selected(<<Head(s)>>, T) = IF Head(s) \in T THEN <<Head(s)>> ELSE <<>>
  <2>1. ASSUME NEW w \in Seq(U), NEW e \in U
        PROVE  Selected(Append(w, e), T) =
                 IF e \in T THEN Append(Selected(w, T), e) ELSE Selected(w, T)
    BY SelectedAppend
  <2>2. Selected(Append(<<>>, Head(s)), T) =
          IF Head(s) \in T THEN Append(Selected(<<>>, T), Head(s)) ELSE Selected(<<>>, T)
    BY <1>1, <2>1, Zenon
  <2> QED BY <1>1, <2>2, SelectedEmpty
<1>4. Selected(Tail(s), T) \in Seq(U)
  BY <1>1, SelectedIn
<1>5. <<>> \o Selected(Tail(s), T) = Selected(Tail(s), T)
  BY <1>4, ConcatEmptySeq
<1> QED BY <1>2, <1>3, <1>5

-----------------------------------------------------------------------------
(* Joined. *)

LEMMA AddSteps ==
  ASSUME NEW U
  PROVE  /\ Steps(Add(U), Seq(U), U)
         /\ \A a \in Seq(U), e \in U :
              Add(U)[<<a, e>>] = IF e \in Range(a) THEN a ELSE Append(a, e)
<1>1. ASSUME NEW z \in Seq(U) \X U
      PROVE  (IF z[2] \in Range(z[1]) THEN z[1] ELSE Append(z[1], z[2])) \in Seq(U)
  OBVIOUS
<1>2. Add(U) \in [Seq(U) \X U -> Seq(U)]
  BY <1>1 DEF Add
<1>3. ASSUME NEW a \in Seq(U), NEW e \in U
      PROVE  Add(U)[<<a, e>>] = IF e \in Range(a) THEN a ELSE Append(a, e)
  BY DEF Add
<1> QED BY <1>2, <1>3 DEF Steps

LEMMA JoinedIn ==
  ASSUME NEW U, NEW a \in Seq(U), NEW s \in Seq(U)
  PROVE  /\ Joined(a, s) = Fold(Add(U), a, s)
         /\ Joined(a, s) \in Seq(U)
<1> DEFINE V == Range(a) \union Range(s)
           F == Add(V)
           G == Add(U)
<1>1. a \in Seq(V) /\ s \in Seq(V) /\ V \subseteq U
  <2>1. a \in Seq(Range(a)) /\ s \in Seq(Range(s)) /\ V \subseteq U
    BY RangeFacts
  <2>2. Range(a) \subseteq V /\ Range(s) \subseteq V
    OBVIOUS
  <2> QED BY <2>1, <2>2, SeqMonotonic
<1>2. Steps(F, Seq(V), V) /\ Steps(G, Seq(U), U)
  BY AddSteps
<1>3. \A n \in 1 .. Len(s) : \A b \in Seq(V) \intersect Seq(U) : F[<<b, s[n]>>] = G[<<b, s[n]>>]
  <2>1. \A n \in 1 .. Len(s) : s[n] \in V /\ s[n] \in U
    <3> HIDE DEF V
    <3> QED BY <1>1
  <2> QED BY <2>1, AddSteps
<1>4. Fold(G, a, s) \in Seq(U)
  <2> HIDE DEF F, G, V
  <2> QED BY <1>2, FoldType
<1>5. Fold(F, a, s) = Fold(G, a, s)
  <2> DEFINE SV == Seq(V)
             SU == Seq(U)
  <2>1. /\ Steps(F, SV, V) /\ Steps(G, SU, U) /\ a \in SV /\ a \in SU
        /\ Alike(F, G, SV \intersect SU, s)
    BY <1>1, <1>2, <1>3 DEF Alike
  <2> HIDE DEF F, G, V, SV, SU
  <2> QED BY <1>1, <2>1, FoldAgrees, SMT
<1> QED BY <1>4, <1>5 DEF Joined

LEMMA JoinedEmpty ==
  ASSUME NEW U, NEW a \in Seq(U)
  PROVE  Joined(a, <<>>) = a
<1>1. <<>> \in Seq(U) /\ Steps(Add(U), Seq(U), U)
  BY AddSteps
<1>2. Fold(Add(U), a, <<>>) = a
  BY <1>1, FoldEmpty
<1> QED BY <1>1, <1>2, JoinedIn

LEMMA JoinedAppend ==
  ASSUME NEW U, NEW a \in Seq(U), NEW s \in Seq(U), NEW e \in U
  PROVE  Joined(a, Append(s, e)) =
           IF e \in Range(Joined(a, s)) THEN Joined(a, s) ELSE Append(Joined(a, s), e)
<1> DEFINE G == Add(U)
<1>1. Steps(G, Seq(U), U) /\ Append(s, e) \in Seq(U)
  BY AddSteps
<1>2. /\ Joined(a, s) = Fold(G, a, s) /\ Joined(a, s) \in Seq(U)
      /\ Joined(a, Append(s, e)) = Fold(G, a, Append(s, e))
  BY <1>1, JoinedIn
<1>3. Fold(G, a, Append(s, e)) = G[<<Fold(G, a, s), e>>]
  <2> HIDE DEF G
  <2> QED BY <1>1, FoldAppend
<1>4. G[<<Joined(a, s), e>>] =
        IF e \in Range(Joined(a, s)) THEN Joined(a, s) ELSE Append(Joined(a, s), e)
  BY <1>2, AddSteps
<1> HIDE DEF G
<1> QED BY <1>2, <1>3, <1>4

\* Joining adds what is new and keeps what is there.
LEMMA JoinedFacts ==
  ASSUME NEW U, NEW a \in Seq(U), NEW s \in Seq(U)
  PROVE  /\ Range(Joined(a, s)) = Range(a) \union Range(s)
         /\ Len(Joined(a, s)) >= Len(a)
         /\ Range(s) \subseteq Range(a) => Joined(a, s) = a
<1> DEFINE Good(u) == /\ Range(Joined(a, u)) = Range(a) \union Range(u)
                      /\ Len(Joined(a, u)) >= Len(a)
                      /\ Range(u) \subseteq Range(a) => Joined(a, u) = a
           I == {u \in Seq(U) : Good(u)}
<1>1. <<>> \in I
  <2>1. Joined(a, <<>>) = a /\ <<>> \in Seq(U)
    BY JoinedEmpty
  <2>2. Range(<<>>) = {}
    BY DEF Range
  <2>3. Len(a) \in Nat
    OBVIOUS
  <2> QED BY <2>1, <2>2, <2>3
<1>2. ASSUME NEW u \in Seq(U), NEW e \in U, Good(u) PROVE Good(Append(u, e))
  <2> DEFINE j == Joined(a, u)
             k == Joined(a, Append(u, e))
  <2>1. j \in Seq(U)
    BY JoinedIn
  <2>2. k = IF e \in Range(j) THEN j ELSE Append(j, e)
    BY JoinedAppend
  <2>3. Range(Append(u, e)) = Range(u) \union {e}
    BY RangeFacts
  <2>4. Range(j) = Range(a) \union Range(u) /\ Len(j) >= Len(a)
        /\ (Range(u) \subseteq Range(a) => j = a)
    BY <1>2
  <2>5. Len(a) \in Nat /\ Len(j) \in Nat
    BY <2>1
  <2> HIDE DEF j, k
  <2>6. CASE e \in Range(j)
    <3>1. Range(k) = Range(a) \union Range(Append(u, e))
      BY <2>2, <2>3, <2>4, <2>6
    <3>2. Len(k) >= Len(a)
      BY <2>2, <2>4, <2>6
    <3>3. Range(Append(u, e)) \subseteq Range(a) => k = a
      BY <2>2, <2>3, <2>4, <2>6
    <3> QED BY <3>1, <3>2, <3>3 DEF k
  <2>7. CASE e \notin Range(j)
    <3>1. k = Append(j, e) /\ Range(k) = Range(j) \union {e} /\ Len(k) = Len(j) + 1
      BY <2>1, <2>2, <2>7, RangeFacts
    <3>2. Range(k) = Range(a) \union Range(Append(u, e))
      BY <2>3, <2>4, <3>1
    <3>3. Len(k) >= Len(a)
      BY <2>4, <2>5, <3>1
    <3>4. ~(Range(Append(u, e)) \subseteq Range(a))
      BY <2>3, <2>4, <2>7
    <3> QED BY <3>2, <3>3, <3>4 DEF k
  <2> QED BY <2>6, <2>7
<1>3. \A u \in Seq(U), e \in U : u \in I => Append(u, e) \in I
  <2>1. \A u \in Seq(U), e \in U : Append(u, e) \in Seq(U)
    OBVIOUS
  <2> HIDE DEF Good
  <2> QED BY <1>2, <2>1
<1> HIDE DEF I
<1>4. s \in I
  BY <1>1, <1>3, SequenceInduction
<1> QED BY <1>4 DEF I

\* The first member that is not there yet may as well be added at once.
LEMMA JoinedAhead ==
  ASSUME NEW U, NEW a \in Seq(U), NEW s \in Seq(U), NEW k \in 1 .. Len(s),
         \A i \in 1 .. k - 1 : s[i] \in Range(a), s[k] \notin Range(a)
  PROVE  Joined(Append(a, s[k]), s) = Joined(a, s)
<1> DEFINE F == Add(U)
           b == Append(a, s[k])
           p == FoldRun(F, a, s)
           q == FoldRun(F, b, s)
<1>1. /\ s[k] \in U /\ b \in Seq(U) /\ Len(s) \in Nat
      /\ \A i \in 1 .. Len(s) : s[i] \in U
  OBVIOUS
<1>2. Range(b) = Range(a) \union {s[k]}
  BY <1>1, RangeFacts
<1>3. Steps(F, Seq(U), U)
  BY AddSteps
<1>4. Joined(a, s) = p[Len(s)] /\ Joined(b, s) = q[Len(s)]
  BY <1>1, JoinedIn DEF Fold
<1>5. IsFoldRun(p, Seq(U), F, a, s) /\ IsFoldRun(q, Seq(U), F, b, s)
  <2> HIDE DEF F, b
  <2> QED BY <1>1, <1>3, FoldRecursion
<1>6. /\ F[<<a, s[k]>>] = b
      /\ \A i \in 1 .. k - 1 : F[<<a, s[i]>>] = a /\ F[<<b, s[i]>>] = b
      /\ F[<<b, s[k]>>] = b
  <2>1. \A i \in 1 .. k : s[i] \in U /\ s[i] \in Range(b)
    BY <1>1, <1>2
  <2> HIDE DEF b
  <2>2. \A i \in 1 .. k : F[<<b, s[i]>>] = b
    BY <1>1, <2>1, AddSteps
  <2>3. \A i \in 1 .. k - 1 : F[<<a, s[i]>>] = a
    BY <1>1, AddSteps
  <2>4. F[<<a, s[k]>>] = b
    BY <1>1, AddSteps DEF b
  <2> QED BY <2>2, <2>3, <2>4
<1> HIDE DEF F, b, p, q
<1> DEFINE N == {n \in Nat : n <= Len(s) => /\ n < k => p[n] = a /\ q[n] = b
                                            /\ n >= k => p[n] = q[n]}
<1>7. 0 \in N
  BY <1>5 DEF IsFoldRun
<1>8. ASSUME NEW n \in Nat, n \in N PROVE n + 1 \in N
  <2>1. SUFFICES ASSUME n + 1 <= Len(s)
                 PROVE  /\ n + 1 < k => p[n + 1] = a /\ q[n + 1] = b
                        /\ n + 1 >= k => p[n + 1] = q[n + 1]
    OBVIOUS
  <2>2. n + 1 \in 1 .. Len(s) /\ (n + 1) - 1 = n
    BY <1>1, <2>1
  <2>3. p[n + 1] = F[<<p[n], s[n + 1]>>] /\ q[n + 1] = F[<<q[n], s[n + 1]>>]
    <3>1. \A m \in 1 .. Len(s) : p[m] = F[<<p[m - 1], s[m]>>] /\ q[m] = F[<<q[m - 1], s[m]>>]
      BY <1>5 DEF IsFoldRun
    <3> QED BY <2>2, <3>1
  <2>4. (n < k => p[n] = a /\ q[n] = b) /\ (n >= k => p[n] = q[n])
    BY <1>1, <1>8, <2>1
  <2>5. CASE n + 1 < k
    <3>1. n + 1 \in 1 .. k - 1 /\ n < k /\ ~(n + 1 >= k)
      BY <2>5
    <3>2. p[n + 1] = a /\ q[n + 1] = b
      BY <1>6, <2>3, <2>4, <3>1, Zenon
    <3> QED BY <3>1, <3>2, Zenon
  <2>6. CASE n + 1 = k
    <3>1. n < k /\ ~(n + 1 < k) /\ s[n + 1] = s[k]
      BY <2>6
    <3>2. p[n + 1] = b /\ q[n + 1] = b
      BY <1>6, <2>3, <2>4, <3>1, Zenon
    <3> QED BY <3>1, <3>2
  <2>7. CASE n >= k
    <3>1. ~(n + 1 < k)
      BY <2>7
    <3>2. p[n + 1] = q[n + 1]
      BY <2>3, <2>4, <2>7, Zenon
    <3> QED BY <3>1, <3>2, Zenon
  <2> QED BY <2>5, <2>6, <2>7
<1> HIDE DEF N
<1>9. \A n \in Nat : n \in N
  BY <1>7, <1>8, SetInduction
<1>10. p[Len(s)] = q[Len(s)]
  BY <1>1, <1>9 DEF N
<1> QED BY <1>4, <1>10 DEF b
-----------------------------------------------------------------------------
\* A set of natural numbers that is not empty has a least element.
LEMMA LeastExists ==
  ASSUME NEW S \in SUBSET Nat, S # {}
  PROVE  \E x \in S : \A y \in S : x <= y
<1> DEFINE R == OpToRel(<, Nat)
<1>1. \E x \in S : \A y \in S : ~(<<y, x>> \in R)
  <2>1. IsWellFoundedOn(R, Nat)
    BY NatLessThanWellFounded
  <2> HIDE DEF R
  <2> QED BY <2>1, WFMin
<1>2. \A x, y \in S : <<y, x>> \in R <=> y < x
  BY DEF OpToRel
<1> HIDE DEF R
<1>3. PICK x \in S : \A y \in S : ~(<<y, x>> \in R)
  BY <1>1
<1>4. \A y \in S : ~(y < x)
  BY <1>3, <1>2
<1> QED BY <1>4

=============================================================================
