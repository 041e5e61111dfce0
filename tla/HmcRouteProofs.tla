---------------------------- MODULE HmcRouteProofs ----------------------------
(***************************************************************************)
(* Proofs about the tables between the cubes: whatever is connected, and   *)
(* in whatever order, the search finds the shortest way by every           *)
(* neighbour, a packet that arrived still arrives, and a host stays where  *)
(* its responses go.                                                       *)
(***************************************************************************)
EXTENDS HmcRoute, HmcRecursionProofs, FiniteSetTheorems

LinkGraphs == [Cubes -> [Cubes -> SUBSET LinkIds]]

\* A connection can be taken from both of its ends.
Symmetric(graph) ==
  \A b, c \in Cubes : graph[b][c] # {} <=> graph[c][b] # {}

Within(graph1, graph2) ==
  \A b, c \in Cubes : graph1[b][c] \subseteq graph2[b][c]

-----------------------------------------------------------------------------
(* The cubes around a cube. *)

\* The ball around g grows by the neighbours of its members, other than a.
BallOf(ball, graph, a, g) ==
  /\ ball \in [Nat -> SUBSET Cubes]
  /\ ball[0] = {g}
  /\ \A n \in Nat : \A x \in Cubes :
       x \in ball[n + 1] <=>
         x \in ball[n] \/ (x # a /\ \E c \in ball[n] : x \in Neighbours(graph, c))

LEMMA AroundBall ==
  ASSUME NEW graph \in LinkGraphs, NEW a \in Cubes, NEW g \in Cubes
  PROVE  BallOf(Around(graph, a, g), graph, a, g)
<1> DEFINE F == Wider(graph, a)
           x == {g}
<1>1. F \in [SUBSET Cubes -> SUBSET Cubes]
  BY DEF Wider, Neighbours
<1>2. x \in SUBSET Cubes
  OBVIOUS
<1>3. \A S \in SUBSET Cubes : F[S] = S \union ((UNION {Neighbours(graph, c) : c \in S}) \ {a})
  BY DEF Wider
<1>4. Around(graph, a, g) = Iterated(F, x)
  BY DEF Around
<1> HIDE DEF F, x
<1>5. Iterates(Iterated(F, x), SUBSET Cubes, F, x)
  BY <1>1, <1>2, IteratedRecursion
<1> DEFINE r == Iterated(F, x)
<1>6. r \in [Nat -> SUBSET Cubes] /\ r[0] = x /\ \A n \in Nat : r[n + 1] = F[r[n]]
  BY <1>5 DEF Iterates
<1> HIDE DEF r
<1>7. ASSUME NEW n \in Nat, NEW y \in Cubes
      PROVE  y \in r[n + 1] <=>
               y \in r[n] \/ (y # a /\ \E c \in r[n] : y \in Neighbours(graph, c))
  <2>1. r[n + 1] = r[n] \union ((UNION {Neighbours(graph, c) : c \in r[n]}) \ {a})
    BY <1>3, <1>6
  <2> QED BY <2>1
<1>8. r[0] = {g}
  BY <1>6 DEF x
<1>9. BallOf(r, graph, a, g)
  BY <1>6, <1>7, <1>8 DEF BallOf
<1> QED BY <1>4, <1>9 DEF r

LEMMA AroundGrows ==
  ASSUME NEW graph \in LinkGraphs, NEW a \in Cubes, NEW g \in Cubes,
         NEW m \in Nat, NEW n \in Nat, m <= n
  PROVE  Around(graph, a, g)[m] \subseteq Around(graph, a, g)[n]
<1> DEFINE r == Around(graph, a, g)
           T == {k \in Nat : r[m] \subseteq r[m + k]}
<1>1. BallOf(r, graph, a, g)
  BY AroundBall
<1> HIDE DEF r
<1>2. 0 \in T
  OBVIOUS
<1>3. ASSUME NEW k \in Nat, k \in T PROVE k + 1 \in T
  <2>1. m + k \in Nat /\ m + (k + 1) = (m + k) + 1
    OBVIOUS
  <2>2. r[m + k] \subseteq r[(m + k) + 1]
    BY <1>1, <2>1 DEF BallOf
  <2> QED BY <1>3, <2>1, <2>2
<1> HIDE DEF T
<1>4. n - m \in T
  BY <1>2, <1>3, SetInduction
<1> QED BY <1>4 DEF T, r

\* The cube that is taken away is not around another one.
LEMMA AroundAvoids ==
  ASSUME NEW graph \in LinkGraphs, NEW a \in Cubes, NEW g \in Cubes \ {a}, NEW n \in Nat
  PROVE  a \notin Around(graph, a, g)[n]
<1> DEFINE r == Around(graph, a, g)
           T == {k \in Nat : a \notin r[k]}
<1>1. BallOf(r, graph, a, g)
  BY AroundBall
<1> HIDE DEF r
<1>2. 0 \in T
  BY <1>1 DEF BallOf
<1>3. ASSUME NEW k \in Nat, k \in T PROVE k + 1 \in T
  BY <1>1, <1>3 DEF BallOf
<1> HIDE DEF T
<1>4. n \in T
  BY <1>2, <1>3, SetInduction
<1> QED BY <1>4 DEF T, r

\* More connections reach no fewer cubes.
LEMMA AroundMonotone ==
  ASSUME NEW graph1 \in LinkGraphs, NEW graph2 \in LinkGraphs, Within(graph1, graph2),
         NEW a \in Cubes, NEW g \in Cubes, NEW n \in Nat
  PROVE  Around(graph1, a, g)[n] \subseteq Around(graph2, a, g)[n]
<1> DEFINE r == Around(graph1, a, g)
           s == Around(graph2, a, g)
           T == {k \in Nat : r[k] \subseteq s[k]}
<1>1. BallOf(r, graph1, a, g) /\ BallOf(s, graph2, a, g)
  BY AroundBall
<1>2. \A c \in Cubes : Neighbours(graph1, c) \subseteq Neighbours(graph2, c)
  BY DEF Neighbours, Within
<1> HIDE DEF r, s
<1>3. 0 \in T
  BY <1>1 DEF BallOf
<1>4. ASSUME NEW k \in Nat, k \in T PROVE k + 1 \in T
  <2>1. r[k] \in SUBSET Cubes /\ s[k] \in SUBSET Cubes
        /\ r[k + 1] \in SUBSET Cubes /\ s[k + 1] \in SUBSET Cubes
    BY <1>1 DEF BallOf
  <2>2. ASSUME NEW x \in Cubes, x \in r[k + 1] PROVE x \in s[k + 1]
    <3>1. CASE x \in r[k]
      BY <1>1, <1>4, <3>1 DEF BallOf
    <3>2. CASE x \notin r[k]
      <4>1. PICK c \in r[k] : x \in Neighbours(graph1, c)
        BY <1>1, <2>2, <3>2 DEF BallOf
      <4>2. x # a /\ c \in s[k] /\ x \in Neighbours(graph2, c)
        BY <1>1, <1>2, <1>4, <2>1, <2>2, <3>2, <4>1 DEF BallOf
      <4> QED BY <1>1, <4>2 DEF BallOf
    <3> QED BY <3>1, <3>2
  <2> QED BY <2>1, <2>2
<1> HIDE DEF T
<1>5. n \in T
  BY <1>3, <1>4, SetInduction
<1> QED BY <1>5 DEF T, r, s

\* What is around a neighbour is around the cube itself, one further.
LEMMA AroundNeighbour ==
  ASSUME NEW graph \in LinkGraphs, NEW a \in Cubes, NEW g \in Cubes, NEW y \in Cubes \ {a},
         y \in Neighbours(graph, g), NEW n \in Nat
  PROVE  Around(graph, a, y)[n] \subseteq Around(graph, a, g)[n + 1]
<1> DEFINE r == Around(graph, a, y)
           s == Around(graph, a, g)
           T == {k \in Nat : r[k] \subseteq s[k + 1]}
<1>1. BallOf(r, graph, a, y) /\ BallOf(s, graph, a, g)
  BY AroundBall
<1> HIDE DEF r, s
<1>2. 0 \in T
  <2>1. r[0] = {y} /\ s[0] = {g} /\ 0 + 1 = 1
    BY <1>1 DEF BallOf
  <2>2. y \in s[0 + 1]
    BY <1>1, <2>1 DEF BallOf
  <2> QED BY <2>1, <2>2
<1>3. ASSUME NEW k \in Nat, k \in T PROVE k + 1 \in T
  <2>1. r[k] \in SUBSET Cubes /\ r[k + 1] \in SUBSET Cubes
    BY <1>1 DEF BallOf
  <2>2. ASSUME NEW x \in Cubes, x \in r[k + 1] PROVE x \in s[(k + 1) + 1]
    <3>1. k + 1 \in Nat
      OBVIOUS
    <3>2. CASE x \in r[k]
      BY <1>1, <1>3, <3>1, <3>2 DEF BallOf
    <3>3. CASE x \notin r[k]
      <4>1. x # a /\ \E c \in r[k] : x \in Neighbours(graph, c)
        BY <1>1, <2>2, <3>3 DEF BallOf
      <4>2. x # a /\ \E c \in s[k + 1] : x \in Neighbours(graph, c)
        BY <1>3, <4>1
      <4> QED BY <1>1, <3>1, <4>2 DEF BallOf
    <3> QED BY <3>2, <3>3
  <2> QED BY <2>1, <2>2
<1> HIDE DEF T
<1>4. n \in T
  BY <1>2, <1>3, SetInduction
<1> QED BY <1>4 DEF T, r, s

\* A way can be gone back.
LEMMA AroundConverse ==
  ASSUME NEW graph \in LinkGraphs, Symmetric(graph), NEW a \in Cubes,
         NEW g \in Cubes \ {a}, NEW d \in Cubes \ {a}, NEW n \in Nat,
         d \in Around(graph, a, g)[n]
  PROVE  g \in Around(graph, a, d)[n]
<1> DEFINE r == Around(graph, a, g)
           T == {k \in Nat : \A x \in Cubes \ {a} : x \in r[k] => g \in Around(graph, a, x)[k]}
<1>1. BallOf(r, graph, a, g)
  BY AroundBall
<1>2. \A k \in Nat : a \notin r[k]
  BY AroundAvoids
<1> HIDE DEF r
<1>3. 0 \in T
  <2>1. ASSUME NEW x \in Cubes \ {a}, x \in r[0] PROVE g \in Around(graph, a, x)[0]
    <3>1. x = g
      BY <1>1, <2>1 DEF BallOf
    <3>2. BallOf(Around(graph, a, g), graph, a, g)
      BY AroundBall
    <3> QED BY <3>1, <3>2 DEF BallOf
  <2> QED BY <2>1
<1>4. ASSUME NEW k \in Nat, k \in T PROVE k + 1 \in T
  <2>1. ASSUME NEW x \in Cubes \ {a}, x \in r[k + 1] PROVE g \in Around(graph, a, x)[k + 1]
    <3>1. CASE x \in r[k]
      <4>1. g \in Around(graph, a, x)[k]
        BY <1>4, <3>1
      <4>2. BallOf(Around(graph, a, x), graph, a, x)
        BY AroundBall
      <4> QED BY <4>1, <4>2 DEF BallOf
    <3>2. CASE x \notin r[k]
      <4>1. PICK c \in r[k] : x \in Neighbours(graph, c)
        BY <1>1, <2>1, <3>2 DEF BallOf
      <4>2. c \in Cubes \ {a}
        BY <1>1, <1>2 DEF BallOf
      <4>3. c \in Neighbours(graph, x)
        BY <4>1, <4>2 DEF Neighbours, Symmetric
      <4>4. g \in Around(graph, a, c)[k]
        BY <1>4, <4>2
      <4>5. Around(graph, a, c)[k] \subseteq Around(graph, a, x)[k + 1]
        BY <4>2, <4>3, AroundNeighbour
      <4> QED BY <4>4, <4>5
    <3> QED BY <3>1, <3>2
  <2> QED BY <2>1
<1> HIDE DEF T
<1>5. n \in T
  BY <1>3, <1>4, SetInduction
<1> QED BY <1>5 DEF T, r

\* A ball that a step has not widened stays what it is.
Still(ball, n) == \A k \in Nat : k >= n => ball[k] = ball[n]

LEMMA AroundStill ==
  ASSUME NEW graph \in LinkGraphs, NEW a \in Cubes, NEW g \in Cubes, NEW n \in Nat,
         Around(graph, a, g)[n + 1] = Around(graph, a, g)[n]
  PROVE  Still(Around(graph, a, g), n)
<1> DEFINE r == Around(graph, a, g)
           T == {k \in Nat : r[n + k] = r[n]}
<1>1. BallOf(r, graph, a, g)
  BY AroundBall
<1>2. r[n + 1] = r[n]
  OBVIOUS
<1> HIDE DEF r
<1>3. 0 \in T
  OBVIOUS
<1>4. ASSUME NEW k \in Nat, k \in T PROVE k + 1 \in T
  <2>1. n + k \in Nat /\ n + (k + 1) = (n + k) + 1
    OBVIOUS
  <2>2. r[(n + k) + 1] \in SUBSET Cubes /\ r[n + 1] \in SUBSET Cubes
    BY <1>1, <2>1 DEF BallOf
  <2>3. \A x \in Cubes : x \in r[(n + k) + 1] <=> x \in r[n + 1]
    <3>1. r[n + k] = r[n]
      BY <1>4
    <3> QED BY <1>1, <2>1, <3>1 DEF BallOf
  <2>4. r[(n + k) + 1] = r[n + 1]
    BY <2>2, <2>3
  <2> QED BY <1>2, <2>1, <2>4
<1> HIDE DEF T
<1>5. \A k \in Nat : k \in T
  BY <1>3, <1>4, SetInduction
<1>6. ASSUME NEW k \in Nat, k >= n PROVE r[k] = r[n]
  <2>1. k - n \in T /\ n + (k - n) = k
    BY <1>5, <1>6
  <2> QED BY <2>1 DEF T
<1> QED BY <1>6 DEF Still, r

LEMMA CubesFinite ==
  /\ IsFiniteSet(Cubes) /\ Cardinality(Cubes) \in Nat
  /\ Cubes = 0 .. (Cardinality(Cubes) - 1)
BY RouteAssumption, FS_CardinalityType

\* What is around a cube at all is around it within as many connections as
\* there are cubes.
LEMMA AroundBounded ==
  ASSUME NEW graph \in LinkGraphs, NEW a \in Cubes, NEW g \in Cubes, NEW n \in Nat
  PROVE  Around(graph, a, g)[n] \subseteq Around(graph, a, g)[Cardinality(Cubes)]
<1> DEFINE r == Around(graph, a, g)
           T == {k \in Nat : Cardinality(r[k]) > k \/ Still(r, k)}
<1>1. BallOf(r, graph, a, g)
  BY AroundBall
<1>2. \A k \in Nat : r[k + 1] = r[k] => Still(r, k)
  BY AroundStill
<1>3. \A k \in Nat : r[k] \subseteq r[k + 1]
  <2>1. \A k \in Nat : k + 1 \in Nat /\ k <= k + 1
    OBVIOUS
  <2> QED BY <2>1, AroundGrows
<1>4. \A k \in Nat : k <= n => r[k] \subseteq r[n]
  BY AroundGrows
<1>5. \A k \in Nat : n <= k => r[n] \subseteq r[k]
  BY AroundGrows
<1> HIDE DEF r
<1>6. \A k \in Nat : r[k] \subseteq Cubes /\ IsFiniteSet(r[k]) /\ Cardinality(r[k]) \in Nat
                     /\ Cardinality(r[k]) <= Cardinality(Cubes)
  <2>1. \A k \in Nat : r[k] \subseteq Cubes
    BY <1>1 DEF BallOf
  <2> QED BY <2>1, CubesFinite, FS_Subset, FS_CardinalityType
<1>7. 0 \in T
  <2>1. Cardinality(r[0]) = 1
    BY <1>1, FS_Singleton DEF BallOf
  <2> QED BY <2>1
<1>8. ASSUME NEW k \in Nat, k \in T PROVE k + 1 \in T
  <2>1. CASE Still(r, k)
    <3>1. Still(r, k + 1)
      BY <2>1 DEF Still
    <3> QED BY <3>1
  <2>2. CASE r[k + 1] = r[k]
    BY <1>2, <2>1, <2>2
  <2>3. CASE ~Still(r, k) /\ r[k + 1] # r[k]
    <3>1. Cardinality(r[k]) > k
      BY <1>8, <2>3
    <3>2. Cardinality(r[k]) < Cardinality(r[k + 1])
      <4>1. r[k] \subseteq r[k + 1] /\ IsFiniteSet(r[k + 1])
        BY <1>3, <1>6
      <4>2. /\ Cardinality(r[k]) <= Cardinality(r[k + 1])
            /\ Cardinality(r[k]) = Cardinality(r[k + 1]) => r[k] = r[k + 1]
        BY <4>1, FS_Subset
      <4> QED BY <1>6, <2>3, <4>2
    <3>3. Cardinality(r[k + 1]) > k + 1
      BY <1>6, <3>1, <3>2
    <3> QED BY <3>3
  <2> QED BY <2>1, <2>2, <2>3
<1> HIDE DEF T
<1>9. Cardinality(Cubes) \in T
  BY <1>7, <1>8, CubesFinite, SetInduction
<1>10. Still(r, Cardinality(Cubes))
  <2>1. Cardinality(r[Cardinality(Cubes)]) \in Nat
        /\ Cardinality(r[Cardinality(Cubes)]) <= Cardinality(Cubes)
    BY <1>6, CubesFinite, Zenon
  <2>2. ~(Cardinality(r[Cardinality(Cubes)]) > Cardinality(Cubes))
    BY <2>1, CubesFinite
  <2> QED BY <1>9, <2>2, Zenon DEF T
<1>11. r[n] \subseteq r[Cardinality(Cubes)]
  BY <1>5, <1>10, CubesFinite, <1>4 DEF Still
<1> QED BY <1>11 DEF r

-----------------------------------------------------------------------------
(* Lists of routes and the search, call by call. *)

LEMMA InOrderSequence ==
  /\ InOrder \in Seq(Cubes) /\ Len(InOrder) = Cardinality(Cubes)
  /\ \A n \in 1 .. Cardinality(Cubes) : InOrder[n] = n - 1
<1>1. \A n \in 1 .. Cardinality(Cubes) : n - 1 \in Cubes
  BY CubesFinite
<1>2. InOrder \in [1 .. Cardinality(Cubes) -> Cubes]
  BY <1>1 DEF InOrder
<1>3. InOrder \in Seq(Cubes)
  BY <1>2, CubesFinite, SeqDef
<1>4. Len(InOrder) = Cardinality(Cubes)
  BY <1>2, <1>3, CubesFinite, LenProperties
<1> QED BY <1>3, <1>4 DEF InOrder

LEMMA ListFacts ==
  ASSUME NEW list \in Lists
  PROVE  /\ Len(list) \in Nat /\ DOMAIN list = 1 .. Len(list)
         /\ \A i \in 1 .. Len(list) :
              /\ list[i] \in [next_dev : Cubes, hops : Int]
              /\ list[i].next_dev \in Cubes /\ list[i].hops \in Int
<1>1. Len(list) \in Nat /\ DOMAIN list = 1 .. Len(list)
      /\ \A i \in 1 .. Len(list) : list[i] \in [next_dev : Cubes, hops : Int]
  BY LenProperties, ElementOfSeq DEF Lists
<1> QED BY <1>1

\* The gateways stay where they are in the list, and no route gets longer.
Grown(list, new) ==
  /\ Len(list) <= Len(new)
  /\ \A i \in 1 .. Len(list) :
       new[i].next_dev = list[i].next_dev /\ new[i].hops <= list[i].hops

LEMMA GrownOrder ==
  /\ \A list \in Lists : Grown(list, list)
  /\ \A list, new, newer \in Lists :
       Grown(list, new) /\ Grown(new, newer) => Grown(list, newer)
<1>1. ASSUME NEW list \in Lists PROVE Grown(list, list)
  BY ListFacts DEF Grown
<1>2. ASSUME NEW list \in Lists, NEW new \in Lists, NEW newer \in Lists,
             Grown(list, new), Grown(new, newer)
      PROVE  Grown(list, newer)
  <2>1. /\ Len(list) \in Nat /\ Len(new) \in Nat /\ Len(newer) \in Nat
        /\ Len(list) <= Len(newer)
    BY <1>2, ListFacts DEF Grown
  <2>2. ASSUME NEW i \in 1 .. Len(list)
        PROVE  newer[i].next_dev = list[i].next_dev /\ newer[i].hops <= list[i].hops
    <3>1. i \in 1 .. Len(new) /\ i \in 1 .. Len(newer)
      BY <1>2, <2>1 DEF Grown
    <3>2. list[i].hops \in Int /\ new[i].hops \in Int /\ newer[i].hops \in Int
      BY <3>1, ListFacts
    <3>3. /\ new[i].next_dev = list[i].next_dev /\ new[i].hops <= list[i].hops
          /\ newer[i].next_dev = new[i].next_dev /\ newer[i].hops <= new[i].hops
      BY <1>2, <3>1 DEF Grown
    <3> QED BY <3>2, <3>3
  <2> QED BY <2>1, <2>2 DEF Grown
<1> QED BY <1>1, <1>2

\* There is a route by g of at most h hops.
Covers(list, g, h) ==
  \E i \in 1 .. Len(list) : list[i].next_dev = g /\ list[i].hops <= h

LEMMA CoversGrown ==
  ASSUME NEW list \in Lists, NEW new \in Lists, Grown(list, new), NEW g, NEW h \in Int,
         Covers(list, g, h)
  PROVE  Covers(new, g, h)
<1>1. PICK i \in 1 .. Len(list) : list[i].next_dev = g /\ list[i].hops <= h
  BY DEF Covers
<1>2. i \in 1 .. Len(new)
  BY ListFacts DEF Grown
<1>3. list[i].hops \in Int /\ new[i].hops \in Int
  BY <1>2, ListFacts
<1>4. new[i].next_dev = g /\ new[i].hops <= list[i].hops
  BY <1>1 DEF Grown
<1>5. new[i].hops <= h
  BY <1>1, <1>3, <1>4
<1> QED BY <1>2, <1>4, <1>5 DEF Covers

\* What an insertion leaves.
Inserted(list, g, h, new) ==
  /\ new \in Lists
  /\ Grown(list, new)
  /\ Covers(new, g, h)
  /\ \A i \in 1 .. Len(new) :
       \/ new[i] = Route(g, h)
       \/ (i <= Len(list) /\ new[i] = list[i])
  /\ Len(new) > Len(list) =>
       Len(new) = Len(list) + 1 /\ \A i \in 1 .. Len(list) : list[i].next_dev # g

LEMMA InsertEffect ==
  ASSUME NEW list \in Lists, NEW g \in Cubes, NEW h \in Int
  PROVE  Inserted(list, g, h, Insert(list, g, h))
<1> DEFINE R == [next_dev : Cubes, hops : Int]
           new == Insert(list, g, h)
<1>1. Route(g, h) \in R /\ Route(g, h).next_dev = g /\ Route(g, h).hops = h
  BY DEF Route
<1>2. Len(list) \in Nat /\ DOMAIN list = 1 .. Len(list)
      /\ \A i \in 1 .. Len(list) :
           list[i] \in R /\ list[i].next_dev \in Cubes /\ list[i].hops \in Int
  BY ListFacts
<1>3. CASE \E i \in DOMAIN list : list[i].next_dev = g
  <2>1. new = [i \in 1 .. Len(list) |->
                 IF list[i].next_dev = g /\ h < list[i].hops THEN Route(g, h) ELSE list[i]]
    BY <1>2, <1>3 DEF Insert
  <2> HIDE DEF new
  <2>2. new \in [1 .. Len(list) -> R]
    BY <1>1, <1>2, <2>1
  <2>3. new \in Lists
    BY <1>2, <2>2, SeqDef DEF Lists
  <2>4. Len(new) = Len(list)
    BY <1>2, <2>2, <2>3, LenProperties DEF Lists
  <2>5. Grown(list, new)
    BY <1>1, <1>2, <2>1, <2>4 DEF Grown
  <2>6. Covers(new, g, h)
    <3>1. PICK i \in 1 .. Len(list) : list[i].next_dev = g
      BY <1>2, <1>3
    <3>2. new[i].next_dev = g /\ new[i].hops <= h
      BY <1>1, <1>2, <2>1, <3>1
    <3> QED BY <2>4, <3>2 DEF Covers
  <2>7. \A i \in 1 .. Len(new) : new[i] = Route(g, h) \/ (i <= Len(list) /\ new[i] = list[i])
    BY <1>2, <2>1, <2>4
  <2>8. ~(Len(new) > Len(list))
    BY <1>2, <2>4
  <2>9. Inserted(list, g, h, new)
    BY <2>3, <2>5, <2>6, <2>7, <2>8 DEF Inserted
  <2> QED BY <2>9 DEF new
<1>4. CASE ~\E i \in DOMAIN list : list[i].next_dev = g
  <2>1. new = Append(list, Route(g, h))
    BY <1>4 DEF Insert
  <2> HIDE DEF new
  <2>2. /\ new \in Lists /\ Len(new) = Len(list) + 1
        /\ new[Len(list) + 1] = Route(g, h)
        /\ \A i \in 1 .. Len(list) : new[i] = list[i]
    BY <1>1, <2>1, AppendProperties DEF Lists
  <2>3. Grown(list, new)
    BY <1>2, <2>2 DEF Grown
  <2>4. Covers(new, g, h)
    <3>1. Len(list) + 1 \in 1 .. Len(new) /\ new[Len(list) + 1].hops <= h
      BY <1>1, <1>2, <2>2
    <3> QED BY <1>1, <2>2, <3>1 DEF Covers
  <2>5. ASSUME NEW i \in 1 .. Len(new)
        PROVE  new[i] = Route(g, h) \/ (i <= Len(list) /\ new[i] = list[i])
    <3>1. i = Len(list) + 1 \/ i \in 1 .. Len(list)
      BY <1>2, <2>2
    <3> QED BY <1>2, <2>2, <3>1
  <2>6. \A i \in 1 .. Len(list) : list[i].next_dev # g
    BY <1>2, <1>4
  <2>7. Inserted(list, g, h, new)
    BY <2>2, <2>3, <2>4, <2>5, <2>6 DEF Inserted
  <2> QED BY <2>7 DEF new
<1> QED BY <1>3, <1>4

\* f is the call of c that goes on to j.
IsDeeper(f, c, j) ==
  /\ c.i \in Cubes /\ c.first_hop \in Cubes /\ c.hop \in Nat
  /\ f \in Calls /\ f.i = j
  /\ f.first_hop = IF c.hop = 0 THEN j ELSE c.first_hop
  /\ f.hop = c.hop + 1
  /\ f.visited = c.visited \union {{c.i, j}}

LEMMA DeeperCall ==
  ASSUME NEW c \in Calls, NEW j \in Cubes
  PROVE  IsDeeper(Deeper(c, j), c, j)
<1>1. /\ c.i \in Cubes /\ c.first_hop \in Cubes /\ c.hop \in Nat
      /\ c.visited \in SUBSET (SUBSET Cubes)
  BY DEF Calls
<1>2. c.visited \union {{c.i, j}} \in SUBSET (SUBSET Cubes)
  BY <1>1
<1> HIDE DEF Calls
<1> QED BY <1>1, <1>2 DEF Deeper, Calls, IsDeeper

Searches == [Calls \X Lists -> Lists]

\* F takes the steps of the loop of call c.
IsLoop(F, graph, c, search) ==
  /\ Steps(F, Lists, Cubes)
  /\ \A list \in Lists, j \in Cubes :
       F[<<list, j>>] =
         IF j \in Onward(graph, c) THEN search[<<Deeper(c, j), list>>] ELSE list

LEMMA LoopSteps ==
  ASSUME NEW graph, NEW c \in Calls, NEW search \in Searches
  PROVE  IsLoop(Loop(graph, c, search), graph, c, search)
<1>1. \A list \in Lists, j \in Cubes : search[<<Deeper(c, j), list>>] \in Lists
  BY DeeperCall DEF Searches, IsDeeper
<1>2. ASSUME NEW z \in Lists \X Cubes
      PROVE  (IF z[2] \in Onward(graph, c) THEN search[<<Deeper(c, z[2]), z[1]>>] ELSE z[1])
               \in Lists
  BY <1>1
<1>3. Loop(graph, c, search) \in [Lists \X Cubes -> Lists]
  BY <1>2 DEF Loop
<1>4. \A list \in Lists, j \in Cubes :
        Loop(graph, c, search)[<<list, j>>] =
          IF j \in Onward(graph, c) THEN search[<<Deeper(c, j), list>>] ELSE list
  BY DEF Loop
<1> QED BY <1>3, <1>4 DEF Steps, IsLoop

\* What calls that may go n connections further do, given what those do that
\* may go one less.
Level(graph, start, end, n, search) ==
  [z \in Calls \X Lists |->
     IF z[1].i = end THEN Insert(z[2], z[1].first_hop, z[1].hop - 1)
     ELSE IF n = 0 \/ (z[1].i = start /\ z[1].hop > 0) THEN z[2]
     ELSE Fold(Loop(graph, z[1], search), z[2], InOrder)]

LEMMA LevelType ==
  ASSUME NEW graph, NEW start, NEW end
  PROVE  /\ \A search : Level(graph, start, end, 0, search) \in Searches
         /\ \A n \in Nat : \A search \in Searches :
              Level(graph, start, end, n, search) \in Searches
<1>1. ASSUME NEW z \in Calls \X Lists
      PROVE  z[1] \in Calls /\ z[2] \in Lists
             /\ Insert(z[2], z[1].first_hop, z[1].hop - 1) \in Lists
  <2>1. z[1] \in Calls /\ z[2] \in Lists
    OBVIOUS
  <2>2. z[1].first_hop \in Cubes /\ z[1].hop - 1 \in Int
    BY <2>1 DEF Calls
  <2> QED BY <2>1, <2>2, InsertEffect DEF Inserted
<1>2. ASSUME NEW z \in Calls \X Lists, NEW search \in Searches
      PROVE  Fold(Loop(graph, z[1], search), z[2], InOrder) \in Lists
  <2> DEFINE F == Loop(graph, z[1], search)
             l == z[2]
  <2>1. Steps(F, Lists, Cubes) /\ l \in Lists
    BY <1>1, LoopSteps DEF IsLoop
  <2> HIDE DEF F, l
  <2>2. Fold(F, l, InOrder) \in Lists
    BY <2>1, InOrderSequence, FoldType
  <2> QED BY <2>2 DEF F, l
<1>3. ASSUME NEW search PROVE Level(graph, start, end, 0, search) \in Searches
  BY <1>1, Zenon DEF Level, Searches
<1>4. ASSUME NEW n \in Nat, NEW search \in Searches
      PROVE  Level(graph, start, end, n, search) \in Searches
  BY <1>1, <1>2 DEF Level, Searches
<1> QED BY <1>3, <1>4

\* s[n] is what a call does that may go n connections further.
IsSearch(s, graph, start, end) ==
  \A n \in Nat :
    /\ s[n] \in Searches
    /\ \A c \in Calls, list \in Lists :
         s[n][<<c, list>>] =
           IF c.i = end THEN Insert(list, c.first_hop, c.hop - 1)
           ELSE IF n = 0 \/ (c.i = start /\ c.hop > 0) THEN list
           ELSE Fold(Loop(graph, c, s[n - 1]), list, InOrder)

\* The search satisfies its recursion.
LEMMA SearchRecursion ==
  ASSUME NEW graph, NEW start, NEW end
  PROVE  IsSearch(Search(graph, start, end), graph, start, end)
<1> DEFINE L(n, search) == Level(graph, start, end, n, search)
           x == L(0, <<>>)
           G == [z \in Nat \X Searches |-> L(z[1] + 1, z[2])]
           Fits(g) == g = [n \in Nat |-> L(n, g[n - 1])]
           r == Search(graph, start, end)
<1>1. \A search, other : L(0, search) = L(0, other)
  BY DEF Level
<1>2. (\A search : L(0, search) \in Searches)
      /\ \A n \in Nat : \A search \in Searches : L(n, search) \in Searches
  BY LevelType
<1>3. r = CHOOSE g : Fits(g)
  BY DEF Search, Level
<1>4. \A n \in Nat : \A search : \A c \in Calls, list \in Lists :
        L(n, search)[<<c, list>>] =
           IF c.i = end THEN Insert(list, c.first_hop, c.hop - 1)
           ELSE IF n = 0 \/ (c.i = start /\ c.hop > 0) THEN list
           ELSE Fold(Loop(graph, c, search), list, InOrder)
  BY DEF Level
<1> HIDE DEF L, r
<1>5. G \in [Nat \X Searches -> Searches]
  BY <1>2
<1>6. x \in Searches
  BY <1>2
<1>7. \A n \in Nat, search \in Searches : G[<<n, search>>] = L(n + 1, search)
  OBVIOUS
<1> HIDE DEF G, x
<1>8. PICK f : IsRun(f, Searches, G, x)
  BY <1>5, <1>6, RecursionExists
<1>9. f \in [Nat -> Searches] /\ f[0] = x /\ \A n \in Nat : f[n + 1] = L(n + 1, f[n])
  BY <1>7, <1>8 DEF IsRun
<1>10. ASSUME NEW n \in Nat PROVE f[n] = L(n, f[n - 1])
  <2>1. CASE n = 0
    BY <1>1, <1>9, <2>1 DEF x
  <2>2. CASE n # 0
    <3>1. n - 1 \in Nat /\ (n - 1) + 1 = n
      BY <2>2
    <3>2. f[(n - 1) + 1] = L((n - 1) + 1, f[n - 1])
      BY <1>9, <3>1, Zenon
    <3> QED BY <3>1, <3>2, Zenon
  <2> QED BY <2>1, <2>2
<1>11. Fits(f)
  BY <1>9, <1>10
<1>12. Fits(r)
  <2> HIDE DEF Fits
  <2> QED BY <1>3, <1>11
<1>13. \A n \in Nat : r[n] = L(n, r[n - 1])
  BY <1>12
<1> HIDE DEF Fits
<1> DEFINE T == {n \in Nat : r[n] \in Searches}
<1>14. 0 \in T
  BY <1>2, <1>13
<1>15. ASSUME NEW n \in Nat, n \in T PROVE n + 1 \in T
  <2>1. n + 1 \in Nat /\ (n + 1) - 1 = n
    OBVIOUS
  <2>2. r[n + 1] = L(n + 1, r[(n + 1) - 1])
    BY <1>13, <2>1, Zenon
  <2>3. r[n + 1] = L(n + 1, r[n])
    BY <2>1, <2>2, Zenon
  <2>4. L(n + 1, r[n]) \in Searches
    BY <1>2, <1>15, <2>1
  <2> QED BY <2>1, <2>3, <2>4
<1>16. \A n \in Nat : n \in T
  <2> HIDE DEF T
  <2> QED BY <1>14, <1>15, SetInduction
<1>17. ASSUME NEW n \in Nat, NEW c \in Calls, NEW list \in Lists
       PROVE  r[n][<<c, list>>] =
                IF c.i = end THEN Insert(list, c.first_hop, c.hop - 1)
                ELSE IF n = 0 \/ (c.i = start /\ c.hop > 0) THEN list
                ELSE Fold(Loop(graph, c, r[n - 1]), list, InOrder)
  <2>1. r[n] = L(n, r[n - 1])
    BY <1>13
  <2>2. L(n, r[n - 1])[<<c, list>>] =
                IF c.i = end THEN Insert(list, c.first_hop, c.hop - 1)
                ELSE IF n = 0 \/ (c.i = start /\ c.hop > 0) THEN list
                ELSE Fold(Loop(graph, c, r[n - 1]), list, InOrder)
    BY <1>4, Zenon
  <2> QED BY <2>1, <2>2, Zenon
<1>18. \A n \in Nat : r[n] \in Searches
  BY <1>16
<1>19. IsSearch(r, graph, start, end)
  BY <1>17, <1>18, Zenon DEF IsSearch
<1> QED BY <1>19 DEF r

\* The loop of call c keeps I, a set of pairs of a cube and the list before it.
Kept(I, graph, c, search) ==
  \A j \in Cubes, l \in Lists :
    <<j, l>> \in I =>
      IF j \in Onward(graph, c) THEN <<j + 1, search[<<Deeper(c, j), l>>]>> \in I
      ELSE <<j + 1, l>> \in I

\* A call that goes on to others.
Goes(c, n, start, end) == c.i # end /\ ~(n = 0 \/ (c.i = start /\ c.hop > 0))

LEMMA SearchStep ==
  ASSUME NEW graph, NEW start, NEW end, NEW n \in Nat, NEW c \in Calls, NEW list \in Lists,
         NEW s, IsSearch(s, graph, start, end), NEW I, <<0, list>> \in I,
         Goes(c, n, start, end), Kept(I, graph, c, s[n - 1])
  PROVE  <<Cardinality(Cubes), s[n][<<c, list>>]>> \in I
<1> DEFINE q == s[n - 1]
           F == Loop(graph, c, q)
<1>1. q \in Searches
  BY DEF IsSearch, Goes
<1>2. s[n][<<c, list>>] = Fold(F, list, InOrder)
  BY DEF IsSearch, Goes
<1>3. \A j \in Cubes, l \in Lists :
        <<j, l>> \in I =>
          IF j \in Onward(graph, c) THEN <<j + 1, q[<<Deeper(c, j), l>>]>> \in I
          ELSE <<j + 1, l>> \in I
  BY DEF Kept
<1> HIDE DEF q
<1>4. IsLoop(F, graph, c, q)
  BY <1>1, LoopSteps, Zenon
<1> HIDE DEF F
<1>5. ASSUME NEW k \in 1 .. Len(InOrder), NEW l \in Lists, <<k - 1, l>> \in I
      PROVE  <<k, F[<<l, InOrder[k]>>]>> \in I
  <2>1. InOrder[k] = k - 1 /\ k - 1 \in Cubes /\ (k - 1) + 1 = k
    BY InOrderSequence, CubesFinite
  <2> DEFINE j == k - 1
  <2>2. j \in Cubes /\ <<j, l>> \in I /\ InOrder[k] = j /\ j + 1 = k
    BY <1>5, <2>1
  <2> HIDE DEF j
  <2>3. <<j + 1, F[<<l, j>>]>> \in I
    BY <1>3, <1>4, <2>2 DEF IsLoop
  <2> QED BY <2>2, <2>3
<1>6. <<Len(InOrder), Fold(F, list, InOrder)>> \in I
  BY <1>4, <1>5, InOrderSequence, FoldInvariant DEF IsLoop
<1> QED BY <1>2, <1>6, InOrderSequence

LEMMA SearchGrows ==
  ASSUME NEW graph, NEW start, NEW end, NEW n \in Nat, NEW c \in Calls, NEW list \in Lists
  PROVE  /\ Search(graph, start, end)[n][<<c, list>>] \in Lists
         /\ Grown(list, Search(graph, start, end)[n][<<c, list>>])
<1> DEFINE s == Search(graph, start, end)
           T == {k \in Nat : \A d \in Calls, l \in Lists : Grown(l, s[k][<<d, l>>])}
<1>1. IsSearch(s, graph, start, end)
  BY SearchRecursion
<1> HIDE DEF s
<1>2. \A k \in Nat : \A d \in Calls, l \in Lists : s[k][<<d, l>>] \in Lists
  BY <1>1 DEF IsSearch, Searches
<1>3. ASSUME NEW k \in Nat, k # 0 => k - 1 \in T PROVE k \in T
  <2>1. ASSUME NEW d \in Calls, NEW l \in Lists PROVE Grown(l, s[k][<<d, l>>])
    <3>1. CASE d.i = end
      <4>1. d.first_hop \in Cubes /\ d.hop - 1 \in Int
        BY DEF Calls
      <4>2. s[k][<<d, l>>] = Insert(l, d.first_hop, d.hop - 1)
        BY <1>1, <3>1 DEF IsSearch
      <4> QED BY <4>1, <4>2, InsertEffect DEF Inserted
    <3>2. CASE d.i # end /\ (k = 0 \/ (d.i = start /\ d.hop > 0))
      <4>1. s[k][<<d, l>>] = l
        BY <1>1, <3>2 DEF IsSearch
      <4> QED BY <4>1, GrownOrder
    <3>3. CASE d.i # end /\ ~(k = 0 \/ (d.i = start /\ d.hop > 0))
      <4> DEFINE I == {z \in Nat \X Lists : Grown(l, z[2])}
      <4>1. <<0, l>> \in I
        BY GrownOrder
      <4>2. ASSUME NEW j \in Cubes, NEW m \in Lists, <<j, m>> \in I
            PROVE  IF j \in Onward(graph, d) THEN <<j + 1, s[k - 1][<<Deeper(d, j), m>>]>> \in I
                   ELSE <<j + 1, m>> \in I
        <5>1. j \in Nat /\ j + 1 \in Nat /\ k - 1 \in Nat
          BY <3>3, CubesFinite
        <5>2. Deeper(d, j) \in Calls
          BY DeeperCall DEF IsDeeper
        <5>3. Grown(m, s[k - 1][<<Deeper(d, j), m>>]) /\ s[k - 1][<<Deeper(d, j), m>>] \in Lists
          BY <1>2, <1>3, <3>3, <5>1, <5>2
        <5>4. Grown(l, m)
          BY <4>2
        <5>5. Grown(l, s[k - 1][<<Deeper(d, j), m>>])
          BY <5>3, <5>4, GrownOrder
        <5> QED BY <5>1, <5>3, <5>4, <5>5
      <4> HIDE DEF I
      <4>3. Kept(I, graph, d, s[k - 1])
        BY <4>2 DEF Kept
      <4>4. <<Cardinality(Cubes), s[k][<<d, l>>]>> \in I
        <5>1. Goes(d, k, start, end)
          BY <3>3, Zenon DEF Goes
        <5> QED BY <1>1, <4>1, <4>3, <5>1, SearchStep, Zenon
      <4> QED BY <4>4 DEF I
    <3> QED BY <3>1, <3>2, <3>3
  <2> QED BY <2>1
<1> HIDE DEF T
<1>4. 0 \in T
  BY <1>3
<1>5. ASSUME NEW k \in Nat, k \in T PROVE k + 1 \in T
  <2>1. k + 1 \in Nat /\ (k + 1) - 1 = k
    OBVIOUS
  <2> QED BY <1>3, <1>5, <2>1
<1>6. n \in T
  BY <1>4, <1>5, SetInduction
<1>7. Grown(list, s[n][<<c, list>>]) /\ s[n][<<c, list>>] \in Lists
  BY <1>2, <1>6 DEF T
<1> QED BY <1>7 DEF s

-----------------------------------------------------------------------------
(* What the search finds is a way, and it finds the shortest ones. *)

\* Every route of the list is a way from a to d that does not come back to a,
\* and there is one route by each gateway.
Sound(graph, a, d, list) ==
  /\ list \in Lists
  /\ \A i, j \in 1 .. Len(list) : list[i].next_dev = list[j].next_dev => i = j
  /\ \A i \in 1 .. Len(list) :
       /\ list[i].next_dev \in Neighbours(graph, a)
       /\ list[i].hops \in Nat
       /\ d \in Around(graph, a, list[i].next_dev)[list[i].hops]

LEMMA InsertSound ==
  ASSUME NEW graph \in LinkGraphs, NEW a \in Cubes, NEW d \in Cubes, NEW list,
         Sound(graph, a, d, list), NEW g \in Neighbours(graph, a), NEW h \in Nat,
         d \in Around(graph, a, g)[h]
  PROVE  Sound(graph, a, d, Insert(list, g, h))
<1> DEFINE new == Insert(list, g, h)
<1>1. list \in Lists /\ g \in Cubes /\ h \in Int
  BY DEF Sound, Neighbours
<1>2. Inserted(list, g, h, new)
  BY <1>1, InsertEffect
<1> HIDE DEF new
<1>3. new \in Lists /\ Len(list) \in Nat /\ Len(new) \in Nat /\ Len(list) <= Len(new)
  BY <1>1, <1>2, ListFacts DEF Inserted, Grown
<1>4. Route(g, h).next_dev = g /\ Route(g, h).hops = h
  BY DEF Route
<1>5. ASSUME NEW i \in 1 .. Len(new)
      PROVE  /\ new[i].next_dev \in Neighbours(graph, a)
             /\ new[i].hops \in Nat
             /\ d \in Around(graph, a, new[i].next_dev)[new[i].hops]
  <2>1. CASE new[i] = Route(g, h)
    BY <1>4, <2>1
  <2>2. CASE i <= Len(list) /\ new[i] = list[i]
    <3>1. i \in 1 .. Len(list)
      BY <2>2, <1>3
    <3> QED BY <2>2, <3>1 DEF Sound
  <2> QED BY <1>2, <2>1, <2>2 DEF Inserted
<1>6. ASSUME NEW i \in 1 .. Len(new), ~(i \in 1 .. Len(list))
      PROVE  /\ i = Len(list) + 1 /\ new[i].next_dev = g
             /\ \A k \in 1 .. Len(list) : new[k].next_dev # g
  <2>1. ~(i <= Len(list)) /\ Len(new) > Len(list)
    BY <1>3, <1>6
  <2>2. new[i] = Route(g, h)
    BY <1>2, <2>1 DEF Inserted
  <2>3. Len(new) = Len(list) + 1 /\ \A k \in 1 .. Len(list) : list[k].next_dev # g
    BY <1>2, <2>1 DEF Inserted
  <2>4. \A k \in 1 .. Len(list) : new[k].next_dev = list[k].next_dev
    BY <1>2 DEF Inserted, Grown
  <2>5. i = Len(list) + 1
    BY <1>3, <2>1, <2>3
  <2> QED BY <1>4, <2>2, <2>3, <2>4, <2>5
<1>7. ASSUME NEW i \in 1 .. Len(new), NEW j \in 1 .. Len(new),
             new[i].next_dev = new[j].next_dev
      PROVE  i = j
  <2>1. CASE i \in 1 .. Len(list) /\ j \in 1 .. Len(list)
    <3>1. new[i].next_dev = list[i].next_dev /\ new[j].next_dev = list[j].next_dev
      BY <1>2, <2>1 DEF Inserted, Grown
    <3> QED BY <1>7, <2>1, <3>1 DEF Sound
  <2>2. CASE ~(i \in 1 .. Len(list))
    BY <1>6, <1>7, <2>2
  <2>3. CASE ~(j \in 1 .. Len(list))
    BY <1>6, <1>7, <2>3
  <2> QED BY <2>1, <2>2, <2>3
<1>8. Sound(graph, a, d, new)
  BY <1>3, <1>5, <1>7 DEF Sound
<1> QED BY <1>8 DEF new

\* A call of the search from a is where its first hop has led it.
Genuine(graph, a, c) ==
  \/ c.hop = 0 /\ c.i = a
  \/ /\ c.hop > 0
     /\ c.first_hop \in Neighbours(graph, a)
     /\ c.i = a \/ c.i \in Around(graph, a, c.first_hop)[c.hop - 1]

LEMMA GenuineDeeper ==
  ASSUME NEW graph \in LinkGraphs, NEW a \in Cubes, NEW c \in Calls, Genuine(graph, a, c),
         ~(c.i = a /\ c.hop > 0), NEW j \in Cubes, j \in Onward(graph, c)
  PROVE  Genuine(graph, a, Deeper(c, j))
<1>0. IsDeeper(Deeper(c, j), c, j)
  BY DeeperCall
<1>1. /\ c.i \in Cubes /\ c.first_hop \in Cubes /\ c.hop \in Nat
      /\ Deeper(c, j).i = j
      /\ Deeper(c, j).first_hop = IF c.hop = 0 THEN j ELSE c.first_hop
      /\ Deeper(c, j).hop = c.hop + 1 /\ c.hop + 1 > 0 /\ (c.hop + 1) - 1 = c.hop
  BY <1>0 DEF IsDeeper
<1>2. j \in Neighbours(graph, c.i)
  BY DEF Onward, Neighbours
<1>3. CASE c.hop = 0
  <2>1. c.i = a
    BY <1>3 DEF Genuine
  <2>2. BallOf(Around(graph, a, j), graph, a, j)
    BY AroundBall
  <2>3. j \in Around(graph, a, j)[c.hop]
    BY <1>3, <2>2 DEF BallOf
  <2> QED BY <1>1, <1>2, <1>3, <2>1, <2>3 DEF Genuine
<1>4. CASE c.hop > 0
  <2> DEFINE g == c.first_hop
             r == Around(graph, a, g)
  <2>1. g \in Neighbours(graph, a) /\ c.i \in r[c.hop - 1]
    BY <1>4 DEF Genuine
  <2>2. BallOf(r, graph, a, g)
    BY <1>1, AroundBall
  <2>3. c.hop - 1 \in Nat /\ (c.hop - 1) + 1 = c.hop
    BY <1>1, <1>4
  <2> HIDE DEF r
  <2>4. j = a \/ j \in r[(c.hop - 1) + 1]
    BY <1>2, <2>1, <2>2, <2>3 DEF BallOf
  <2>5. j = a \/ j \in r[c.hop]
    BY <2>3, <2>4
  <2>6. Deeper(c, j).first_hop = g
    BY <1>1, <1>4
  <2> QED BY <1>1, <2>1, <2>5, <2>6 DEF Genuine, r
<1> QED BY <1>1, <1>3, <1>4

LEMMA SearchSound ==
  ASSUME NEW graph \in LinkGraphs, NEW a \in Cubes, NEW d \in Cubes \ {a}, NEW n \in Nat,
         NEW c \in Calls, Genuine(graph, a, c), NEW list, Sound(graph, a, d, list)
  PROVE  Sound(graph, a, d, Search(graph, a, d)[n][<<c, list>>])
<1> DEFINE s == Search(graph, a, d)
           T == {k \in Nat : \A e \in Calls, l \in Lists :
                   Genuine(graph, a, e) /\ Sound(graph, a, d, l)
                     => Sound(graph, a, d, s[k][<<e, l>>])}
<1>1. IsSearch(s, graph, a, d)
  BY SearchRecursion
<1> HIDE DEF s
<1>2. \A k \in Nat : \A e \in Calls, l \in Lists : s[k][<<e, l>>] \in Lists
  BY <1>1 DEF IsSearch, Searches
<1>3. ASSUME NEW k \in Nat, k # 0 => k - 1 \in T PROVE k \in T
  <2>1. ASSUME NEW e \in Calls, NEW l \in Lists, Genuine(graph, a, e), Sound(graph, a, d, l)
        PROVE  Sound(graph, a, d, s[k][<<e, l>>])
    <3>1. CASE e.i = d
      <4>1. e.hop \in Nat /\ e.hop > 0 /\ e.hop - 1 \in Nat
            /\ e.first_hop \in Neighbours(graph, a)
            /\ d \in Around(graph, a, e.first_hop)[e.hop - 1]
        BY <2>1, <3>1 DEF Genuine, Calls
      <4>2. s[k][<<e, l>>] = Insert(l, e.first_hop, e.hop - 1)
        BY <1>1, <3>1 DEF IsSearch
      <4> QED BY <2>1, <4>1, <4>2, InsertSound
    <3>2. CASE e.i # d /\ (k = 0 \/ (e.i = a /\ e.hop > 0))
      <4>1. s[k][<<e, l>>] = l
        BY <1>1, <3>2 DEF IsSearch
      <4> QED BY <2>1, <4>1
    <3>3. CASE e.i # d /\ ~(k = 0 \/ (e.i = a /\ e.hop > 0))
      <4> DEFINE I == {z \in Nat \X Lists : Sound(graph, a, d, z[2])}
      <4>1. <<0, l>> \in I
        BY <2>1
      <4>2. ASSUME NEW j \in Cubes, NEW m \in Lists, <<j, m>> \in I
            PROVE  IF j \in Onward(graph, e) THEN <<j + 1, s[k - 1][<<Deeper(e, j), m>>]>> \in I
                   ELSE <<j + 1, m>> \in I
        <5>1. j \in Nat /\ j + 1 \in Nat /\ k - 1 \in Nat
          BY <3>3, CubesFinite
        <5>2. Deeper(e, j) \in Calls
          BY DeeperCall DEF IsDeeper
        <5>3. Sound(graph, a, d, m)
          BY <4>2
        <5>4. CASE j \in Onward(graph, e)
          <6>1. Genuine(graph, a, Deeper(e, j))
            BY <2>1, <3>3, <5>4, GenuineDeeper
          <6>2. Sound(graph, a, d, s[k - 1][<<Deeper(e, j), m>>])
                /\ s[k - 1][<<Deeper(e, j), m>>] \in Lists
            BY <1>2, <1>3, <3>3, <5>1, <5>2, <5>3, <6>1
          <6> QED BY <5>1, <5>4, <6>2
        <5>5. CASE j \notin Onward(graph, e)
          BY <5>1, <5>3, <5>5
        <5> QED BY <5>4, <5>5
      <4> HIDE DEF I
      <4>3. Kept(I, graph, e, s[k - 1])
        BY <4>2 DEF Kept
      <4>4. <<Cardinality(Cubes), s[k][<<e, l>>]>> \in I
        <5>1. Goes(e, k, a, d)
          BY <3>3, Zenon DEF Goes
        <5> QED BY <1>1, <4>1, <4>3, <5>1, SearchStep, Zenon
      <4> QED BY <4>4 DEF I
    <3> QED BY <3>1, <3>2, <3>3
  <2> QED BY <2>1
<1> HIDE DEF T
<1>4. 0 \in T
  BY <1>3
<1>5. ASSUME NEW k \in Nat, k \in T PROVE k + 1 \in T
  <2>1. k + 1 \in Nat /\ (k + 1) - 1 = k
    OBVIOUS
  <2> QED BY <1>3, <1>5, <2>1
<1>6. n \in T
  BY <1>4, <1>5, SetInduction
<1>7. list \in Lists
  BY DEF Sound
<1>8. Sound(graph, a, d, s[n][<<c, list>>])
  BY <1>6, <1>7 DEF T
<1> QED BY <1>8 DEF s

\* The connections a call must not take: none of them lies among the cubes
\* of ball.
Open(c, ball) == \A v \in c.visited : ~(v \subseteq ball)

\* A call that is within k connections of d, and still has those, leaves a
\* route by its first hop that is no longer than that.
LEMMA SearchFinds ==
  ASSUME NEW graph \in LinkGraphs, Symmetric(graph), NEW a \in Cubes, NEW d \in Cubes \ {a},
         NEW k \in Nat, NEW n \in Nat, k <= n, NEW c \in Calls, c.hop > 0,
         c.i \in Around(graph, a, d)[k], Open(c, Around(graph, a, d)[k]), NEW list \in Lists
  PROVE  Covers(Search(graph, a, d)[n][<<c, list>>], c.first_hop, (c.hop - 1) + k)
<1> DEFINE s == Search(graph, a, d)
           r == Around(graph, a, d)
           Found(e, m, l, i) == Covers(s[m][<<e, l>>], e.first_hop, (e.hop - 1) + i)
           T == {i \in Nat : \A m \in Nat, e \in Calls, l \in Lists :
                   i <= m /\ e.hop > 0 /\ e.i \in r[i] /\ Open(e, r[i]) => Found(e, m, l, i)}
<1>1. IsSearch(s, graph, a, d)
  BY SearchRecursion
<1>2. \A m \in Nat : \A e \in Calls, l \in Lists : s[m][<<e, l>>] \in Lists /\ Grown(l, s[m][<<e, l>>])
  BY SearchGrows
<1>3. BallOf(r, graph, a, d) /\ \A i \in Nat : a \notin r[i]
  BY AroundBall, AroundAvoids
<1> HIDE DEF s, r
<1>4. ASSUME NEW m \in Nat, NEW e \in Calls, NEW l \in Lists, NEW i \in Nat,
             e.hop > 0, e.i = d
      PROVE  Found(e, m, l, i)
  <2>1. e.first_hop \in Cubes /\ e.hop \in Nat
    BY DEF Calls
  <2> DEFINE g == e.first_hop
             h == e.hop - 1
             new == s[m][<<e, l>>]
  <2>2. g \in Cubes /\ h \in Int /\ new = Insert(l, g, h)
    BY <1>1, <1>4, <2>1 DEF IsSearch
  <2> HIDE DEF g, h, new
  <2>3. Covers(new, g, h) /\ new \in Lists
    BY <2>2, InsertEffect DEF Inserted
  <2>4. PICK p \in 1 .. Len(new) : new[p].next_dev = g /\ new[p].hops <= h
    BY <2>3 DEF Covers
  <2>5. new[p].hops \in Int
    BY <2>3, ListFacts
  <2>6. new[p].hops <= h + i
    BY <2>2, <2>4, <2>5
  <2>7. Covers(new, g, h + i)
    BY <2>4, <2>6 DEF Covers
  <2> QED BY <2>7 DEF g, h, new
<1>5. 0 \in T
  <2>1. r[0] = {d}
    BY <1>3 DEF BallOf
  <2> HIDE DEF Found
  <2> QED BY <1>4, <2>1
<1>6. ASSUME NEW i \in Nat, i \in T PROVE i + 1 \in T
  <2>1. ASSUME NEW m \in Nat, NEW e \in Calls, NEW l \in Lists,
               i + 1 <= m, e.hop > 0, e.i \in r[i + 1], Open(e, r[i + 1])
        PROVE  Found(e, m, l, i + 1)
    <3>1. /\ e.i \in Cubes /\ e.first_hop \in Cubes /\ e.hop \in Nat
          /\ e.visited \in SUBSET (SUBSET Cubes)
      BY DEF Calls
    <3>2. r[i] \subseteq r[i + 1] /\ r[i] \in SUBSET Cubes /\ r[i + 1] \in SUBSET Cubes
          /\ e.i # a
      <4>1. i + 1 \in Nat
        OBVIOUS
      <4>2. r \in [Nat -> SUBSET Cubes] /\ a \notin r[i + 1]
            /\ \A x \in Cubes : x \in r[i] => x \in r[i + 1]
        BY <1>3, <4>1, Zenon DEF BallOf
      <4> QED BY <2>1, <4>1, <4>2
    <3>3. Open(e, r[i])
      BY <2>1, <3>2 DEF Open
    <3>4. m # 0 /\ m - 1 \in Nat /\ i <= m - 1 /\ i <= m
      BY <2>1
    <3>5. CASE e.i = d
      BY <1>4, <2>1, <3>5
    <3>6. CASE e.i \in r[i]
      <4>1. Found(e, m, l, i)
        BY <1>6, <2>1, <3>3, <3>4, <3>6
      <4> DEFINE new == s[m][<<e, l>>]
                 h == e.hop - 1
      <4>2. Covers(new, e.first_hop, h + i) /\ new \in Lists /\ h \in Int
        BY <1>2, <3>1, <4>1
      <4> HIDE DEF new, h
      <4>3. PICK p \in 1 .. Len(new) : new[p].next_dev = e.first_hop /\ new[p].hops <= h + i
        BY <4>2 DEF Covers
      <4>4. new[p].hops \in Int
        BY <4>2, ListFacts
      <4>5. new[p].hops <= h + (i + 1)
        BY <4>2, <4>3, <4>4
      <4>6. Covers(new, e.first_hop, h + (i + 1))
        BY <4>3, <4>5 DEF Covers
      <4> QED BY <4>6 DEF new, h
    <3>7. CASE e.i # d /\ e.i \notin r[i]
      <4>1. PICK w \in r[i] : e.i \in Neighbours(graph, w)
        BY <1>3, <2>1, <3>1, <3>7 DEF BallOf
      <4>2. w \in Cubes /\ w # e.i /\ graph[e.i][w] # {}
        BY <3>1, <3>2, <4>1 DEF Neighbours, Symmetric
      <4>3. {e.i, w} \notin e.visited
        BY <2>1, <3>2, <4>1 DEF Open
      <4>4. w \in Onward(graph, e)
        BY <4>2, <4>3 DEF Onward
      <4> DEFINE g == e.first_hop
                 h == (e.hop - 1) + (i + 1)
                 f == Deeper(e, w)
                 I == {z \in Nat \X Lists : z[1] > w => Covers(z[2], g, h)}
      <4>5. g \in Cubes /\ h \in Int /\ w \in Nat
        BY <3>1, <4>2, CubesFinite
      <4>6. f \in Calls /\ f.first_hop = g /\ f.hop > 0 /\ (f.hop - 1) + i = h /\ f.i = w
            /\ f.visited = e.visited \union {{e.i, w}}
        <5>1. IsDeeper(f, e, w)
          BY <4>2, DeeperCall
        <5> HIDE DEF f
        <5> QED BY <2>1, <3>1, <5>1 DEF IsDeeper
      <4>7. Open(f, r[i])
        BY <3>3, <3>7, <4>6 DEF Open
      <4>8. \A m2 \in Lists : Found(f, m - 1, m2, i)
        <5> HIDE DEF f, g, h
        <5> QED BY <1>6, <3>4, <4>1, <4>6, <4>7
      <4>9. \A m2 \in Lists : Covers(s[m - 1][<<f, m2>>], g, h)
        <5> HIDE DEF f, g, h
        <5> QED BY <4>6, <4>8
      <4> HIDE DEF f, g, h
      <4>10. <<0, l>> \in I
        BY <4>5
      <4>11. ASSUME NEW j \in Cubes, NEW q \in Lists, <<j, q>> \in I
             PROVE  IF j \in Onward(graph, e) THEN <<j + 1, s[m - 1][<<Deeper(e, j), q>>]>> \in I
                    ELSE <<j + 1, q>> \in I
        <5>1. j \in Nat /\ j + 1 \in Nat
          BY CubesFinite
        <5>2. Deeper(e, j) \in Calls
          BY DeeperCall DEF IsDeeper
        <5> DEFINE new == s[m - 1][<<Deeper(e, j), q>>]
        <5>3. new \in Lists /\ Grown(q, new)
          BY <1>2, <3>4, <5>2
        <5>4. CASE j = w
          <6>1. Covers(new, g, h)
            BY <4>9, <5>4 DEF f
          <6> QED BY <4>4, <5>1, <5>3, <5>4, <6>1
        <5>5. CASE j # w
          <6>1. j + 1 > w => Covers(q, g, h)
            BY <4>5, <4>11, <5>1, <5>5
          <6>2. j + 1 > w => Covers(new, g, h)
            <7> HIDE DEF new
            <7> QED BY <4>5, <5>3, <6>1, CoversGrown
          <6> QED BY <5>1, <5>3, <6>1, <6>2
        <5> QED BY <5>4, <5>5
      <4> HIDE DEF I
      <4>12. Goes(e, m, a, d)
        BY <3>2, <3>4, <3>7, Zenon DEF Goes
      <4>13. Kept(I, graph, e, s[m - 1])
        BY <4>11 DEF Kept
      <4>16. <<Cardinality(Cubes), s[m][<<e, l>>]>> \in I
        BY <1>1, <4>10, <4>12, <4>13, SearchStep, Zenon
      <4>14. Cardinality(Cubes) > w
        BY <4>2, CubesFinite
      <4>15. Covers(s[m][<<e, l>>], g, h)
        BY <4>14, <4>16 DEF I
      <4> QED BY <4>15 DEF g, h
    <3> QED BY <3>5, <3>6, <3>7
  <2> HIDE DEF Found
  <2> QED BY <2>1
<1> HIDE DEF T
<1>7. k \in T
  BY <1>5, <1>6, SetInduction
<1>8. c.i \in r[k] /\ Open(c, r[k])
  BY DEF r
<1>9. Found(c, n, list, k)
  BY <1>7, <1>8 DEF T
<1> QED BY <1>9 DEF s

-----------------------------------------------------------------------------
(* A table after the search. *)

LEMMA LeastOf ==
  ASSUME NEW S \in SUBSET Nat, S # {}
  PROVE  Min(S) \in S /\ \A y \in S : Min(S) <= y
<1>1. \E x \in S : \A y \in S : x <= y
  BY LeastExists
<1> QED BY <1>1, Zenon DEF Min

\* There are fewer connections between n cubes than MaxWay.
LEMMA MaxWayEnough ==
  ASSUME NEW a \in Cubes, NEW d \in Cubes \ {a}
  PROVE  MaxWay \in Nat /\ MaxWay # 0 /\ Cardinality(Cubes) <= MaxWay - 1
<1> DEFINE N == Cardinality(Cubes)
<1>1. N \in Nat /\ N >= 2
  BY CubesFinite
<1>2. MaxWay = N * N
  BY DEF MaxWay
<1> HIDE DEF N
<1>3. N * N >= 2 * N /\ N * N \in Nat
  BY <1>1
<1>4. MaxWay \in Nat /\ MaxWay # 0 /\ N <= MaxWay - 1
  BY <1>1, <1>2, <1>3
<1> QED BY <1>4 DEF N

FirstCall(a) == [i |-> a, first_hop |-> a, hop |-> 0, visited |-> {}]

\* The search leaves a route by every neighbour from which the other end can
\* be reached, and none that is longer than it must be.
LEMMA SearchedFinds ==
  ASSUME NEW graph \in LinkGraphs, Symmetric(graph), NEW a \in Cubes, NEW d \in Cubes \ {a},
         NEW list \in Lists, NEW g \in Neighbours(graph, a), NEW k \in Nat,
         k <= Cardinality(Cubes), d \in Around(graph, a, g)[k]
  PROVE  Covers(Searched(graph, a, d, list), g, k)
<1> DEFINE s == Search(graph, a, d)
           r == Around(graph, a, d)
           c == FirstCall(a)
           f == Deeper(c, g)
           n == MaxWay
           I == {z \in Nat \X Lists : z[1] > g => Covers(z[2], g, k)}
<1>1. IsSearch(s, graph, a, d)
  BY SearchRecursion
<1>2. n \in Nat /\ n # 0 /\ n - 1 \in Nat /\ k <= n - 1
  BY MaxWayEnough, CubesFinite
<1>3. \A m \in Nat : \A e \in Calls, l \in Lists : s[m][<<e, l>>] \in Lists /\ Grown(l, s[m][<<e, l>>])
  BY SearchGrows
<1>4. g \in Cubes /\ g # a /\ graph[a][g] # {} /\ g \in Nat
  BY CubesFinite DEF Neighbours
<1>5. g \in r[k] /\ a \notin r[k]
  BY <1>4, AroundConverse, AroundAvoids
<1>6. c \in Calls /\ c.i = a /\ c.hop = 0 /\ c.visited = {}
  BY DEF FirstCall, Calls
<1>7. Searched(graph, a, d, list) = s[n][<<c, list>>]
  BY DEF Searched, FirstCall
<1> HIDE DEF c, n
<1>8. IsDeeper(f, c, g)
  BY <1>4, <1>6, DeeperCall
<1>9. f \in Calls /\ f.hop > 0 /\ (f.hop - 1) + k = k /\ f.first_hop = g /\ f.i = g
      /\ f.visited = {{a, g}}
  BY <1>6, <1>8 DEF IsDeeper
<1>10. g \in Onward(graph, c)
  BY <1>4, <1>6 DEF Onward
<1>11. Open(f, r[k])
  BY <1>5, <1>9 DEF Open
<1>12. \A l \in Lists : Covers(s[n - 1][<<f, l>>], g, k)
  <2>1. ASSUME NEW l \in Lists
        PROVE  Covers(s[n - 1][<<f, l>>], f.first_hop, (f.hop - 1) + k)
    <3> HIDE DEF f
    <3> QED BY <1>2, <1>5, <1>9, <1>11, SearchFinds
  <2> HIDE DEF f, s
  <2> QED BY <2>1, <1>9
<1> HIDE DEF s, r
<1>13. <<0, list>> \in I
  BY <1>4
<1>14. ASSUME NEW j \in Cubes, NEW q \in Lists, <<j, q>> \in I
       PROVE  IF j \in Onward(graph, c) THEN <<j + 1, s[n - 1][<<Deeper(c, j), q>>]>> \in I
              ELSE <<j + 1, q>> \in I
  <2> HIDE DEF f
  <2>1. j \in Nat /\ j + 1 \in Nat
    BY CubesFinite
  <2>2. Deeper(c, j) \in Calls
    BY <1>6, DeeperCall DEF IsDeeper
  <2> DEFINE new == s[n - 1][<<Deeper(c, j), q>>]
  <2>3. new \in Lists /\ Grown(q, new)
    BY <1>2, <1>3, <2>2
  <2>4. CASE j = g
    <3>1. Covers(new, g, k)
      BY <1>12, <2>4 DEF f
    <3> QED BY <1>10, <2>1, <2>3, <2>4, <3>1
  <2>5. CASE j # g
    <3>1. j + 1 > g => Covers(q, g, k)
      BY <1>4, <1>14, <2>1, <2>5
    <3>2. j + 1 > g => Covers(new, g, k)
      <4> HIDE DEF new
      <4> QED BY <2>3, <3>1, CoversGrown
    <3> QED BY <2>1, <2>3, <3>1, <3>2
  <2> QED BY <2>4, <2>5
<1> HIDE DEF I, f
<1>15. Goes(c, n, a, d)
  BY <1>2, <1>6 DEF Goes
<1>16. Kept(I, graph, c, s[n - 1])
  BY <1>14 DEF Kept
<1>17. <<Cardinality(Cubes), s[n][<<c, list>>]>> \in I
  BY <1>1, <1>2, <1>6, <1>13, <1>15, <1>16, SearchStep, Zenon
<1>18. Cardinality(Cubes) > g
  BY <1>4, CubesFinite
<1> QED BY <1>7, <1>17, <1>18 DEF I

LEMMA SearchedSound ==
  ASSUME NEW graph \in LinkGraphs, NEW a \in Cubes, NEW d \in Cubes \ {a}, NEW list,
         Sound(graph, a, d, list)
  PROVE  /\ Sound(graph, a, d, Searched(graph, a, d, list))
         /\ Grown(list, Searched(graph, a, d, list))
<1> DEFINE c == FirstCall(a)
           n == MaxWay
<1>1. c \in Calls /\ Genuine(graph, a, c)
  BY DEF FirstCall, Calls, Genuine
<1>2. n \in Nat
  BY MaxWayEnough
<1>3. Searched(graph, a, d, list) = Search(graph, a, d)[n][<<c, list>>]
  BY DEF Searched, FirstCall
<1>4. list \in Lists
  BY DEF Sound
<1> HIDE DEF c, n
<1> QED BY <1>1, <1>2, <1>3, <1>4, SearchSound, SearchGrows

\* After a search the table of a holds what it should for d.
LEMMA TableShortest ==
  ASSUME NEW graph \in LinkGraphs, Symmetric(graph), NEW a \in Cubes, NEW d \in Cubes \ {a},
         NEW list, Sound(graph, a, d, list)
  PROVE  /\ Sound(graph, a, d, Direct(Searched(graph, a, d, list), d))
         /\ Shortest(graph, a, d, Direct(Searched(graph, a, d, list), d))
<1> DEFINE S == Searched(graph, a, d, list)
           N == Cardinality(Cubes)
           Far(g) == Distances(graph, a, g, d)
           at == {i \in DOMAIN S : S[i].next_dev = d}
           new == Direct(S, d)
<1>1. Sound(graph, a, d, S)
  BY SearchedSound
<1>2. ASSUME NEW g \in Neighbours(graph, a), NEW k \in Nat, k <= N, d \in Around(graph, a, g)[k]
      PROVE  Covers(S, g, k)
  <2>1. list \in Lists
    BY DEF Sound
  <2> QED BY <1>2, <2>1, SearchedFinds
<1>3. N \in Nat
  BY CubesFinite
<1>4. new = IF at = {} THEN S ELSE <<S[Min(at)]>>
  BY DEF Direct
<1> HIDE DEF S, new
<1>5. /\ S \in Lists
      /\ \A i, j \in 1 .. Len(S) : S[i].next_dev = S[j].next_dev => i = j
      /\ \A i \in 1 .. Len(S) :
           /\ S[i].next_dev \in Neighbours(graph, a) /\ S[i].hops \in Nat
           /\ d \in Around(graph, a, S[i].next_dev)[S[i].hops]
  BY <1>1 DEF Sound
<1>6. /\ Len(S) \in Nat /\ DOMAIN S = 1 .. Len(S)
      /\ \A i \in 1 .. Len(S) : S[i] \in [next_dev : Cubes, hops : Int]
  BY <1>5, ListFacts
<1>7. ASSUME d \in Neighbours(graph, a)
      PROVE  Sound(graph, a, d, new) /\ Shortest(graph, a, d, new)
  <2>1. d \in Around(graph, a, d)[0]
    BY AroundBall DEF BallOf
  <2>2. PICK i \in 1 .. Len(S) : S[i].next_dev = d /\ S[i].hops <= 0
    BY <1>2, <1>3, <1>7, <2>1 DEF Covers
  <2>3. S[i].hops = 0
    BY <1>5, <2>2
  <2>4. S[i] = Route(d, 0)
    BY <1>6, <2>2, <2>3 DEF Route
  <2>5. at = {i}
    BY <1>5, <1>6, <2>2
  <2>6. Min(at) = i
    <3>1. {i} \in SUBSET Nat
      BY <1>6
    <3> QED BY <2>5, <3>1, LeastOf
  <2>7. new = <<Route(d, 0)>>
    BY <1>4, <2>4, <2>5, <2>6
  <2>8. Sound(graph, a, d, new)
    <3>1. Route(d, 0) \in [next_dev : Cubes, hops : Int] /\ Route(d, 0).next_dev = d
          /\ Route(d, 0).hops = 0
      BY DEF Route
    <3>2. new \in Lists /\ Len(new) = 1 /\ new[1] = Route(d, 0)
      BY <2>7, <3>1 DEF Lists
    <3> QED BY <1>7, <2>1, <3>1, <3>2 DEF Sound
  <2> QED BY <1>7, <2>7, <2>8 DEF Shortest
<1>8. ASSUME d \notin Neighbours(graph, a)
      PROVE  Sound(graph, a, d, new) /\ Shortest(graph, a, d, new)
  <2> DEFINE gateways == {g \in Neighbours(graph, a) : Far(g) # {}}
             f == [i \in 1 .. Len(S) |-> S[i].next_dev]
  <2>1. new = S
    BY <1>4, <1>5, <1>6, <1>8
  <2>2. \A g : Far(g) \in SUBSET Nat /\ \A m \in Nat :
                 m \in Far(g) <=> m <= N /\ d \in Around(graph, a, g)[m]
    BY <1>3 DEF Distances
  <2> HIDE DEF Far
  <2>3. ASSUME NEW i \in 1 .. Len(S)
        PROVE  /\ S[i].next_dev \in gateways
               /\ S[i] = Route(S[i].next_dev, Min(Far(S[i].next_dev)))
    <3> DEFINE g == S[i].next_dev
               h == S[i].hops
               m == Min(Far(g))
    <3>1. g \in Neighbours(graph, a) /\ g \in Cubes /\ h \in Nat /\ d \in Around(graph, a, g)[h]
      BY <1>5 DEF Neighbours
    <3>2. S[i] = Route(g, h)
      BY <1>6, <3>1 DEF Route
    <3> HIDE DEF g, h
    <3>3. d \in Around(graph, a, g)[N]
      BY <3>1, AroundBounded
    <3>4. Far(g) # {}
      BY <1>3, <2>2, <3>3
    <3>5. m \in Far(g) /\ \A y \in Far(g) : m <= y
      BY <2>2, <3>4, LeastOf
    <3> HIDE DEF m
    <3>6. m \in Nat /\ m <= N /\ d \in Around(graph, a, g)[m]
      BY <2>2, <3>5
    <3>7. PICK j \in 1 .. Len(S) : S[j].next_dev = g /\ S[j].hops <= m
      BY <1>2, <3>1, <3>6 DEF Covers
    <3>8. j = i
      BY <1>5, <3>7 DEF g
    <3>9. h <= m
      BY <3>7, <3>8 DEF h
    <3>10. h \in Far(g)
      BY <1>3, <2>2, <3>1, <3>6, <3>9
    <3>11. h = m
      BY <3>1, <3>5, <3>6, <3>9, <3>10
    <3>12. g \in gateways /\ S[i] = Route(g, m)
      BY <3>1, <3>2, <3>4, <3>11
    <3> QED BY <3>12 DEF g, m
  <2>4. ASSUME NEW g \in gateways PROVE \E i \in 1 .. Len(S) : S[i].next_dev = g
    <3>1. PICK m \in Far(g) : TRUE
      OBVIOUS
    <3>2. m \in Nat /\ m <= N /\ d \in Around(graph, a, g)[m]
      BY <2>2
    <3> QED BY <1>2, <3>2 DEF Covers
  <2> HIDE DEF gateways
  <2>5. Len(S) = Cardinality(gateways)
    <3>1. f \in [1 .. Len(S) -> gateways]
      BY <2>3
    <3>2. \A x, y \in 1 .. Len(S) : f[x] = f[y] => x = y
      BY <1>5
    <3>3. \A g \in gateways : \E x \in 1 .. Len(S) : f[x] = g
      BY <2>4
    <3>4. f \in Bijection(1 .. Len(S), gateways)
      <4> HIDE DEF f
      <4> QED BY <3>1, <3>2, <3>3 DEF Bijection, Injection, Surjection, IsInjective
    <3>5. ExistsBijection(1 .. Len(S), gateways)
      BY <3>4 DEF ExistsBijection
    <3>6. IsFiniteSet(1 .. Len(S)) /\ Cardinality(1 .. Len(S)) = Len(S)
      BY <1>6, FS_Interval
    <3> QED BY <3>5, <3>6, FS_Bijection
  <2>6. Range(S) = {Route(g, Min(Far(g))) : g \in gateways}
    <3>1. ASSUME NEW i \in 1 .. Len(S) PROVE \E g \in gateways : S[i] = Route(g, Min(Far(g)))
      BY <2>3
    <3>2. ASSUME NEW g \in gateways PROVE \E i \in 1 .. Len(S) : S[i] = Route(g, Min(Far(g)))
      BY <2>3, <2>4
    <3>3. Range(S) = {S[i] : i \in 1 .. Len(S)}
      BY <1>6 DEF Range
    <3> QED BY <3>1, <3>2, <3>3
  <2>7. Shortest(graph, a, d, S)
    BY <1>8, <2>5, <2>6 DEF Shortest, gateways, Far
  <2> QED BY <1>1, <2>1, <2>7
<1>9. Sound(graph, a, d, new) /\ Shortest(graph, a, d, new)
  BY <1>7, <1>8
<1> QED BY <1>9 DEF new, S

\* A list that has a first route keeps its gateway, unless the direct route
\* takes its place.
HeadKept(list, new, d) ==
  list # <<>> =>
    new # <<>> /\ (new[1].next_dev = list[1].next_dev \/ new[1].next_dev = d)

LEMMA DirectKeeps ==
  ASSUME NEW list \in Lists, NEW d \in Cubes
  PROVE  /\ Direct(list, d) \in Lists
         /\ HeadKept(list, Direct(list, d), d)
<1> DEFINE at == {i \in DOMAIN list : list[i].next_dev = d}
           new == Direct(list, d)
           m == Min(at)
<1>1. Len(list) \in Nat /\ DOMAIN list = 1 .. Len(list)
      /\ \A i \in 1 .. Len(list) : list[i] \in [next_dev : Cubes, hops : Int]
  BY ListFacts
<1>2. new = IF at = {} THEN list ELSE <<list[m]>>
  BY DEF Direct
<1>3. CASE at = {}
  BY <1>2, <1>3 DEF HeadKept
<1>4. CASE at # {}
  <2>1. at \in SUBSET Nat
    BY <1>1
  <2>2. m \in at
    BY <1>4, <2>1, LeastOf
  <2> HIDE DEF m
  <2>3. m \in 1 .. Len(list) /\ list[m].next_dev = d
        /\ list[m] \in [next_dev : Cubes, hops : Int]
    BY <1>1, <2>2
  <2>4. new = <<list[m]>>
    BY <1>2, <1>4, Zenon
  <2> HIDE DEF new
  <2>5. new \in Lists /\ new[1] = list[m] /\ new # <<>>
    BY <2>3, <2>4 DEF Lists
  <2>6. new \in Lists /\ HeadKept(list, new, d)
    BY <2>3, <2>5 DEF HeadKept
  <2> QED BY <2>6 DEF new
<1> QED BY <1>3, <1>4

LEMMA UpdateKeeps ==
  ASSUME NEW graph \in LinkGraphs, NEW a \in Cubes, NEW d \in Cubes \ {a}, NEW list,
         Sound(graph, a, d, list)
  PROVE  HeadKept(list, Direct(Searched(graph, a, d, list), d), d)
<1> DEFINE S == Searched(graph, a, d, list)
           new == Direct(S, d)
<1>1. Grown(list, S) /\ S \in Lists /\ list \in Lists
  BY SearchedSound DEF Sound
<1>2. HeadKept(S, new, d)
  BY <1>1, DirectKeeps
<1> HIDE DEF S, new
<1>3. list # <<>> => S # <<>> /\ S[1].next_dev = list[1].next_dev
  <2>1. ASSUME list # <<>> PROVE S # <<>> /\ S[1].next_dev = list[1].next_dev
    <3>1. 1 \in 1 .. Len(list) /\ Len(list) \in Nat /\ Len(S) \in Nat
      BY <1>1, <2>1, EmptySeq, ListFacts DEF Lists
    <3>2. Len(S) # 0
      BY <1>1, <3>1 DEF Grown
    <3> QED BY <1>1, <3>1, <3>2, EmptySeq DEF Grown
  <2> QED BY <2>1
<1>4. HeadKept(list, new, d)
  BY <1>2, <1>3 DEF HeadKept
<1> QED BY <1>4 DEF S, new

-----------------------------------------------------------------------------
(* What holds whatever has been connected. *)

Ends ==
  {Nobody, Lost} \union {Port(c, l) : c \in Cubes, l \in LinkIds}
    \union {Host(s) : s \in Slids}

RouteTypeOK ==
  /\ links \in LinkGraphs
  /\ tbl \in [Cubes -> [Cubes -> Lists]]
  /\ wired \in [Cubes \X LinkIds -> Ends]
  /\ slids \in SUBSET Slids
  /\ slidToCube \in [Slids -> {Nobody} \union (Cubes \X LinkIds)]

RoutesSound ==
  \A a \in Cubes : \A d \in Cubes \ {a} : Sound(links, a, d, tbl[a][d])

\* A link that is in the graph has been made, so its place is taken.
LinksBound ==
  \A a, b \in Cubes : \A l \in links[a][b] : wired[<<a, l>>] # Nobody

\* A bound host is defined, and routed to where it is bound.
HostsSettled ==
  \A c \in Cubes, l \in LinkIds, s \in Slids :
    wired[<<c, l>>] = Host(s) => s \in slids /\ slidToCube[s] = <<c, l>>

RouteInv ==
  /\ RouteTypeOK
  /\ Symmetric(links)
  /\ RoutesSound
  /\ RoutesShortest
  /\ LinksBound
  /\ HostsSettled

LEMMA RouteInit == Init => RouteInv
<1> SUFFICES ASSUME Init PROVE RouteInv
  OBVIOUS
<1>1. /\ links = [a \in Cubes |-> [b \in Cubes |-> {}]]
      /\ tbl = [a \in Cubes |-> [d \in Cubes |-> <<>>]]
      /\ wired = [p \in Cubes \X LinkIds |-> Nobody]
      /\ slids = {}
      /\ slidToCube = [s \in Slids |-> Nobody]
  BY DEF Init
<1>2. <<>> \in Lists /\ Len(<<>>) = 0 /\ Range(<<>>) = {}
  BY DEF Lists, Range
<1>3. RouteTypeOK
  BY <1>1, <1>2 DEF RouteTypeOK, LinkGraphs, Ends
<1>4. Symmetric(links)
  BY <1>1 DEF Symmetric
<1>5. \A a \in Cubes : Neighbours(links, a) = {}
  BY <1>1 DEF Neighbours
<1>6. \A a, d \in Cubes : tbl[a][d] = <<>>
  BY <1>1
<1>7. RoutesSound
  BY <1>2, <1>6 DEF RoutesSound, Sound
<1>8. RoutesShortest
  <2>1. Cardinality({}) = 0
    BY FS_EmptySet
  <2>2. ASSUME NEW a \in Cubes, NEW d \in Cubes \ {a} PROVE Shortest(links, a, d, <<>>)
    <3>1. {g \in Neighbours(links, a) : Distances(links, a, g, d) # {}} = {}
      BY <1>5
    <3> QED BY <1>2, <1>5, <2>1, <3>1 DEF Shortest
  <2> QED BY <1>6, <2>2 DEF RoutesShortest
<1>9. LinksBound
  BY <1>1 DEF LinksBound
<1>10. HostsSettled
  BY <1>1 DEF HostsSettled, Nobody, Host
<1> QED BY <1>3, <1>4, <1>7, <1>8, <1>9, <1>10 DEF RouteInv

Wirings == [Cubes \X LinkIds -> Ends]

\* What is bound stays bound.
WiredKept(w, new) == \A p \in Cubes \X LinkIds : w[p] # Nobody => new[p] = w[p]

\* What binding one end does.
BoundTo(w, new, p, end) ==
  /\ new \in Wirings
  /\ WiredKept(w, new)
  /\ new[p] # Nobody
  /\ \A q \in Cubes \X LinkIds : new[q] = w[q] \/ (q = p /\ new[q] = end)

LEMMA BoundEffect ==
  ASSUME NEW w \in Wirings, NEW c \in Cubes, NEW l \in LinkIds, NEW end \in Ends, end # Nobody
  PROVE  BoundTo(w, Bound(w, c, l, end), <<c, l>>, end)
BY DEF Bound, BoundTo, WiredKept, Wirings

LEMMA EndKinds ==
  /\ Nobody \in Ends /\ Lost \in Ends
  /\ Nobody # Lost /\ Lost[1] # "cube" /\ Nobody[1] # "cube"
  /\ \A c, l : Port(c, l) # Nobody /\ Port(c, l)[1] = "cube" /\ Port(c, l)[2] = c
               /\ Port(c, l)[3] = l
  /\ \A s : Host(s) # Nobody /\ Host(s) # Lost /\ Host(s)[1] = "slid" /\ Host(s)[2] = s
  /\ \A c, l, s : Port(c, l) # Host(s)
  /\ \A c \in Cubes, l \in LinkIds : Port(c, l) \in Ends
  /\ \A s \in Slids : Host(s) \in Ends
BY DEF Nobody, Lost, Port, Host, Ends

\* The graph after a connection.
Joins(graph, new, a, la, b, lb) ==
  /\ new \in LinkGraphs
  /\ \A x, y \in Cubes :
       new[x][y] = graph[x][y] \union (IF x = a /\ y = b THEN {la} ELSE {})
                               \union (IF x = b /\ y = a THEN {lb} ELSE {})

LEMMA JoinEffect ==
  ASSUME NEW graph \in LinkGraphs, NEW a \in Cubes, NEW b \in Cubes,
         NEW la \in LinkIds, NEW lb \in LinkIds
  PROVE  Joins(graph, [[graph EXCEPT ![a][b] = @ \union {la}] EXCEPT ![b][a] = @ \union {lb}],
               a, la, b, lb)
<1> DEFINE g1 == [graph EXCEPT ![a][b] = @ \union {la}]
           g2 == [g1 EXCEPT ![b][a] = @ \union {lb}]
<1>1. g1 \in LinkGraphs /\ \A x, y \in Cubes :
        g1[x][y] = graph[x][y] \union (IF x = a /\ y = b THEN {la} ELSE {})
  BY DEF LinkGraphs
<1> HIDE DEF g1
<1>2. g2 \in LinkGraphs /\ \A x, y \in Cubes :
        g2[x][y] = g1[x][y] \union (IF x = b /\ y = a THEN {lb} ELSE {})
  BY <1>1 DEF LinkGraphs
<1> HIDE DEF g2
<1>3. Joins(graph, g2, a, la, b, lb)
  BY <1>1, <1>2 DEF Joins
<1> QED BY <1>3 DEF g1, g2

\* What a connection does to what is wired.
LEMMA ConnectedEffect ==
  ASSUME RouteTypeOK, NEW a \in Cubes, NEW b \in Cubes, NEW la \in LinkIds, NEW lb \in LinkIds
  PROVE  /\ Connected(a, la, b, lb) \in Wirings
         /\ WiredKept(wired, Connected(a, la, b, lb))
         /\ Connected(a, la, b, lb)[<<a, la>>] # Nobody
         /\ Connected(a, la, b, lb)[<<b, lb>>] # Nobody
         /\ \A q \in Cubes \X LinkIds, s \in Slids :
              Connected(a, la, b, lb)[q] = Host(s) => wired[q] = Host(s)
<1> DEFINE near == IF Free(b, lb) /\ <<a, la>> # <<b, lb>> THEN Port(b, lb) ELSE Lost
           far  == IF Free(a, la) THEN Port(a, la) ELSE Lost
           w1 == Bound(wired, a, la, near)
           w2 == Bound(w1, b, lb, far)
<1>1. near \in Ends /\ near # Nobody /\ \A s \in Slids : near # Host(s)
  BY EndKinds
<1>2. far \in Ends /\ far # Nobody /\ \A s \in Slids : far # Host(s)
  BY EndKinds
<1>3. Connected(a, la, b, lb) = w2
  BY DEF Connected
<1>4. wired \in Wirings
  BY DEF RouteTypeOK, Wirings
<1> HIDE DEF near, far
<1>5. BoundTo(wired, w1, <<a, la>>, near)
  BY <1>1, <1>4, BoundEffect
<1> HIDE DEF w1
<1>6. BoundTo(w1, w2, <<b, lb>>, far)
  BY <1>2, <1>5, BoundEffect DEF BoundTo
<1> HIDE DEF w2
<1>7. <<a, la>> \in Cubes \X LinkIds /\ <<b, lb>> \in Cubes \X LinkIds
  OBVIOUS
<1>8. w2 \in Wirings /\ WiredKept(wired, w2) /\ w2[<<a, la>>] # Nobody /\ w2[<<b, lb>>] # Nobody
  BY <1>5, <1>6, <1>7 DEF BoundTo, WiredKept
<1>9. ASSUME NEW q \in Cubes \X LinkIds, NEW s \in Slids, w2[q] = Host(s)
      PROVE  wired[q] = Host(s)
  <2>1. w1[q] = Host(s)
    BY <1>2, <1>6, <1>9 DEF BoundTo
  <2> QED BY <1>1, <1>5, <2>1 DEF BoundTo
<1> QED BY <1>3, <1>8, <1>9

\* What every step does besides keeping the invariant: no connection and no
\* binding goes, and a table keeps its first gateway or takes the direct route.
Progresses(old, new, oldTbl, newTbl, w, newW) ==
  /\ Within(old, new)
  /\ WiredKept(w, newW)
  /\ \A a \in Cubes : \A d \in Cubes \ {a} : HeadKept(oldTbl[a][d], newTbl[a][d], d)

LEMMA UpdatedEffect ==
  ASSUME NEW graph \in LinkGraphs, NEW new \in LinkGraphs, Within(graph, new), Symmetric(new),
         NEW old \in [Cubes -> [Cubes -> Lists]],
         \A a \in Cubes : \A d \in Cubes \ {a} : Sound(graph, a, d, old[a][d])
  PROVE  /\ Updated(new, old) \in [Cubes -> [Cubes -> Lists]]
         /\ \A a \in Cubes : \A d \in Cubes \ {a} :
              /\ Sound(new, a, d, Updated(new, old)[a][d])
              /\ Shortest(new, a, d, Updated(new, old)[a][d])
              /\ HeadKept(old[a][d], Updated(new, old)[a][d], d)
<1> DEFINE U == Updated(new, old)
<1>1. U = [a \in Cubes |-> [d \in Cubes |-> U[a][d]]]
      /\ \A a, d \in Cubes :
           U[a][d] = Direct(IF a = d THEN old[a][d] ELSE Searched(new, a, d, old[a][d]), d)
  BY DEF Updated
<1> HIDE DEF U
<1>2. ASSUME NEW a \in Cubes, NEW d \in Cubes \ {a}
      PROVE  /\ Sound(new, a, d, U[a][d])
             /\ Shortest(new, a, d, U[a][d])
             /\ HeadKept(old[a][d], U[a][d], d)
  <2> DEFINE list == old[a][d]
  <2>1. Sound(graph, a, d, list)
    OBVIOUS
  <2>2. U[a][d] = Direct(Searched(new, a, d, list), d)
    BY <1>1
  <2> HIDE DEF list
  <2>3. Sound(new, a, d, list)
    <3>1. ASSUME NEW i \in 1 .. Len(list)
          PROVE  /\ list[i].next_dev \in Neighbours(new, a)
                 /\ d \in Around(new, a, list[i].next_dev)[list[i].hops]
      <4>1. list[i].next_dev \in Neighbours(graph, a) /\ list[i].hops \in Nat
            /\ d \in Around(graph, a, list[i].next_dev)[list[i].hops]
        BY <2>1 DEF Sound
      <4>2. list[i].next_dev \in Neighbours(new, a) /\ list[i].next_dev \in Cubes
        BY <4>1 DEF Neighbours, Within
      <4>3. Around(graph, a, list[i].next_dev)[list[i].hops]
              \subseteq Around(new, a, list[i].next_dev)[list[i].hops]
        BY <4>1, <4>2, AroundMonotone
      <4> QED BY <4>1, <4>2, <4>3
    <3> QED BY <2>1, <3>1 DEF Sound
  <2>4. Sound(new, a, d, U[a][d]) /\ Shortest(new, a, d, U[a][d])
    BY <2>2, <2>3, TableShortest
  <2>5. HeadKept(list, U[a][d], d)
    BY <2>2, <2>3, UpdateKeeps
  <2> QED BY <2>4, <2>5 DEF list
<1>3. ASSUME NEW a \in Cubes, NEW d \in Cubes PROVE U[a][d] \in Lists
  <2>1. CASE a = d
    <3>1. U[a][d] = Direct(old[a][d], d) /\ old[a][d] \in Lists
      BY <1>1, <2>1
    <3> QED BY <3>1, DirectKeeps
  <2>2. CASE a # d
    BY <1>2, <2>2 DEF Sound
  <2> QED BY <2>1, <2>2
<1>4. U \in [Cubes -> [Cubes -> Lists]]
  BY <1>1, <1>3
<1> QED BY <1>2, <1>4 DEF U

LEMMA SetLinkConfigKeeps ==
  ASSUME RouteInv, NEW a \in Cubes, NEW la \in LinkIds, NEW b \in Cubes, NEW lb \in LinkIds,
         SetLinkConfig(a, la, b, lb)
  PROVE  RouteInv' /\ Progresses(links, links', tbl, tbl', wired, wired')
<1>1. /\ wired' = Connected(a, la, b, lb)
      /\ links' = [[links EXCEPT ![a][b] = @ \union {la}] EXCEPT ![b][a] = @ \union {lb}]
      /\ tbl' = Updated(links', tbl)
      /\ slids' = slids /\ slidToCube' = slidToCube
  BY DEF SetLinkConfig
<1>2. RouteTypeOK /\ Symmetric(links) /\ RoutesSound /\ LinksBound /\ HostsSettled
  BY DEF RouteInv
<1>3. links \in LinkGraphs /\ tbl \in [Cubes -> [Cubes -> Lists]] /\ slids \in SUBSET Slids
      /\ slidToCube \in [Slids -> {Nobody} \union (Cubes \X LinkIds)]
  BY <1>2 DEF RouteTypeOK
<1>4. Joins(links, links', a, la, b, lb)
  BY <1>1, <1>3, JoinEffect
<1>5. links' \in LinkGraphs /\ \A x, y \in Cubes :
        links'[x][y] = links[x][y] \union (IF x = a /\ y = b THEN {la} ELSE {})
                                   \union (IF x = b /\ y = a THEN {lb} ELSE {})
  BY <1>4 DEF Joins
<1>6. Within(links, links')
  BY <1>5 DEF Within
<1>7. Symmetric(links')
  <2>1. ASSUME NEW x \in Cubes, NEW y \in Cubes, links'[x][y] # {} PROVE links'[y][x] # {}
    <3>1. CASE x = a /\ y = b
      BY <1>5, <3>1
    <3>2. CASE x = b /\ y = a
      BY <1>5, <3>2
    <3>3. CASE ~(x = a /\ y = b) /\ ~(x = b /\ y = a)
      <4>1. \E l \in LinkIds : l \in links'[x][y]
        BY <1>5, <2>1 DEF LinkGraphs
      <4>2. links[x][y] # {}
        BY <1>5, <3>3, <4>1
      <4>3. links[y][x] # {}
        BY <1>2, <4>2 DEF Symmetric
      <4>4. links[y][x] \subseteq links'[y][x]
        BY <1>5
      <4> QED BY <4>3, <4>4
    <3> QED BY <3>1, <3>2, <3>3
  <2> QED BY <2>1 DEF Symmetric
<1>8. /\ wired' \in Wirings /\ WiredKept(wired, wired')
      /\ wired'[<<a, la>>] # Nobody /\ wired'[<<b, lb>>] # Nobody
      /\ \A q \in Cubes \X LinkIds, s \in Slids : wired'[q] = Host(s) => wired[q] = Host(s)
  BY <1>1, <1>2, ConnectedEffect
<1>9. /\ tbl' \in [Cubes -> [Cubes -> Lists]]
      /\ \A x \in Cubes : \A d \in Cubes \ {x} :
           /\ Sound(links', x, d, tbl'[x][d])
           /\ Shortest(links', x, d, tbl'[x][d])
           /\ HeadKept(tbl[x][d], tbl'[x][d], d)
  <2>1. \A x \in Cubes : \A d \in Cubes \ {x} : Sound(links, x, d, tbl[x][d])
    BY <1>2 DEF RoutesSound
  <2> DEFINE g1 == links
             g2 == links'
             t == tbl
  <2>2. g1 \in LinkGraphs /\ g2 \in LinkGraphs /\ Within(g1, g2) /\ Symmetric(g2)
        /\ t \in [Cubes -> [Cubes -> Lists]] /\ tbl' = Updated(g2, t)
        /\ \A x \in Cubes : \A d \in Cubes \ {x} : Sound(g1, x, d, t[x][d])
    BY <1>1, <1>3, <1>5, <1>6, <1>7, <2>1
  <2>3. /\ tbl' \in [Cubes -> [Cubes -> Lists]]
        /\ \A x \in Cubes : \A d \in Cubes \ {x} :
             /\ Sound(g2, x, d, tbl'[x][d])
             /\ Shortest(g2, x, d, tbl'[x][d])
             /\ HeadKept(t[x][d], tbl'[x][d], d)
    <3> HIDE DEF g1, g2, t
    <3> QED BY <2>2, UpdatedEffect
  <2> QED BY <2>3
<1>10. RouteTypeOK'
  BY <1>1, <1>3, <1>5, <1>8, <1>9 DEF RouteTypeOK, Wirings
<1>11. RoutesSound' /\ RoutesShortest'
  BY <1>9 DEF RoutesSound, RoutesShortest
<1>12. LinksBound'
  <2>1. ASSUME NEW x \in Cubes, NEW y \in Cubes, NEW l \in links'[x][y]
        PROVE  wired'[<<x, l>>] # Nobody
    <3>1. CASE l \in links[x][y]
      <4>1. l \in LinkIds /\ wired[<<x, l>>] # Nobody
        BY <1>2, <1>3, <3>1 DEF LinksBound, LinkGraphs
      <4> QED BY <1>8, <4>1 DEF WiredKept
    <3>2. CASE l \notin links[x][y]
      <4>1. <<x, l>> = <<a, la>> \/ <<x, l>> = <<b, lb>>
        BY <1>5, <3>2
      <4> QED BY <1>8, <4>1
    <3> QED BY <3>1, <3>2
  <2> QED BY <2>1 DEF LinksBound
<1>13. HostsSettled'
  BY <1>1, <1>2, <1>8 DEF HostsSettled
<1>14. Progresses(links, links', tbl, tbl', wired, wired')
  BY <1>6, <1>8, <1>9 DEF Progresses
<1> QED BY <1>7, <1>10, <1>11, <1>12, <1>13, <1>14 DEF RouteInv

LEMMA SameProgresses ==
  ASSUME NEW graph, NEW t \in [Cubes -> [Cubes -> Lists]], NEW w, NEW new, WiredKept(w, new)
  PROVE  Progresses(graph, graph, t, t, w, new)
BY DEF Progresses, Within, HeadKept

LEMMA DefineSlidKeeps ==
  ASSUME RouteInv, NEW s \in Slids, NEW c \in Cubes, NEW l \in LinkIds, DefineSlid(s, c, l)
  PROVE  RouteInv' /\ Progresses(links, links', tbl, tbl', wired, wired')
<1>1. /\ s \notin slids
      /\ slids' = slids \union {s}
      /\ wired' = Bound(wired, c, l, Host(s))
      /\ slidToCube' = [slidToCube EXCEPT ![s] = <<c, l>>]
      /\ links' = links /\ tbl' = tbl
  BY DEF DefineSlid
<1>2. RouteTypeOK /\ Symmetric(links) /\ RoutesSound /\ RoutesShortest /\ LinksBound /\ HostsSettled
  BY DEF RouteInv
<1>3. wired \in Wirings /\ slidToCube \in [Slids -> {Nobody} \union (Cubes \X LinkIds)]
      /\ links \in LinkGraphs /\ tbl \in [Cubes -> [Cubes -> Lists]]
  BY <1>2 DEF RouteTypeOK, Wirings
<1>4. BoundTo(wired, wired', <<c, l>>, Host(s))
  BY <1>1, <1>3, BoundEffect, EndKinds
<1>5. wired' \in Wirings /\ WiredKept(wired, wired')
      /\ \A q \in Cubes \X LinkIds :
           wired'[q] = wired[q] \/ (q = <<c, l>> /\ wired'[q] = Host(s))
  BY <1>4 DEF BoundTo
<1>6. RouteTypeOK'
  BY <1>1, <1>2, <1>3, <1>5 DEF RouteTypeOK, Wirings
<1>7. Symmetric(links)' /\ RoutesSound' /\ RoutesShortest'
  BY <1>1, <1>2 DEF RoutesSound, RoutesShortest
<1>8. LinksBound'
  <2>1. ASSUME NEW x \in Cubes, NEW y \in Cubes, NEW k \in links[x][y]
        PROVE  wired'[<<x, k>>] # Nobody
    <3>1. k \in LinkIds /\ wired[<<x, k>>] # Nobody
      BY <1>2, <1>3 DEF LinksBound, LinkGraphs
    <3> QED BY <1>5, <3>1 DEF WiredKept
  <2> QED BY <1>1, <2>1 DEF LinksBound
<1>9. HostsSettled'
  <2>1. ASSUME NEW x \in Cubes, NEW k \in LinkIds, NEW h \in Slids, wired'[<<x, k>>] = Host(h)
        PROVE  h \in slids' /\ slidToCube'[h] = <<x, k>>
    <3>1. CASE wired[<<x, k>>] = Host(h)
      <4>1. h \in slids /\ slidToCube[h] = <<x, k>>
        BY <1>2, <3>1 DEF HostsSettled
      <4>2. h # s
        BY <1>1, <4>1
      <4> QED BY <1>1, <1>3, <4>1, <4>2
    <3>2. CASE wired[<<x, k>>] # Host(h)
      <4>1. <<x, k>> = <<c, l>> /\ wired'[<<x, k>>] = Host(s)
        BY <1>5, <2>1, <3>2
      <4>2. h = s
        BY <2>1, <4>1, EndKinds
      <4> QED BY <1>1, <1>3, <4>1, <4>2
    <3> QED BY <3>1, <3>2
  <2> QED BY <2>1 DEF HostsSettled
<1>10. Progresses(links, links', tbl, tbl', wired, wired')
  BY <1>1, <1>3, <1>5, SameProgresses
<1> QED BY <1>1, <1>6, <1>7, <1>8, <1>9, <1>10 DEF RouteInv

LEMMA RouteNext ==
  ASSUME RouteInv, [Next]_vars
  PROVE  RouteInv' /\ Progresses(links, links', tbl, tbl', wired, wired')
<1>1. ASSUME NEW f \in Configs, SetLinkConfig(f[1], f[2], f[3], f[4])
      PROVE  RouteInv' /\ Progresses(links, links', tbl, tbl', wired, wired')
  <2>1. f[1] \in Cubes /\ f[2] \in LinkIds /\ f[3] \in Cubes /\ f[4] \in LinkIds
    BY RouteAssumption
  <2> QED BY <1>1, <2>1, SetLinkConfigKeeps
<1>2. ASSUME NEW h \in Hosts, DefineSlid(h[1], h[2], h[3])
      PROVE  RouteInv' /\ Progresses(links, links', tbl, tbl', wired, wired')
  <2>1. h[1] \in Slids /\ h[2] \in Cubes /\ h[3] \in LinkIds
    BY RouteAssumption
  <2> QED BY <1>2, <2>1, DefineSlidKeeps
<1>3. CASE UNCHANGED vars
  <2>1. /\ links' = links /\ tbl' = tbl /\ wired' = wired /\ slids' = slids
        /\ slidToCube' = slidToCube
    BY <1>3 DEF vars
  <2>2. RouteInv'
    BY <2>1 DEF RouteInv, RouteTypeOK, RoutesSound, RoutesShortest, LinksBound, HostsSettled
  <2>3. tbl \in [Cubes -> [Cubes -> Lists]] /\ WiredKept(wired, wired)
    BY DEF RouteInv, RouteTypeOK, WiredKept
  <2>4. Progresses(links, links, tbl, tbl, wired, wired)
    BY <2>3, SameProgresses
  <2> QED BY <2>1, <2>2, <2>4
<1> QED BY <1>1, <1>2, <1>3 DEF Next

LEMMA RouteInvariant == Spec => []RouteInv
<1>1. RouteInv /\ [Next]_vars => RouteInv'
  BY RouteNext
<1> QED BY <1>1, RouteInit, PTL DEF Spec

-----------------------------------------------------------------------------
(* What follows from the invariant. *)

\* Whatever is connected, and in whatever order, every table holds the shortest
\* way by every neighbour that leads to the destination without coming back
\* (hmc_graph_search, repeated on top of the lists it has left).
THEOREM RouteShortest == Spec => []RoutesShortest
<1>1. RouteInv => RoutesShortest
  BY DEF RouteInv
<1> QED BY <1>1, RouteInvariant, PTL

-----------------------------------------------------------------------------
(* The way of a packet. *)

\* Every link in the graph is bound to the cube it should lead to.
EndsRight ==
  \A a, b \in Cubes : \A l \in links[a][b] :
    \E k \in LinkIds : wired[<<a, l>>] = Port(b, k)

LEMMA WiredRight == RouteInv /\ AllWired => EndsRight
<1> SUFFICES ASSUME RouteInv, AllWired, NEW x \in Cubes, NEW y \in Cubes, NEW l \in links[x][y]
             PROVE  \E k \in LinkIds : wired[<<x, l>>] = Port(y, k)
  BY DEF EndsRight
<1>1. PICK k \in links[y][x] : wired[<<x, l>>] = Port(y, k)
  BY Zenon DEF AllWired
<1>2. k \in LinkIds
  BY DEF RouteInv, RouteTypeOK, LinkGraphs
<1> QED BY <1>1, <1>2

\* By the table t a packet for d goes to the gateway of the first route.
Gateways(t, d) ==
  [c \in Cubes |-> IF t[c][d] = <<>> THEN -1 ELSE t[c][d][1].next_dev]

LEMMA FirstLink ==
  RouteInv => \A a \in Cubes : \A d \in Cubes \ {a} :
    tbl[a][d] # <<>> =>
      /\ tbl[a][d][1].next_dev \in Cubes
      /\ ExtLink(a, d) \in links[a][tbl[a][d][1].next_dev]
      /\ ExtLink(a, d) \in LinkIds
<1> SUFFICES ASSUME RouteInv, NEW a \in Cubes, NEW d \in Cubes \ {a}, tbl[a][d] # <<>>
             PROVE  /\ tbl[a][d][1].next_dev \in Cubes
                    /\ ExtLink(a, d) \in links[a][tbl[a][d][1].next_dev]
                    /\ ExtLink(a, d) \in LinkIds
  OBVIOUS
<1> DEFINE list == tbl[a][d]
           g == list[1].next_dev
           S == links[a][g]
<1>1. Sound(links, a, d, list) /\ links \in LinkGraphs
  BY DEF RouteInv, RoutesSound, RouteTypeOK
<1>2. list \in Lists /\ list # <<>>
  BY <1>1 DEF Sound
<1>3. ExtLink(a, d) = Min(links[a][Head(list).next_dev])
  BY DEF ExtLink, ExtLinks
<1> HIDE DEF list
<1>4. Head(list) = list[1] /\ 1 \in 1 .. Len(list)
  BY <1>2, EmptySeq, HeadTailProperties DEF Lists
<1>5. g \in Neighbours(links, a)
  BY <1>1, <1>4 DEF Sound
<1>6. g \in Cubes /\ S # {} /\ S \in SUBSET LinkIds /\ S \in SUBSET Nat
  BY <1>1, <1>5, RouteAssumption DEF Neighbours, LinkGraphs
<1>7. Min(S) \in S
  BY <1>6, LeastOf
<1>8. ExtLink(a, d) \in S
  BY <1>3, <1>4, <1>7
<1>9. g \in Cubes /\ ExtLink(a, d) \in S /\ ExtLink(a, d) \in LinkIds
  BY <1>6, <1>8
<1> QED BY <1>9 DEF list

\* A packet is lost or goes to a cube.
LEMMA NextCubeType ==
  RouteInv => \A a \in Cubes : \A d \in Cubes \ {a} : NextCube(a, d) \in Cubes \union {-1}
<1> SUFFICES ASSUME RouteInv, NEW a \in Cubes, NEW d \in Cubes \ {a}
             PROVE  NextCube(a, d) \in Cubes \union {-1}
  OBVIOUS
<1> DEFINE end == IF tbl[a][d] = <<>> THEN Nobody ELSE wired[<<a, ExtLink(a, d)>>]
<1>1. NextCube(a, d) = IF end[1] = "cube" THEN end[2] ELSE -1
  BY DEF NextCube
<1>2. end \in Ends
  <2>1. CASE tbl[a][d] = <<>>
    BY <2>1, EndKinds
  <2>2. CASE tbl[a][d] # <<>>
    <3>1. ExtLink(a, d) \in LinkIds
      BY <2>2, FirstLink
    <3>2. wired[<<a, ExtLink(a, d)>>] \in Ends
      BY <3>1 DEF RouteInv, RouteTypeOK
    <3> QED BY <2>2, <3>2
  <2> QED BY <2>1, <2>2
<1> HIDE DEF end
<1>3. end[1] = "cube" => end[2] \in Cubes
  <2>1. CASE end \in {Nobody, Lost}
    BY <2>1, EndKinds
  <2>2. CASE \E c \in Cubes, l \in LinkIds : end = Port(c, l)
    BY <2>2, EndKinds
  <2>3. CASE \E s \in Slids : end = Host(s)
    <3>1. end[1] = "slid"
      BY <2>3, EndKinds
    <3> QED BY <3>1
  <2> QED BY <1>2, <2>1, <2>2, <2>3 DEF Ends
<1> QED BY <1>1, <1>3

\* Where the links are bound as they should, a packet goes to the gateway.
LEMMA NextCubeGateway ==
  ASSUME RouteInv, EndsRight, NEW a \in Cubes, NEW d \in Cubes \ {a}
  PROVE  NextCube(a, d) = Gateways(tbl, d)[a]
<1>1. CASE tbl[a][d] = <<>>
  BY <1>1, EndKinds DEF NextCube, Gateways
<1>2. CASE tbl[a][d] # <<>>
  <2> DEFINE g == tbl[a][d][1].next_dev
             l == ExtLink(a, d)
  <2>1. g \in Cubes /\ l \in links[a][g]
    BY <1>2, FirstLink
  <2>2. PICK k \in LinkIds : wired[<<a, l>>] = Port(g, k)
    BY <2>1 DEF EndsRight
  <2>3. wired[<<a, l>>][1] = "cube" /\ wired[<<a, l>>][2] = g
    BY <2>2, EndKinds
  <2> QED BY <1>2, <2>3 DEF NextCube, Gateways
<1> QED BY <1>1, <1>2

\* A packet that is neither at d nor lost goes where next says.
IsWay(way, a, d, next) ==
  /\ way[0] = a
  /\ \A n \in Nat :
       /\ way[n] \in Cubes \union {-1}
       /\ way[n + 1] = IF way[n] \in {d, -1} THEN way[n] ELSE next[way[n]]

LEMMA TravelWay ==
  ASSUME NEW a \in Cubes, NEW d \in Cubes
  PROVE  RouteInv /\ EndsRight => IsWay(Travel(a, d), a, d, Gateways(tbl, d))
<1> SUFFICES ASSUME RouteInv, EndsRight PROVE IsWay(Travel(a, d), a, d, Gateways(tbl, d))
  OBVIOUS
<1> DEFINE F == Onto(d)
           C == Cubes \union {-1}
<1>1. \A c \in C : F[c] = IF c \in {d, -1} THEN c ELSE NextCube(c, d)
  BY DEF Onto
<1>2. \A c \in C : c \notin {d, -1} => NextCube(c, d) \in C /\ NextCube(c, d) = Gateways(tbl, d)[c]
  <2>1. ASSUME NEW c \in C, c \notin {d, -1}
        PROVE  NextCube(c, d) \in C /\ NextCube(c, d) = Gateways(tbl, d)[c]
    <3>1. c \in Cubes /\ d \in Cubes \ {c}
      BY <2>1
    <3> QED BY <3>1, NextCubeType, NextCubeGateway
  <2> QED BY <2>1
<1>3. F \in [C -> C]
  BY <1>2 DEF Onto
<1>4. a \in C
  OBVIOUS
<1>5. Travel(a, d) = Iterated(F, a)
  BY DEF Travel
<1> HIDE DEF F, C
<1>6. Iterates(Iterated(F, a), C, F, a)
  BY <1>3, <1>4, IteratedRecursion
<1> DEFINE p == Travel(a, d)
<1>7. p \in [Nat -> C] /\ p[0] = a /\ \A n \in Nat : p[n + 1] = F[p[n]]
  BY <1>5, <1>6 DEF Iterates
<1> HIDE DEF p
<1>8. ASSUME NEW n \in Nat
      PROVE  p[n] \in C /\ p[n + 1] = IF p[n] \in {d, -1} THEN p[n] ELSE Gateways(tbl, d)[p[n]]
  <2>1. p[n] \in C /\ p[n + 1] = F[p[n]]
    BY <1>7
  <2> QED BY <1>1, <1>2, <2>1
<1>9. IsWay(p, a, d, Gateways(tbl, d))
  BY <1>7, <1>8 DEF IsWay, C
<1> QED BY <1>9 DEF p

LEMMA EndsRightBefore ==
  ASSUME RouteInv, Progresses(links, links', tbl, tbl', wired, wired'), AllWired', RouteInv'
  PROVE  EndsRight /\ EndsRight'
<1>1. links \in LinkGraphs /\ links' \in LinkGraphs
  BY DEF RouteInv, RouteTypeOK
<1>2. \A a, b \in Cubes : \A l \in links[a][b] : l \in LinkIds
  BY <1>1 DEF LinkGraphs
<1>3. \A a, b \in Cubes : \A l \in links'[a][b] : l \in LinkIds
  BY <1>1 DEF LinkGraphs
<1>4. ASSUME NEW a \in Cubes, NEW b \in Cubes, NEW l \in links'[a][b]
      PROVE  \E k \in LinkIds : wired'[<<a, l>>] = Port(b, k)
  <2>1. PICK k \in links'[b][a] : wired'[<<a, l>>] = Port(b, k)
    BY Zenon DEF AllWired
  <2> QED BY <1>3, <2>1
<1>5. ASSUME NEW a \in Cubes, NEW b \in Cubes, NEW l \in links[a][b]
      PROVE  \E k \in LinkIds : wired[<<a, l>>] = Port(b, k)
  <2>1. l \in LinkIds /\ l \in links'[a][b]
    BY <1>2 DEF Progresses, Within
  <2>2. wired[<<a, l>>] # Nobody
    BY DEF RouteInv, LinksBound
  <2>3. wired'[<<a, l>>] = wired[<<a, l>>]
    BY <2>1, <2>2 DEF Progresses, WiredKept
  <2> QED BY <1>4, <2>1, <2>3
<1>6. EndsRight
  BY <1>5 DEF EndsRight
<1>7. EndsRight'
  BY <1>4 DEF EndsRight
<1> QED BY <1>6, <1>7

\* Where a way goes on as before, or goes to d at once, it still reaches d.
LEMMA WayReaches ==
  ASSUME NEW a \in Cubes, NEW d \in Cubes, NEW p, NEW q, NEW next, NEW later,
         IsWay(p, a, d, next), IsWay(q, a, d, later),
         \A c \in Cubes : c # d => next[c] = -1 \/ later[c] = next[c] \/ later[c] = d,
         NEW N \in Nat, p[N] = d
  PROVE  q[N] = d
<1> DEFINE T == {n \in Nat : p[n] = -1 \/ q[n] = d \/ q[n] = p[n]}
<1>1. p[0] = a /\ \A n \in Nat :
        /\ p[n] \in Cubes \union {-1}
        /\ p[n + 1] = IF p[n] \in {d, -1} THEN p[n] ELSE next[p[n]]
  BY DEF IsWay
<1>2. q[0] = a /\ \A n \in Nat :
        /\ q[n] \in Cubes \union {-1}
        /\ q[n + 1] = IF q[n] \in {d, -1} THEN q[n] ELSE later[q[n]]
  BY DEF IsWay
<1>3. 0 \in T
  BY <1>1, <1>2
<1>4. ASSUME NEW n \in Nat, n \in T PROVE n + 1 \in T
  <2>1. n + 1 \in Nat
    OBVIOUS
  <2>2. CASE p[n] = -1
    <3>1. p[n + 1] = -1
      BY <1>1, <2>2
    <3> QED BY <2>1, <3>1
  <2>3. CASE q[n] = d
    <3>1. q[n + 1] = d
      BY <1>2, <2>3
    <3> QED BY <2>1, <3>1
  <2>4. CASE p[n] # -1 /\ q[n] # d /\ q[n] = p[n]
    <3>1. p[n] \in Cubes /\ p[n] # d /\ p[n + 1] = next[p[n]] /\ q[n + 1] = later[p[n]]
      BY <1>1, <1>2, <2>4
    <3>2. p[n + 1] = -1 \/ q[n + 1] = p[n + 1] \/ q[n + 1] = d
      BY <3>1
    <3> QED BY <2>1, <3>2
  <2> QED BY <1>4, <2>2, <2>3, <2>4
<1> HIDE DEF T
<1>5. N \in T
  BY <1>3, <1>4, SetInduction
<1>6. d # -1
  BY CubesFinite
<1> QED BY <1>5, <1>6 DEF T

LEMMA DeliversStays ==
  ASSUME NEW a \in Cubes, NEW d \in Cubes
  PROVE  RouteInv /\ [Next]_vars /\ AllWired' /\ Delivers(a, d) => Delivers(a, d)'
<1>1. RouteInv /\ EndsRight => IsWay(Travel(a, d), a, d, Gateways(tbl, d))
  BY TravelWay
<1>2. (RouteInv /\ EndsRight => IsWay(Travel(a, d), a, d, Gateways(tbl, d)))'
  BY <1>1, PTL
<1> SUFFICES ASSUME RouteInv, [Next]_vars, AllWired', Delivers(a, d) PROVE Delivers(a, d)'
  OBVIOUS
<1>3. RouteInv' /\ Progresses(links, links', tbl, tbl', wired, wired')
  BY RouteNext
<1>4. EndsRight /\ EndsRight'
  BY <1>3, EndsRightBefore
<1> DEFINE p == Travel(a, d)
           q == Travel(a, d)'
           next == Gateways(tbl, d)
           later == Gateways(tbl', d)
           N == Cardinality(Cubes)
<1>5. IsWay(p, a, d, next)
  BY <1>1, <1>4
<1>6. IsWay(q, a, d, later)
  BY <1>2, <1>3, <1>4
<1>7. ASSUME NEW c \in Cubes, c # d PROVE next[c] = -1 \/ later[c] = next[c] \/ later[c] = d
  <2>1. HeadKept(tbl[c][d], tbl'[c][d], d)
    BY <1>3, <1>7 DEF Progresses
  <2> QED BY <2>1 DEF HeadKept, Gateways
<1>8. p[N] = d /\ N \in Nat
  BY CubesFinite DEF Delivers
<1>9. Delivers(a, d)' <=> q[N] = d
  BY DEF Delivers
<1> HIDE DEF p, q, next, later, N
<1>10. q[N] = d
  BY <1>5, <1>6, <1>7, <1>8, WayReaches
<1> QED BY <1>9, <1>10

\* No call that leaves every link bound to the cube it should lead to takes a
\* packet's way away: the search adds to the tables behind what they hold
\* (hmc_insert_route), or puts the direct route there.
THEOREM RouteStays == Spec => RoutesStay
<1>1. RouteInv /\ [Next]_vars =>
        (AllWired' => \A a, d \in Cubes : Delivers(a, d) => Delivers(a, d)')
  BY DeliversStays
<1>2. RouteInv /\ [Next]_vars =>
        [AllWired' => \A a, d \in Cubes : Delivers(a, d) => Delivers(a, d)']_vars
  BY <1>1
<1> QED BY <1>2, RouteInvariant, PTL DEF Spec, RoutesStay

-----------------------------------------------------------------------------
(* No packet is dropped. *)

\* Whoever leads on to x without coming back to a knows a way on of its own.
LEMMA AroundOnward ==
  ASSUME NEW graph \in LinkGraphs, NEW a \in Cubes, NEW g \in Cubes, NEW n \in Nat,
         NEW x \in Cubes \ {g}, x \in Around(graph, a, g)[n]
  PROVE  \E y \in Neighbours(graph, g) : \E k \in Nat : x \in Around(graph, g, y)[k]
<1> DEFINE r == Around(graph, a, g)
           Leads(y, z) == \E k \in Nat : z \in Around(graph, g, y)[k]
           T == {i \in Nat : \A z \in Cubes \ {g} :
                   z \in r[i] => \E y \in Neighbours(graph, g) : Leads(y, z)}
<1>1. BallOf(r, graph, a, g)
  BY AroundBall
<1>2. \A y \in Neighbours(graph, g) : y \in Cubes /\ Leads(y, y)
  <2>1. ASSUME NEW y \in Neighbours(graph, g) PROVE y \in Cubes /\ Leads(y, y)
    <3>1. y \in Cubes
      BY DEF Neighbours
    <3>2. BallOf(Around(graph, g, y), graph, g, y)
      BY <3>1, AroundBall
    <3>3. 0 \in Nat /\ y \in Around(graph, g, y)[0]
      BY <3>2 DEF BallOf
    <3> QED BY <3>1, <3>3
  <2> QED BY <2>1
<1>3. ASSUME NEW y \in Cubes, NEW c \in Cubes, NEW z \in Cubes \ {g},
             Leads(y, c), z \in Neighbours(graph, c)
      PROVE  Leads(y, z)
  <2>1. PICK k \in Nat : c \in Around(graph, g, y)[k]
    BY <1>3
  <2>2. BallOf(Around(graph, g, y), graph, g, y)
    BY AroundBall
  <2>3. k + 1 \in Nat /\ z \in Around(graph, g, y)[k + 1]
    BY <1>3, <2>1, <2>2 DEF BallOf
  <2> QED BY <2>3
<1> HIDE DEF r, Leads
<1>4. 0 \in T
  BY <1>1 DEF BallOf
<1>5. ASSUME NEW i \in Nat, i \in T PROVE i + 1 \in T
  <2>1. ASSUME NEW z \in Cubes \ {g}, z \in r[i + 1]
        PROVE  \E y \in Neighbours(graph, g) : Leads(y, z)
    <3>1. CASE z \in r[i]
      BY <1>5, <3>1
    <3>2. CASE z \notin r[i]
      <4>1. PICK c \in r[i] : z \in Neighbours(graph, c)
        BY <1>1, <2>1, <3>2 DEF BallOf
      <4>2. c \in Cubes
        BY <1>1, <4>1 DEF BallOf
      <4>3. CASE c = g
        BY <1>2, <4>1, <4>3
      <4>4. CASE c # g
        <5>1. PICK y \in Neighbours(graph, g) : Leads(y, c)
          BY <1>5, <4>1, <4>2, <4>4
        <5>2. Leads(y, z)
          BY <1>2, <1>3, <4>1, <4>2, <5>1
        <5> QED BY <5>2
      <4> QED BY <4>3, <4>4
    <3> QED BY <3>1, <3>2
  <2> QED BY <2>1
<1> HIDE DEF T
<1>6. n \in T
  BY <1>4, <1>5, SetInduction
<1>7. \E y \in Neighbours(graph, g) : Leads(y, x)
  BY <1>6 DEF T, r
<1> QED BY <1>7 DEF Leads

\* The gateway of a route has a route itself, unless it is the destination.
LEMMA GatewayHasRoute ==
  ASSUME RouteInv, NEW a \in Cubes, NEW d \in Cubes \ {a}, tbl[a][d] # <<>>,
         NEW g \in Cubes \ {d}, g = tbl[a][d][1].next_dev
  PROVE  tbl[g][d] # <<>>
<1>1. links \in LinkGraphs /\ Sound(links, a, d, tbl[a][d]) /\ Sound(links, g, d, tbl[g][d])
      /\ Shortest(links, g, d, tbl[g][d])
  BY DEF RouteInv, RouteTypeOK, RoutesSound, RoutesShortest
<1> DEFINE list == tbl[a][d]
           own == tbl[g][d]
           gateways == {y \in Neighbours(links, g) : Distances(links, g, y, d) # {}}
<1>2. list \in Lists /\ list # <<>> /\ own \in Lists
  BY <1>1 DEF Sound
<1>3. Sound(links, a, d, list) /\ g = list[1].next_dev /\ Shortest(links, g, d, own)
  BY <1>1
<1> HIDE DEF list
<1>4. 1 \in 1 .. Len(list)
  BY <1>2, EmptySeq DEF Lists
<1>5. list[1].hops \in Nat /\ d \in Around(links, a, g)[list[1].hops]
  BY <1>3, <1>4 DEF Sound
<1>6. PICK y \in Neighbours(links, g) : \E k \in Nat : d \in Around(links, g, y)[k]
  BY <1>1, <1>5, AroundOnward
<1>7. y \in Cubes /\ d \in Around(links, g, y)[Cardinality(Cubes)]
  BY <1>1, <1>6, AroundBounded DEF Neighbours
<1>8. y \in gateways
  BY <1>6, <1>7, CubesFinite DEF Distances
<1>9. CASE d \in Neighbours(links, g)
  <2>1. own = <<Route(d, 0)>>
    BY <1>3, <1>9, Zenon DEF Shortest
  <2> HIDE DEF own
  <2>2. own # <<>>
    BY <2>1
  <2> QED BY <2>2 DEF own
<1>10. CASE d \notin Neighbours(links, g)
  <2>1. Len(own) = Cardinality(gateways)
    BY <1>3, <1>10 DEF Shortest
  <2>2. IsFiniteSet(gateways)
    <3>1. gateways \subseteq Cubes
      BY DEF Neighbours
    <3> QED BY <3>1, CubesFinite, FS_Subset
  <2>3. Cardinality(gateways) # 0
    <3> HIDE DEF gateways
    <3> QED BY <1>8, <2>2, FS_EmptySet
  <2> HIDE DEF gateways, own
  <2>4. own # <<>>
    BY <2>1, <2>3
  <2> QED BY <2>4 DEF own
<1> QED BY <1>9, <1>10

\* A packet that has a route is not dropped on its way, as long as the links are
\* bound to the cubes they should lead to (ext_routing asserts that the table
\* of every cube a packet comes to has a route for it).
THEOREM RouteGoesOn == Spec => []RoutesGoOn
<1>1. ASSUME RouteInv, AllWired, NEW a \in Cubes, NEW d \in Cubes, a # d, tbl[a][d] # <<>>,
             NEW N \in Nat
      PROVE  Travel(a, d)[N] # -1
  <2> DEFINE way == Travel(a, d)
             next == Gateways(tbl, d)
             T == {n \in Nat : way[n] \in Cubes /\ (way[n] = d \/ tbl[way[n]][d] # <<>>)}
  <2>1. links \in LinkGraphs
    BY <1>1 DEF RouteInv, RouteTypeOK
  <2>2. EndsRight
    BY <1>1, WiredRight
  <2>3. IsWay(way, a, d, next)
    BY <1>1, <2>2, TravelWay
  <2> HIDE DEF way
  <2>4. way[0] = a /\ \A n \in Nat :
          way[n + 1] = IF way[n] \in {d, -1} THEN way[n] ELSE next[way[n]]
    BY <2>3 DEF IsWay
  <2>5. -1 \notin Cubes
    BY CubesFinite
  <2>6. 0 \in T
    BY <1>1, <2>4
  <2>7. ASSUME NEW n \in Nat, n \in T PROVE n + 1 \in T
    <3>1. n + 1 \in Nat
      OBVIOUS
    <3>2. CASE way[n] = d
      <4>1. way[n + 1] = d
        BY <2>4, <3>2
      <4> QED BY <3>1, <4>1
    <3>3. CASE way[n] # d
      <4> DEFINE c == way[n]
                 g == tbl[c][d][1].next_dev
      <4>1. c \in Cubes /\ c # d /\ tbl[c][d] # <<>>
        BY <2>7, <3>3
      <4>2. way[n + 1] = g
        BY <2>4, <2>5, <4>1 DEF Gateways
      <4>3. g \in Cubes
        BY <1>1, <4>1, FirstLink
      <4>4. g # d => tbl[g][d] # <<>>
        BY <1>1, <4>1, <4>3, GatewayHasRoute
      <4> QED BY <3>1, <4>2, <4>3, <4>4
    <3> QED BY <3>2, <3>3
  <2> HIDE DEF T
  <2>8. N \in T
    BY <2>6, <2>7, SetInduction
  <2>9. way[N] # -1
    BY <2>5, <2>8 DEF T
  <2> QED BY <2>9 DEF way
<1>2. RouteInv => RoutesGoOn
  BY <1>1 DEF RoutesGoOn
<1> QED BY <1>2, RouteInvariant, PTL

-----------------------------------------------------------------------------
(* What the way of a packet within the cubes (HmcJourney) takes for granted. *)

\* Each end of a bound link has the other one bound to it.
BothWays ==
  \A q \in Cubes \X LinkIds, c \in Cubes, l \in LinkIds :
    wired[q] = Port(c, l) => wired[<<c, l>>] = Port(q[1], q[2])

LEMMA PortEqual ==
  ASSUME NEW a, NEW b, NEW c, NEW d
  PROVE  Port(a, b) = Port(c, d) <=> a = c /\ b = d
BY DEF Port

\* The place of the other end is looked at before anything is bound.
LEMMA ConnectedBothWays ==
  ASSUME RouteTypeOK, BothWays, NEW a \in Cubes, NEW b \in Cubes, NEW la \in LinkIds,
         NEW lb \in LinkIds, NEW q \in Cubes \X LinkIds, NEW c \in Cubes, NEW l \in LinkIds,
         Connected(a, la, b, lb)[q] = Port(c, l)
  PROVE  Connected(a, la, b, lb)[<<c, l>>] = Port(q[1], q[2])
<1> DEFINE near == IF Free(b, lb) /\ <<a, la>> # <<b, lb>> THEN Port(b, lb) ELSE Lost
           far  == IF Free(a, la) THEN Port(a, la) ELSE Lost
           w == Connected(a, la, b, lb)
           x == <<a, la>>
           y == <<b, lb>>
<1>1. wired \in Wirings /\ x \in Cubes \X LinkIds /\ y \in Cubes \X LinkIds
      /\ <<c, l>> \in Cubes \X LinkIds
  BY DEF RouteTypeOK, Wirings
<1>2. near \in Ends /\ near # Nobody /\ far \in Ends /\ far # Nobody
  BY EndKinds
<1>3. w = Bound(Bound(wired, a, la, near), b, lb, far)
  BY DEF Connected
<1>4. /\ Free(a, la) <=> wired[x] = Nobody
      /\ Free(b, lb) <=> wired[y] = Nobody
  BY DEF Free
<1>5. near = (IF wired[y] = Nobody /\ x # y THEN Port(b, lb) ELSE Lost)
      /\ far = (IF wired[x] = Nobody THEN Port(a, la) ELSE Lost)
  BY <1>4
<1> HIDE DEF near, far
<1>6. \A p \in Cubes \X LinkIds :
        w[p] = IF wired[p] # Nobody THEN wired[p]
               ELSE IF p = x THEN near ELSE IF p = y THEN far ELSE Nobody
  BY <1>1, <1>2, <1>3 DEF Bound, Wirings
<1>7. w[q] = Port(c, l)
  OBVIOUS
<1> HIDE DEF w
<1>8. CASE wired[q] # Nobody
  <2>1. wired[q] = Port(c, l)
    BY <1>6, <1>7, <1>8
  <2>2. wired[<<c, l>>] = Port(q[1], q[2])
    BY <2>1 DEF BothWays
  <2>3. w[<<c, l>>] = wired[<<c, l>>]
    BY <1>1, <1>6, <2>2, EndKinds
  <2> QED BY <2>2, <2>3 DEF w
<1>9. CASE wired[q] = Nobody
  <2>1. q = x \/ q = y
    BY <1>6, <1>7, <1>9, EndKinds
  <2>2. CASE q = x
    <3>1. near = Port(c, l)
      BY <1>6, <1>7, <1>9, <2>2
    <3>2. wired[y] = Nobody /\ x # y /\ c = b /\ l = lb
      BY <1>5, <3>1, EndKinds, PortEqual
    <3>3. w[y] = Port(a, la)
      BY <1>1, <1>5, <1>6, <1>9, <2>2, <3>2
    <3> QED BY <2>2, <3>2, <3>3 DEF w
  <2>3. CASE q = y /\ q # x
    <3>1. far = Port(c, l)
      BY <1>6, <1>7, <1>9, <2>3
    <3>2. wired[x] = Nobody /\ c = a /\ l = la
      BY <1>5, <3>1, EndKinds, PortEqual
    <3>3. w[x] = Port(b, lb)
      BY <1>1, <1>5, <1>6, <1>9, <2>3, <3>2
    <3> QED BY <2>3, <3>2, <3>3 DEF w
  <2> QED BY <2>1, <2>2, <2>3
<1> QED BY <1>8, <1>9

LEMMA BothWaysKept ==
  ASSUME RouteInv, BothWays, [Next]_vars
  PROVE  BothWays'
<1>1. RouteTypeOK
  BY DEF RouteInv
<1>2. ASSUME NEW f \in Configs, SetLinkConfig(f[1], f[2], f[3], f[4]) PROVE BothWays'
  <2>1. f[1] \in Cubes /\ f[2] \in LinkIds /\ f[3] \in Cubes /\ f[4] \in LinkIds
    BY RouteAssumption
  <2>2. wired' = Connected(f[1], f[2], f[3], f[4])
    BY <1>2 DEF SetLinkConfig
  <2> QED BY <1>1, <2>1, <2>2, ConnectedBothWays DEF BothWays
<1>3. ASSUME NEW h \in Hosts, DefineSlid(h[1], h[2], h[3]) PROVE BothWays'
  <2>1. h[1] \in Slids /\ h[2] \in Cubes /\ h[3] \in LinkIds
    BY RouteAssumption
  <2>2. wired' = Bound(wired, h[2], h[3], Host(h[1])) /\ wired \in Wirings
    BY <1>1, <1>3 DEF DefineSlid, RouteTypeOK, Wirings
  <2>3. BoundTo(wired, wired', <<h[2], h[3]>>, Host(h[1]))
    BY <2>1, <2>2, BoundEffect, EndKinds
  <2>4. ASSUME NEW q \in Cubes \X LinkIds, NEW c \in Cubes, NEW l \in LinkIds,
               wired'[q] = Port(c, l)
        PROVE  wired'[<<c, l>>] = Port(q[1], q[2])
    <3>1. wired[q] = Port(c, l)
      BY <2>3, <2>4, EndKinds DEF BoundTo
    <3>2. wired[<<c, l>>] = Port(q[1], q[2])
      BY <3>1 DEF BothWays
    <3> QED BY <2>3, <3>2, EndKinds DEF BoundTo, WiredKept
  <2> QED BY <2>4 DEF BothWays
<1>4. CASE UNCHANGED vars
  BY <1>4 DEF vars, BothWays
<1> QED BY <1>2, <1>3, <1>4 DEF Next

\* The network is what the model of a packet's way assumes: no call, whatever it
\* finds taken, leaves a link with one end bound to what does not answer to it
\* (hmc_set_link_config) or a host where its responses do not go
\* (hmc_define_slid), and the first route of a table leaves for another cube.
THEOREM RouteUsable == Spec => []NetworkUsable
<1>1. Init => BothWays
  BY EndKinds DEF Init, BothWays
<1>2. RouteInv /\ BothWays /\ [Next]_vars => BothWays'
  BY BothWaysKept
<1>3. ASSUME RouteInv, BothWays, NEW p \in Cubes \X LinkIds, wired[p][1] = "cube"
      PROVE  wired[<<wired[p][2], wired[p][3]>>] = Port(p[1], p[2])
  <2>1. wired[p] \in Ends
    BY <1>3 DEF RouteInv, RouteTypeOK
  <2>2. PICK c \in Cubes, l \in LinkIds : wired[p] = Port(c, l)
    <3>1. wired[p] \notin {Nobody, Lost} /\ \A s \in Slids : wired[p] # Host(s)
      <4>1. \A s \in Slids : Host(s)[1] # "cube"
        BY DEF Host
      <4> QED BY <1>3, <4>1, EndKinds
    <3> QED BY <2>1, <3>1 DEF Ends
  <2>3. wired[p][2] = c /\ wired[p][3] = l
    BY <2>2, EndKinds
  <2>4. wired[<<c, l>>] = Port(p[1], p[2])
    BY <1>3, <2>2 DEF BothWays
  <2> QED BY <2>3, <2>4
<1>4. ASSUME RouteInv, AllWired, NEW a \in Cubes, NEW d \in Cubes \ {a}, tbl[a][d] # <<>>
      PROVE  /\ ExtLinks(a, d) # {}
             /\ \A l \in ExtLinks(a, d) : wired[<<a, l>>][1] = "cube" /\ wired[<<a, l>>][2] # a
  <2> DEFINE list == tbl[a][d]
             g == Head(list).next_dev
  <2>1. Sound(links, a, d, list)
    BY <1>4 DEF RouteInv, RoutesSound
  <2>2. list \in Lists /\ list # <<>>
    BY <1>4, <2>1 DEF Sound
  <2>3. ExtLinks(a, d) = links[a][g]
    BY DEF ExtLinks
  <2> HIDE DEF list
  <2>4. Head(list) = list[1] /\ 1 \in 1 .. Len(list)
    BY <2>2, EmptySeq, HeadTailProperties DEF Lists
  <2>5. g \in Neighbours(links, a)
    BY <2>1, <2>4 DEF Sound
  <2> HIDE DEF g
  <2>6. g \in Cubes /\ g # a /\ links[a][g] # {}
    BY <2>5 DEF Neighbours
  <2>7. ASSUME NEW l \in links[a][g]
        PROVE  wired[<<a, l>>][1] = "cube" /\ wired[<<a, l>>][2] = g
    <3>1. EndsRight
      BY <1>4, WiredRight
    <3>2. PICK k \in LinkIds : wired[<<a, l>>] = Port(g, k)
      BY <2>6, <2>7, <3>1 DEF EndsRight
    <3> QED BY <3>2, EndKinds
  <2> QED BY <2>3, <2>6, <2>7
<1>5. RouteInv => HostsWhereRouted
  BY DEF RouteInv, HostsSettled, HostsWhereRouted
<1>6. RouteInv /\ BothWays => NetworkUsable
  BY <1>3, <1>4, <1>5 DEF NetworkUsable
<1> QED BY <1>1, <1>2, <1>6, RouteInvariant, PTL DEF Spec
=============================================================================
