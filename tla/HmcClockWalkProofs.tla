-------------------------- MODULE HmcClockWalkProofs -------------------------
(***************************************************************************)
(* The tree that the constructors build has the shape HmcNotify needs, for *)
(* every number of cubes, quads, links, vaults and hosts; so a clock       *)
(* reaches all the work there is and enters nothing else.                  *)
(***************************************************************************)
EXTENDS HmcClockWalk, HmcNotifyProofs

SimKinds == {"cubes", "slid", "slidbuf"}
CubeKinds == {"cube.quad", "cube.conn", "conn.conn"}
QuadKinds == {"part.links", "part.rxbuf", "quad.vault"}
PartLinkKinds == {"part.rx_q", "part.rx_buf"}
VaultKinds ==
  {"bobsim.link", "bobsim.bob", "vault.link", "vault.rxbuf", "vault.rx_q", "vault.rx_buf"}
SlidKinds == {"slid.rx_q", "slid.rx_buf"}

Kinds == SimKinds \union CubeKinds \union QuadKinds \union PartLinkKinds
           \union VaultKinds \union SlidKinds

\* The coordinates a node of some kind has.
Shape(k, c, q, i) ==
  \/ k \in SimKinds /\ c = 0 /\ q = 0 /\ i = 0
  \/ k \in CubeKinds /\ c \in Cubes /\ q = 0 /\ i = 0
  \/ k \in QuadKinds /\ c \in Cubes /\ q \in Quads /\ i = 0
  \/ k \in PartLinkKinds /\ c \in Cubes /\ q \in Quads /\ i \in Slots
  \/ k \in VaultKinds /\ c \in Cubes /\ q \in Quads /\ i \in Vaults
  \/ k \in SlidKinds /\ c = 0 /\ q = 0 /\ i \in Slids

LEMMA NodeFields ==
  ASSUME NEW k, NEW c, NEW q, NEW i
  PROVE  /\ Node(k, c, q, i).kind = k /\ Node(k, c, q, i).cube = c
         /\ Node(k, c, q, i).quad = q /\ Node(k, c, q, i).i = i
BY DEF Node

LEMMA ShapeIsNode ==
  ASSUME NEW k, NEW c, NEW q, NEW i, Shape(k, c, q, i)
  PROVE  Node(k, c, q, i) \in TreeNodes
BY DEF Shape, TreeNodes, SimNodes, CubeNodes, QuadNodes, PartLinkNodes, VaultNodes, SlidNodes,
       SimKinds, CubeKinds, QuadKinds, PartLinkKinds, VaultKinds, SlidKinds

LEMMA NodeHasShape ==
  ASSUME NEW n \in TreeNodes
  PROVE  /\ n = Node(n.kind, n.cube, n.quad, n.i)
         /\ Shape(n.kind, n.cube, n.quad, n.i)
<1>1. CASE n \in SimNodes
  BY <1>1, NodeFields DEF SimNodes, SimKinds, Shape
<1>2. CASE n \in CubeNodes
  BY <1>2, NodeFields DEF CubeNodes, CubeKinds, Shape
<1>3. CASE n \in QuadNodes
  BY <1>3, NodeFields DEF QuadNodes, QuadKinds, Shape
<1>4. CASE n \in PartLinkNodes
  BY <1>4, NodeFields DEF PartLinkNodes, PartLinkKinds, Shape
<1>5. CASE n \in VaultNodes
  BY <1>5, NodeFields DEF VaultNodes, VaultKinds, Shape
<1>6. CASE n \in SlidNodes
  BY <1>6, NodeFields DEF SlidNodes, SlidKinds, Shape
<1> QED BY <1>1, <1>2, <1>3, <1>4, <1>5, <1>6 DEF TreeNodes

\* The nodes that share the owner of a kind are those its owner looks at.
LEMMA KindsOfOwner ==
  ASSUME NEW a \in Kinds, NEW b \in Kinds, UpKind(a) # "nullptr"
  PROVE  b \in GroupKinds(a) <=> UpKind(b) = UpKind(a)
BY DEF Kinds, SimKinds, CubeKinds, QuadKinds, PartLinkKinds, VaultKinds, SlidKinds,
       UpKind, GroupKinds

\* The table of the owners.
LEMMA UpKinds ==
  /\ UpKind("cubes") = "nullptr" /\ UpKind("slid") = "nullptr" /\ UpKind("slidbuf") = "nullptr"
  /\ UpKind("cube.quad") = "cubes" /\ UpKind("cube.conn") = "cubes"
  /\ UpKind("conn.conn") = "cube.conn"
  /\ UpKind("part.links") = "conn.conn" /\ UpKind("part.rxbuf") = "conn.conn"
  /\ UpKind("part.rx_q") = "part.links" /\ UpKind("part.rx_buf") = "part.rxbuf"
  /\ UpKind("quad.vault") = "cube.quad"
  /\ UpKind("bobsim.link") = "quad.vault" /\ UpKind("bobsim.bob") = "quad.vault"
  /\ UpKind("vault.link") = "bobsim.link" /\ UpKind("vault.rxbuf") = "bobsim.link"
  /\ UpKind("vault.rx_q") = "vault.link" /\ UpKind("vault.rx_buf") = "vault.rxbuf"
  /\ UpKind("slid.rx_q") = "slid" /\ UpKind("slid.rx_buf") = "slidbuf"
BY DEF UpKind

\* Its coordinates.
LEMMA UpNodes ==
  ASSUME NEW n
  PROVE  /\ UpKind(n.kind) = "nullptr" => UpNode(n) = None
         /\ UpKind(n.kind) \in {"cubes", "slid", "slidbuf"} =>
              UpNode(n) = Node(UpKind(n.kind), 0, 0, 0)
         /\ UpKind(n.kind) \in {"cube.quad", "cube.conn", "conn.conn"} =>
              UpNode(n) = Node(UpKind(n.kind), n.cube, 0, 0)
         /\ UpKind(n.kind) \in {"part.links", "part.rxbuf", "quad.vault"} =>
              UpNode(n) = Node(UpKind(n.kind), n.cube, n.quad, 0)
         /\ UpKind(n.kind) \in {"bobsim.link", "vault.link", "vault.rxbuf"} =>
              UpNode(n) = Node(UpKind(n.kind), n.cube, n.quad, n.i)
<1>1. CASE UpKind(n.kind) = "nullptr"
  BY <1>1 DEF UpNode
<1>2. CASE UpKind(n.kind) \in {"cubes", "slid", "slidbuf"}
  BY <1>2 DEF UpNode
<1>3. CASE UpKind(n.kind) \in {"cube.quad", "cube.conn", "conn.conn"}
  BY <1>3 DEF UpNode
<1>4. CASE UpKind(n.kind) \in {"part.links", "part.rxbuf", "quad.vault"}
  BY <1>4 DEF UpNode
<1>5. CASE UpKind(n.kind) \in {"bobsim.link", "vault.link", "vault.rxbuf"}
  BY <1>5 DEF UpNode
<1> QED BY <1>1, <1>2, <1>3, <1>4, <1>5

\* Only the roots have nothing above them.
LEMMA UpNodeKind ==
  ASSUME NEW n \in TreeNodes
  PROVE  /\ n.kind \in Kinds
         /\ UpNode(n) # None <=> UpKind(n.kind) # "nullptr"
         /\ UpNode(n) # None => UpNode(n).kind = UpKind(n.kind)
<1>1. n.kind \in Kinds
  BY NodeHasShape DEF Shape, Kinds
<1>2. UpKind(n.kind) \in {"nullptr", "cubes", "slid", "slidbuf", "cube.quad", "cube.conn",
        "conn.conn", "part.links", "part.rxbuf", "quad.vault", "bobsim.link", "vault.link",
        "vault.rxbuf"}
  BY <1>1, UpKinds
     DEF Kinds, SimKinds, CubeKinds, QuadKinds, PartLinkKinds, VaultKinds, SlidKinds
<1> QED BY <1>1, <1>2, UpNodes, NodeFields DEF None

\* The bit of a node, kind by kind.
LEMMA IdFacts ==
  ASSUME NEW n
  PROVE  /\ n.kind \in {"cube.quad", "cube.conn"} => IdOf(n) = n.cube
         /\ n.kind \in {"part.links", "part.rxbuf", "quad.vault"} => IdOf(n) = n.quad
         /\ n.kind \in {"part.rx_q", "part.rx_buf", "slid.rx_q", "slid.rx_buf", "bobsim.link",
                        "bobsim.bob", "vault.link", "vault.rxbuf"} => IdOf(n) = n.i
         /\ n.kind \in {"vault.rx_q", "vault.rx_buf"} => IdOf(n) = n.quad
         /\ n.kind = "conn.conn" => IdOf(n) = 0
<1>1. CASE n.kind \in {"cube.quad", "cube.conn"}
  BY <1>1 DEF IdOf
<1>2. CASE n.kind \in {"part.links", "part.rxbuf", "quad.vault"}
  BY <1>2 DEF IdOf
<1>3. CASE n.kind \in {"part.rx_q", "part.rx_buf", "slid.rx_q", "slid.rx_buf"}
  BY <1>3 DEF IdOf
<1>4. CASE n.kind \in {"bobsim.link", "bobsim.bob", "vault.link", "vault.rxbuf"}
  BY <1>4 DEF IdOf
<1>5. CASE n.kind \in {"vault.rx_q", "vault.rx_buf"}
  BY <1>5 DEF IdOf
<1>6. CASE n.kind = "conn.conn"
  BY <1>6 DEF IdOf
<1> QED BY <1>1, <1>2, <1>3, <1>4, <1>5, <1>6

SameCoordinates(m, n) == m.cube = n.cube /\ m.quad = n.quad /\ m.i = n.i

LEMMA NodeEqual ==
  ASSUME NEW k, NEW c, NEW q, NEW i, NEW c2, NEW q2, NEW i2
  PROVE  Node(k, c, q, i) = Node(k, c2, q2, i2) <=> c = c2 /\ q = q2 /\ i = i2
BY NodeFields

\* Two nodes under owners of the same kind share a bit exactly when they have
\* the same coordinates.
LEMMA SharedBit ==
  ASSUME NEW m \in TreeNodes, NEW n \in TreeNodes,
         UpKind(m.kind) = UpKind(n.kind), UpKind(n.kind) # "nullptr"
  PROVE  UpNode(m) = UpNode(n) /\ IdOf(m) = IdOf(n) <=> SameCoordinates(m, n)
<1>1. /\ Shape(m.kind, m.cube, m.quad, m.i) /\ Shape(n.kind, n.cube, n.quad, n.i)
      /\ m.kind \in Kinds /\ n.kind \in Kinds
  BY NodeHasShape, UpNodeKind
<1> DEFINE u == UpKind(n.kind)
<1>2. \/ u \in {"cubes", "cube.conn", "conn.conn", "cube.quad"}
      \/ u \in {"quad.vault", "part.links", "part.rxbuf"}
      \/ u \in {"bobsim.link", "vault.link", "vault.rxbuf"}
      \/ u \in {"slid", "slidbuf"}
  BY <1>1, UpKinds
     DEF Kinds, SimKinds, CubeKinds, QuadKinds, PartLinkKinds, VaultKinds, SlidKinds
<1>3. ASSUME u = "cubes" PROVE m.kind \in {"cube.quad", "cube.conn"} /\ n.kind \in {"cube.quad", "cube.conn"}
  BY <1>1, <1>3, UpKinds
     DEF Kinds, SimKinds, CubeKinds, QuadKinds, PartLinkKinds, VaultKinds, SlidKinds
<1>4. ASSUME u = "cube.conn" PROVE m.kind = "conn.conn" /\ n.kind = "conn.conn"
  BY <1>1, <1>4, UpKinds
     DEF Kinds, SimKinds, CubeKinds, QuadKinds, PartLinkKinds, VaultKinds, SlidKinds
<1>5. ASSUME u \in {"conn.conn", "cube.quad"} PROVE m.kind \in QuadKinds /\ n.kind \in QuadKinds
  BY <1>1, <1>5, UpKinds
     DEF Kinds, SimKinds, CubeKinds, QuadKinds, PartLinkKinds, VaultKinds, SlidKinds
<1>6. ASSUME u = "quad.vault"
      PROVE  m.kind \in {"bobsim.link", "bobsim.bob"} /\ n.kind \in {"bobsim.link", "bobsim.bob"}
  BY <1>1, <1>6, UpKinds
     DEF Kinds, SimKinds, CubeKinds, QuadKinds, PartLinkKinds, VaultKinds, SlidKinds
<1>7. ASSUME u \in {"part.links", "part.rxbuf"}
      PROVE  m.kind \in PartLinkKinds /\ n.kind \in PartLinkKinds
  BY <1>1, <1>7, UpKinds
     DEF Kinds, SimKinds, CubeKinds, QuadKinds, PartLinkKinds, VaultKinds, SlidKinds
<1>8. ASSUME u \in {"bobsim.link", "vault.link", "vault.rxbuf"}
      PROVE  m.kind \in VaultKinds /\ n.kind \in VaultKinds
  BY <1>1, <1>8, UpKinds
     DEF Kinds, SimKinds, CubeKinds, QuadKinds, PartLinkKinds, VaultKinds, SlidKinds
<1>9. ASSUME u \in {"slid", "slidbuf"} PROVE m.kind \in SlidKinds /\ n.kind \in SlidKinds
  BY <1>1, <1>9, UpKinds
     DEF Kinds, SimKinds, CubeKinds, QuadKinds, PartLinkKinds, VaultKinds, SlidKinds
<1>10. CASE u = "cubes"
  <2>1. IdOf(m) = m.cube /\ IdOf(n) = n.cube /\ UpNode(m) = UpNode(n)
    BY <1>3, <1>10, IdFacts, UpNodes
  <2>2. m.quad = 0 /\ n.quad = 0 /\ m.i = 0 /\ n.i = 0
    BY <1>1, <1>3, <1>10 DEF Shape, SimKinds, CubeKinds, QuadKinds, PartLinkKinds, VaultKinds, SlidKinds
  <2> QED BY <2>1, <2>2 DEF SameCoordinates
<1>11. CASE u = "cube.conn"
  <2>1. IdOf(m) = IdOf(n)
    BY <1>4, <1>11, IdFacts
  <2>2. UpNode(m) = Node(u, m.cube, 0, 0) /\ UpNode(n) = Node(u, n.cube, 0, 0)
    BY <1>11, UpNodes
  <2>3. m.quad = 0 /\ n.quad = 0 /\ m.i = 0 /\ n.i = 0
    BY <1>1, <1>4, <1>11 DEF Shape, SimKinds, CubeKinds, QuadKinds, PartLinkKinds, VaultKinds, SlidKinds
  <2> QED BY <2>1, <2>2, <2>3, NodeEqual DEF SameCoordinates
<1>12. CASE u \in {"conn.conn", "cube.quad"}
  <2>1. IdOf(m) = m.quad /\ IdOf(n) = n.quad
    BY <1>5, <1>12, IdFacts DEF QuadKinds
  <2>2. UpNode(m) = Node(u, m.cube, 0, 0) /\ UpNode(n) = Node(u, n.cube, 0, 0)
    BY <1>12, UpNodes
  <2>3. m.i = 0 /\ n.i = 0
    BY <1>1, <1>5, <1>12 DEF Shape, SimKinds, CubeKinds, QuadKinds, PartLinkKinds, VaultKinds, SlidKinds
  <2> QED BY <2>1, <2>2, <2>3, NodeEqual DEF SameCoordinates
<1>13. CASE u \in {"quad.vault", "part.links", "part.rxbuf"}
  <2>1. IdOf(m) = m.i /\ IdOf(n) = n.i
    BY <1>6, <1>7, <1>13, IdFacts DEF PartLinkKinds
  <2>2. UpNode(m) = Node(u, m.cube, m.quad, 0) /\ UpNode(n) = Node(u, n.cube, n.quad, 0)
    BY <1>13, UpNodes
  <2> QED BY <2>1, <2>2, NodeEqual DEF SameCoordinates
<1>14. CASE u \in {"bobsim.link", "vault.link", "vault.rxbuf"}
  <2>1. UpNode(m) = Node(u, m.cube, m.quad, m.i) /\ UpNode(n) = Node(u, n.cube, n.quad, n.i)
    BY <1>14, UpNodes
  <2>2. UpNode(m) = UpNode(n) <=> SameCoordinates(m, n)
    BY <2>1, NodeEqual DEF SameCoordinates
  <2>3. SameCoordinates(m, n) => IdOf(m) = IdOf(n)
    <3>1. CASE u = "bobsim.link"
      <4>1. m.kind \in {"vault.link", "vault.rxbuf"} /\ n.kind \in {"vault.link", "vault.rxbuf"}
        BY <1>8, <1>14, <3>1, UpKinds DEF VaultKinds
      <4> QED BY <4>1, IdFacts DEF SameCoordinates
    <3>2. CASE u # "bobsim.link"
      <4>1. m.kind \in {"vault.rx_q", "vault.rx_buf"} /\ n.kind \in {"vault.rx_q", "vault.rx_buf"}
        BY <1>8, <1>14, <3>2, UpKinds DEF VaultKinds
      <4> QED BY <4>1, IdFacts DEF SameCoordinates
    <3> QED BY <3>1, <3>2
  <2> QED BY <2>2, <2>3
<1>15. CASE u \in {"slid", "slidbuf"}
  <2>1. IdOf(m) = m.i /\ IdOf(n) = n.i /\ UpNode(m) = UpNode(n)
    BY <1>9, <1>15, IdFacts, UpNodes DEF SlidKinds
  <2>2. m.cube = 0 /\ n.cube = 0 /\ m.quad = 0 /\ n.quad = 0
    BY <1>1, <1>9, <1>15 DEF Shape, SimKinds, CubeKinds, QuadKinds, PartLinkKinds, VaultKinds, SlidKinds
  <2> QED BY <2>1, <2>2 DEF SameCoordinates
<1> QED BY <1>2, <1>10, <1>11, <1>12, <1>13, <1>14, <1>15

\* The tree has the shape that makes the notifications exact.
THEOREM TreeGroupsMatch == GroupsMatch
<1>1. ASSUME NEW n \in TreeNodes, UpNode(n) # None, NEW m \in TreeNodes
      PROVE  m \in GroupOf(n) <=> UpNode(m) = UpNode(n) /\ IdOf(m) = IdOf(n)
  <2>1. m.kind \in Kinds /\ n.kind \in Kinds /\ UpKind(n.kind) # "nullptr"
    BY <1>1, UpNodeKind
  <2>2. m \in GroupOf(n) <=> m.kind \in GroupKinds(n.kind) /\ SameCoordinates(m, n)
    <3>1. m = Node(m.kind, m.cube, m.quad, m.i)
      BY NodeHasShape
    <3>2. m \in GroupOf(n) <=>
            \E k \in GroupKinds(n.kind) : m = Node(k, n.cube, n.quad, n.i)
      BY DEF GroupOf
    <3>3. ASSUME NEW k PROVE m = Node(k, n.cube, n.quad, n.i)
                               <=> k = m.kind /\ SameCoordinates(m, n)
      BY <3>1, NodeFields DEF SameCoordinates
    <3> QED BY <3>2, <3>3
  <2>3. m.kind \in GroupKinds(n.kind) <=> UpKind(m.kind) = UpKind(n.kind)
    BY <2>1, KindsOfOwner
  <2>4. UpNode(m) = UpNode(n) => UpKind(m.kind) = UpKind(n.kind)
    BY <1>1, UpNodeKind
  <2> QED BY <2>1, <2>2, <2>3, <2>4, SharedBit
<1>2. ASSUME NEW n \in TreeNodes, UpNode(n) # None
      PROVE  GroupOf(n) = {m \in TreeNodes : UpNode(m) = UpNode(n) /\ IdOf(m) = IdOf(n)}
  <2>1. GroupOf(n) \subseteq TreeNodes
    BY ClockWalkAssumption, NotifyAssumption
  <2> QED BY <1>1, <1>2, <2>1
<1> QED BY <1>2, ClockWalkAssumption DEF GroupsMatch

-----------------------------------------------------------------------------
(* The descent of a clock. *)

\* What works is set in the node above it, and what is set there works.
LEMMA UpIsSet ==
  ASSUME NotifyInv, NEW k, NEW c, NEW q, NEW i, Shape(k, c, q, i), UpKind(k) # "nullptr",
         notifier[Node(k, c, q, i)] # {}
  PROVE  IdOf(Node(k, c, q, i)) \in notifier[UpNode(Node(k, c, q, i))]
<1> DEFINE n == Node(k, c, q, i)
<1>1. n \in TreeNodes /\ n.kind = k
  BY ShapeIsNode, NodeFields
<1> HIDE DEF n
<1>2. UpNode(n) # None
  BY <1>1, UpNodeKind
<1>3. n \in Nodes /\ Up[n] = UpNode(n) /\ Id[n] = IdOf(n)
  BY <1>1, ClockWalkAssumption
<1>4. UpNode(n) \in Inner /\ IdOf(n) \in Bits
  BY <1>2, <1>3, NotifyAssumption, ClockWalkAssumption DEF Inner
<1>5. Busy(notifier, UpNode(n), IdOf(n))
  BY <1>3 DEF n, Busy
<1> QED BY <1>4, <1>5 DEF NotifyInv, Exact, ExactIn, n

LEMMA SetIsBelow ==
  ASSUME NotifyInv, NEW m \in Inner, NEW b \in notifier[m]
  PROVE  \E n \in TreeNodes : UpNode(n) = m /\ UpNode(n) # None /\ IdOf(n) = b /\ notifier[n] # {}
<1>1. m \in Nodes /\ m # NoNode
  BY InnerNodes
<1>2. b \in Bits
  BY <1>1 DEF NotifyInv, Masks
<1>3. Busy(notifier, m, b)
  BY <1>2 DEF NotifyInv, Exact, ExactIn
<1> QED BY <1>1, <1>3, ClockWalkAssumption DEF Busy

\* A node with nodes below it is an inner one.
LEMMA OwnerIsInner ==
  ASSUME NEW k, NEW c, NEW q, NEW i, Shape(k, c, q, i), UpKind(k) # "nullptr"
  PROVE  UpNode(Node(k, c, q, i)) \in Inner
<1>1. Node(k, c, q, i) \in TreeNodes /\ Node(k, c, q, i).kind = k
  BY ShapeIsNode, NodeFields
<1>2. UpNode(Node(k, c, q, i)) # None
  BY <1>1, UpNodeKind
<1> QED BY <1>1, <1>2, ClockWalkAssumption DEF Inner

LEMMA PartAbove ==
  ASSUME NotifyInv, NEW c \in Cubes, NEW q \in Quads, NEW k \in {"part.links", "part.rxbuf"},
         Set(k, c, q, 0) # {}
  PROVE  PartClocked(c, q)
<1>1. q \in Set("conn.conn", c, 0, 0)
  <2>1. Shape(k, c, q, 0) /\ UpKind(k) = "conn.conn"
    BY UpKinds DEF Shape, QuadKinds
  <2>2. UpNode(Node(k, c, q, 0)) = Node("conn.conn", c, 0, 0) /\ IdOf(Node(k, c, q, 0)) = q
    BY <2>1, UpNodes, IdFacts, NodeFields
  <2> QED BY <2>1, <2>2, UpIsSet DEF Set
<1>2. Set("cube.conn", c, 0, 0) # {}
  <2>1. Shape("conn.conn", c, 0, 0) /\ UpKind("conn.conn") = "cube.conn"
    BY UpKinds DEF Shape, CubeKinds
  <2>2. UpNode(Node("conn.conn", c, 0, 0)) = Node("cube.conn", c, 0, 0)
    BY <2>1, UpNodes, NodeFields
  <2> QED BY <1>1, <2>1, <2>2, UpIsSet DEF Set
<1>3. c \in Set("cubes", 0, 0, 0)
  <2>1. Shape("cube.conn", c, 0, 0) /\ UpKind("cube.conn") = "cubes"
    BY UpKinds DEF Shape, CubeKinds
  <2>2. UpNode(Node("cube.conn", c, 0, 0)) = Node("cubes", 0, 0, 0)
        /\ IdOf(Node("cube.conn", c, 0, 0)) = c
    BY <2>1, UpNodes, IdFacts, NodeFields
  <2> QED BY <1>2, <2>1, <2>2, UpIsSet DEF Set
<1> QED BY <1>1, <1>2, <1>3 DEF PartClocked

LEMMA VaultAbove ==
  ASSUME NotifyInv, NEW c \in Cubes, NEW q \in Quads, NEW v \in Vaults,
         NEW k \in {"bobsim.link", "bobsim.bob"}, Set(k, c, q, v) # {}
  PROVE  VaultClocked(c, q, v)
<1>1. v \in Set("quad.vault", c, q, 0)
  <2>1. Shape(k, c, q, v) /\ UpKind(k) = "quad.vault"
    BY UpKinds DEF Shape, VaultKinds
  <2>2. UpNode(Node(k, c, q, v)) = Node("quad.vault", c, q, 0) /\ IdOf(Node(k, c, q, v)) = v
    BY <2>1, UpNodes, IdFacts, NodeFields
  <2> QED BY <2>1, <2>2, UpIsSet DEF Set
<1>2. q \in Set("cube.quad", c, 0, 0)
  <2>1. Shape("quad.vault", c, q, 0) /\ UpKind("quad.vault") = "cube.quad"
    BY UpKinds DEF Shape, QuadKinds
  <2>2. UpNode(Node("quad.vault", c, q, 0)) = Node("cube.quad", c, 0, 0)
        /\ IdOf(Node("quad.vault", c, q, 0)) = q
    BY <2>1, UpNodes, IdFacts, NodeFields
  <2> QED BY <1>1, <2>1, <2>2, UpIsSet DEF Set
<1>3. c \in Set("cubes", 0, 0, 0)
  <2>1. Shape("cube.quad", c, 0, 0) /\ UpKind("cube.quad") = "cubes"
    BY UpKinds DEF Shape, CubeKinds
  <2>2. UpNode(Node("cube.quad", c, 0, 0)) = Node("cubes", 0, 0, 0)
        /\ IdOf(Node("cube.quad", c, 0, 0)) = c
    BY <2>1, UpNodes, IdFacts, NodeFields
  <2> QED BY <1>2, <2>1, <2>2, UpIsSet DEF Set
<1> QED BY <1>1, <1>2, <1>3 DEF VaultClocked

\* A queue or buffer of a link that works is known to the switch or vault.
LEMMA PartLinkAbove ==
  ASSUME NotifyInv, NEW c \in Cubes, NEW q \in Quads, NEW i \in Slots
  PROVE  /\ Set("part.rx_q", c, q, i) # {} => i \in Set("part.links", c, q, 0)
         /\ Set("part.rx_buf", c, q, i) # {} => i \in Set("part.rxbuf", c, q, 0)
<1>1. ASSUME NEW k \in PartLinkKinds, Set(k, c, q, i) # {}
      PROVE  i \in Set(UpKind(k), c, q, 0)
  <2>1. Shape(k, c, q, i) /\ UpKind(k) \in {"part.links", "part.rxbuf"} /\ UpKind(k) # "nullptr"
    BY UpKinds DEF Shape, PartLinkKinds
  <2>2. UpNode(Node(k, c, q, i)) = Node(UpKind(k), c, q, 0)
    BY <2>1, UpNodes, NodeFields
  <2>3. IdOf(Node(k, c, q, i)) = i
    BY IdFacts, NodeFields DEF PartLinkKinds
  <2> QED BY <1>1, <2>1, <2>2, <2>3, UpIsSet DEF Set
<1> QED BY <1>1, UpKinds DEF PartLinkKinds

LEMMA VaultLinkAbove ==
  ASSUME NotifyInv, NEW c \in Cubes, NEW q \in Quads, NEW v \in Vaults
  PROVE  Set("vault.rx_q", c, q, v) # {} \/ Set("vault.rx_buf", c, q, v) # {}
           => Set("bobsim.link", c, q, v) # {}
<1>1. ASSUME NEW k \in {"vault.rx_q", "vault.rx_buf"}, Set(k, c, q, v) # {}
      PROVE  Set(UpKind(k), c, q, v) # {}
  <2>1. Shape(k, c, q, v) /\ UpKind(k) \in {"vault.link", "vault.rxbuf"} /\ UpKind(k) # "nullptr"
    BY UpKinds DEF Shape, VaultKinds
  <2>2. UpNode(Node(k, c, q, v)) = Node(UpKind(k), c, q, v)
    BY <2>1, UpNodes, NodeFields
  <2> QED BY <1>1, <2>1, <2>2, UpIsSet DEF Set
<1>2. ASSUME NEW k \in {"vault.link", "vault.rxbuf"}, Set(k, c, q, v) # {}
      PROVE  Set("bobsim.link", c, q, v) # {}
  <2>1. Shape(k, c, q, v) /\ UpKind(k) = "bobsim.link"
    BY UpKinds DEF Shape, VaultKinds
  <2>2. UpNode(Node(k, c, q, v)) = Node("bobsim.link", c, q, v)
    BY <2>1, UpNodes, NodeFields
  <2> QED BY <1>2, <2>1, <2>2, UpIsSet DEF Set
<1> QED BY <1>1, <1>2, UpKinds

LEMMA InvReaches == NotifyInv => WorkReached
<1> SUFFICES ASSUME NotifyInv, NEW c \in Cubes, NEW q \in Quads
             PROVE  /\ \A i \in Slots :
                         /\ Set("part.rx_q", c, q, i) # {} => PartQueueClocked(c, q, i)
                         /\ Set("part.rx_buf", c, q, i) # {} => PartBufferOffered(c, q, i)
                    /\ \A v \in Vaults :
                         /\ Set("bobsim.bob", c, q, v) # {} => ControllerClocked(c, q, v)
                         /\ Set("vault.rx_q", c, q, v) # {} => VaultQueueClocked(c, q, v)
                         /\ Set("vault.rx_buf", c, q, v) # {} => VaultLinkClocked(c, q, v)
  BY DEF WorkReached
<1>1. ASSUME NEW i \in Slots
      PROVE  /\ Set("part.rx_q", c, q, i) # {} => PartQueueClocked(c, q, i)
             /\ Set("part.rx_buf", c, q, i) # {} => PartBufferOffered(c, q, i)
  BY PartLinkAbove, PartAbove DEF PartQueueClocked, PartBufferOffered
<1>2. ASSUME NEW v \in Vaults
      PROVE  /\ Set("bobsim.bob", c, q, v) # {} => ControllerClocked(c, q, v)
             /\ Set("vault.rx_q", c, q, v) # {} => VaultQueueClocked(c, q, v)
             /\ Set("vault.rx_buf", c, q, v) # {} => VaultLinkClocked(c, q, v)
  BY VaultLinkAbove, VaultAbove DEF ControllerClocked, VaultQueueClocked, VaultLinkClocked
<1> QED BY <1>1, <1>2

\* Which nodes a set bit stands for.
LEMMA PartBelow ==
  ASSUME NotifyInv, NEW c \in Cubes, NEW q \in Quads
  PROVE  /\ q \in Set("conn.conn", c, 0, 0) =>
              \E k \in {"part.links", "part.rxbuf"} : Set(k, c, q, 0) # {}
         /\ \A i \in Set("part.links", c, q, 0) :
              i \in Slots /\ Set("part.rx_q", c, q, i) # {}
         /\ \A i \in Set("part.rxbuf", c, q, 0) :
              i \in Slots /\ Set("part.rx_buf", c, q, i) # {}
<1>1. ASSUME q \in Set("conn.conn", c, 0, 0)
      PROVE  \E k \in {"part.links", "part.rxbuf"} : Set(k, c, q, 0) # {}
  <2>1. Node("conn.conn", c, 0, 0) \in Inner
    <3>1. Shape("part.links", c, q, 0) /\ UpKind("part.links") = "conn.conn"
      BY UpKinds DEF Shape, QuadKinds
    <3>2. UpNode(Node("part.links", c, q, 0)) = Node("conn.conn", c, 0, 0)
      BY <3>1, UpNodes, NodeFields
    <3> QED BY <3>1, <3>2, OwnerIsInner
  <2>2. PICK n \in TreeNodes : /\ UpNode(n) = Node("conn.conn", c, 0, 0)
                               /\ UpNode(n) # None /\ IdOf(n) = q /\ notifier[n] # {}
    BY <1>1, <2>1, SetIsBelow DEF Set
  <2>3. n.kind \in Kinds /\ UpKind(n.kind) = "conn.conn"
    BY <2>2, UpNodeKind, NodeFields
  <2>4. n.kind \in {"part.links", "part.rxbuf"}
    BY <2>3, UpKinds
       DEF Kinds, SimKinds, CubeKinds, QuadKinds, PartLinkKinds, VaultKinds, SlidKinds
  <2>5. n.cube = c
    BY <2>2, <2>3, UpNodes, NodeEqual
  <2>6. n.quad = q
    BY <2>2, <2>4, IdFacts
  <2>7. n.i = 0 /\ n = Node(n.kind, n.cube, n.quad, n.i)
    BY <2>4, NodeHasShape
       DEF Shape, SimKinds, CubeKinds, QuadKinds, PartLinkKinds, VaultKinds, SlidKinds
  <2> QED BY <2>2, <2>4, <2>5, <2>6, <2>7 DEF Set
<1>2. ASSUME NEW up \in {"part.links", "part.rxbuf"}, NEW i \in Set(up, c, q, 0)
      PROVE  \E k \in PartLinkKinds : UpKind(k) = up /\ i \in Slots /\ Set(k, c, q, i) # {}
  <2>1. Node(up, c, q, 0) \in Inner
    <3>1. PICK s \in Slots : TRUE
      BY TreeAssumption
    <3>2. PICK k \in PartLinkKinds : UpKind(k) = up
      BY UpKinds DEF PartLinkKinds
    <3>3. Shape(k, c, q, s) /\ UpKind(k) # "nullptr"
      BY <3>2 DEF Shape
    <3>4. UpNode(Node(k, c, q, s)) = Node(up, c, q, 0)
      BY <3>2, UpNodes, NodeFields
    <3> QED BY <3>3, <3>4, OwnerIsInner
  <2>2. PICK n \in TreeNodes : /\ UpNode(n) = Node(up, c, q, 0)
                               /\ UpNode(n) # None /\ IdOf(n) = i /\ notifier[n] # {}
    BY <1>2, <2>1, SetIsBelow DEF Set
  <2>3. n.kind \in Kinds /\ UpKind(n.kind) = up
    BY <2>2, UpNodeKind, NodeFields
  <2>4. n.kind \in PartLinkKinds
    BY <2>3, UpKinds
       DEF Kinds, SimKinds, CubeKinds, QuadKinds, PartLinkKinds, VaultKinds, SlidKinds
  <2>5. n.cube = c /\ n.quad = q
    BY <2>2, <2>3, UpNodes, NodeEqual
  <2>6. n.i = i
    BY <2>2, <2>4, IdFacts DEF PartLinkKinds
  <2>7. n.i \in Slots /\ n = Node(n.kind, n.cube, n.quad, n.i)
    BY <2>4, NodeHasShape
       DEF Shape, SimKinds, CubeKinds, QuadKinds, PartLinkKinds, VaultKinds, SlidKinds
  <2> QED BY <2>2, <2>3, <2>4, <2>5, <2>6, <2>7 DEF Set
<1> QED BY <1>1, <1>2, UpKinds DEF PartLinkKinds

LEMMA VaultBelow ==
  ASSUME NotifyInv, NEW c \in Cubes, NEW q \in Quads, NEW v \in Vaults,
         NEW up \in {"quad.vault", "bobsim.link", "vault.link", "vault.rxbuf"},
         NEW b \in Set(up, c, q, IF up = "quad.vault" THEN 0 ELSE v),
         up = "quad.vault" => b = v
  PROVE  \E k \in VaultKinds : UpKind(k) = up /\ Set(k, c, q, v) # {}
<1> DEFINE m == Node(up, c, q, IF up = "quad.vault" THEN 0 ELSE v)
<1>1. m \in Inner
  <2>1. PICK k \in VaultKinds : UpKind(k) = up
    BY UpKinds DEF VaultKinds
  <2>2. Shape(k, c, q, v) /\ UpKind(k) # "nullptr"
    BY <2>1 DEF Shape
  <2>3. UpNode(Node(k, c, q, v)) = m
    BY <2>1, UpNodes, NodeFields
  <2> QED BY <2>2, <2>3, OwnerIsInner
<1>2. PICK n \in TreeNodes :
        UpNode(n) = m /\ UpNode(n) # None /\ IdOf(n) = b /\ notifier[n] # {}
  BY <1>1, SetIsBelow DEF Set
<1>3. n.kind \in Kinds /\ UpKind(n.kind) = up
  BY <1>2, UpNodeKind, NodeFields
<1>4. n.kind \in VaultKinds /\ (up = "quad.vault" => n.kind \in {"bobsim.link", "bobsim.bob"})
  BY <1>3, UpKinds
     DEF Kinds, SimKinds, CubeKinds, QuadKinds, PartLinkKinds, VaultKinds, SlidKinds
<1>5. n.cube = c /\ n.quad = q
  BY <1>2, <1>3, UpNodes, NodeEqual
<1>6. n.i = v
  <2>1. CASE up = "quad.vault"
    BY <1>2, <1>4, <2>1, IdFacts
  <2>2. CASE up # "quad.vault"
    BY <1>2, <1>3, <2>2, UpNodes, NodeEqual
  <2> QED BY <2>1, <2>2
<1>7. n = Node(n.kind, n.cube, n.quad, n.i)
  BY NodeHasShape
<1> QED BY <1>2, <1>3, <1>4, <1>5, <1>6, <1>7 DEF Set

LEMMA InvSkips == NotifyInv => IdleSkipped
<1> SUFFICES ASSUME NotifyInv, NEW c \in Cubes, NEW q \in Quads
             PROVE  /\ PartClocked(c, q) =>
                         \E i \in Slots : Set("part.rx_q", c, q, i) # {}
                                          \/ Set("part.rx_buf", c, q, i) # {}
                    /\ \A i \in Slots :
                         PartBufferOffered(c, q, i) => Set("part.rx_buf", c, q, i) # {}
                    /\ \A v \in Vaults :
                         VaultClocked(c, q, v) =>
                           \/ Set("bobsim.bob", c, q, v) # {}
                           \/ Set("vault.rx_q", c, q, v) # {}
                           \/ Set("vault.rx_buf", c, q, v) # {}
  BY DEF IdleSkipped
<1>1. PartClocked(c, q) =>
        \E i \in Slots : Set("part.rx_q", c, q, i) # {} \/ Set("part.rx_buf", c, q, i) # {}
  BY PartBelow DEF PartClocked
<1>2. ASSUME NEW i \in Slots, PartBufferOffered(c, q, i)
      PROVE  Set("part.rx_buf", c, q, i) # {}
  BY <1>2, PartBelow DEF PartBufferOffered
<1>3. ASSUME NEW v \in Vaults, VaultClocked(c, q, v)
      PROVE  \/ Set("bobsim.bob", c, q, v) # {}
             \/ Set("vault.rx_q", c, q, v) # {}
             \/ Set("vault.rx_buf", c, q, v) # {}
  <2>1. Set("bobsim.link", c, q, v) # {} \/ Set("bobsim.bob", c, q, v) # {}
    <3>1. \E k \in VaultKinds : UpKind(k) = "quad.vault" /\ Set(k, c, q, v) # {}
      BY <1>3, VaultBelow DEF VaultClocked
    <3> QED BY <3>1, UpKinds DEF VaultKinds
  <2>2. ASSUME Set("bobsim.link", c, q, v) # {}
        PROVE  Set("vault.link", c, q, v) # {} \/ Set("vault.rxbuf", c, q, v) # {}
    <3>1. \E k \in VaultKinds : UpKind(k) = "bobsim.link" /\ Set(k, c, q, v) # {}
      BY <2>2, VaultBelow
    <3> QED BY <3>1, UpKinds DEF VaultKinds
  <2>3. ASSUME Set("vault.link", c, q, v) # {} PROVE Set("vault.rx_q", c, q, v) # {}
    <3>1. \E k \in VaultKinds : UpKind(k) = "vault.link" /\ Set(k, c, q, v) # {}
      BY <2>3, VaultBelow
    <3> QED BY <3>1, UpKinds DEF VaultKinds
  <2>4. ASSUME Set("vault.rxbuf", c, q, v) # {} PROVE Set("vault.rx_buf", c, q, v) # {}
    <3>1. \E k \in VaultKinds : UpKind(k) = "vault.rxbuf" /\ Set(k, c, q, v) # {}
      BY <2>4, VaultBelow
    <3> QED BY <3>1, UpKinds DEF VaultKinds
  <2> QED BY <2>1, <2>2, <2>3, <2>4
<1> QED BY <1>1, <1>2, <1>3

\* In every state each bit is exact, for the tree of the constructors.
THEOREM TreeExact == Spec => []Exact
BY TreeGroupsMatch, NotifyExact

\* No work is ever hidden from the clock.
THEOREM TreeWorkReached == Spec => []WorkReached
BY TreeGroupsMatch, NotifyInvariant, InvReaches, PTL

\* No module without work is entered, so the buffer that the round robin
\* picks is never empty.
THEOREM TreeIdleSkipped == Spec => []IdleSkipped
BY TreeGroupsMatch, NotifyInvariant, InvSkips, PTL
=============================================================================
