--------------------------- MODULE HmcNotifyProofs ---------------------------
(***************************************************************************)
(* The tree of notifications is exact, whatever its shape.                 *)
(***************************************************************************)
EXTENDS HmcNotify, HmcRecursionProofs

Masks == [Nodes -> SUBSET Bits]

\* While a call is on its way up, the bit it is about to set or clear is the
\* only one that may be wrong.
ExactBut(masks, at, bit) ==
  \A m \in Inner, b \in Bits :
    ~(m = at /\ b = bit) => (b \in masks[m] <=> Busy(masks, m, b))

AddInv ==
  {w \in Walk :
     /\ ExactBut(w.notifier, w.at, w.bit)
     /\ w.at \in Inner => Busy(w.notifier, w.at, w.bit)}

DelInv ==
  {w \in Walk :
     /\ ExactBut(w.notifier, w.at, w.bit)
     /\ w.at \in Inner => ~Busy(w.notifier, w.at, w.bit)}

\* The tree, field by field.
LEMMA TreeFacts ==
  ASSUME NEW n \in Nodes
  PROVE  /\ Up[n] \in Nodes \union {NoNode} /\ Id[n] \in Bits /\ Depth[n] \in Nat
         /\ n # NoNode
         /\ Up[n] # NoNode => /\ Up[n] \in Inner /\ Up[n] \in Nodes
                              /\ Depth[n] > Depth[Up[n]] /\ Depth[Up[n]] \in Nat
                              /\ Up[n] # n
BY NotifyAssumption DEF Inner

LEMMA InnerNodes == Inner \subseteq Nodes /\ NoNode \notin Inner
BY NotifyAssumption DEF Inner

\* Changing the mask of one node matters to no bit but its own above.
LEMMA BusyElsewhere ==
  ASSUME NEW old \in Masks, NEW new \in Masks, NEW at \in Nodes,
         \A n \in Nodes : n # at => new[n] = old[n],
         NEW m \in Inner, NEW b \in Bits, Up[at] # m \/ Id[at] # b
  PROVE  Busy(new, m, b) <=> Busy(old, m, b)
BY DEF Busy

LEMMA BusyMonotone ==
  ASSUME NEW old \in Masks, NEW new \in Masks,
         \A n \in Nodes : old[n] \subseteq new[n],
         NEW m \in Inner, NEW b \in Bits, Busy(old, m, b)
  PROVE  Busy(new, m, b)
BY DEF Busy

\* With and Without change one mask.
LEMMA WithFacts ==
  ASSUME NEW w \in Walk, w.at # NoNode
  PROVE  /\ w.notifier \in Masks /\ w.at \in Nodes /\ w.bit \in Bits
         /\ With(w) \in Masks /\ Without(w) \in Masks
         /\ With(w)[w.at] = w.notifier[w.at] \union {w.bit}
         /\ Without(w)[w.at] = w.notifier[w.at] \ {w.bit}
         /\ \A n \in Nodes : n # w.at => With(w)[n] = w.notifier[n]
         /\ \A n \in Nodes : n # w.at => Without(w)[n] = w.notifier[n]
         /\ \A n \in Nodes : w.notifier[n] \subseteq With(w)[n]
         /\ \A n \in Nodes : Without(w)[n] \subseteq w.notifier[n]
BY DEF Walk, With, Without, Masks

LEMMA StopFacts ==
  ASSUME NEW w \in Walk, NEW masks \in Masks
  PROVE  /\ Stop(w, masks) \in Walk
         /\ Stop(w, masks).notifier = masks /\ Stop(w, masks).at = NoNode
BY DEF Stop, Walk, Masks

LEMMA GoUpFacts ==
  ASSUME NEW w \in Walk, NEW masks \in Masks, w.at # NoNode
  PROVE  /\ GoUp(w, masks) \in Walk
         /\ GoUp(w, masks).notifier = masks
         /\ GoUp(w, masks).at = Up[w.at] /\ GoUp(w, masks).bit = Id[w.at]
<1>1. w.at \in Nodes
  BY DEF Walk
<1>2. Up[w.at] \in Nodes \union {NoNode} /\ Id[w.at] \in Bits
  BY <1>1, TreeFacts
<1> QED BY <1>2 DEF GoUp, Walk, Masks

\* A call that has returned leaves exact masks.
LEMMA StoppedExact ==
  ASSUME NEW w \in Walk, w.at = NoNode
  PROVE  ExactBut(w.notifier, w.at, w.bit) <=> ExactIn(w.notifier)
BY InnerNodes DEF ExactBut, ExactIn

LEMMA StopInv ==
  ASSUME NEW w \in Walk, NEW masks \in Masks, ExactIn(masks)
  PROVE  Stop(w, masks) \in AddInv /\ Stop(w, masks) \in DelInv
<1>1. /\ Stop(w, masks) \in Walk /\ Stop(w, masks).notifier = masks
      /\ Stop(w, masks).at = NoNode
  BY StopFacts
<1>2. ExactBut(masks, NoNode, Stop(w, masks).bit)
  BY InnerNodes DEF ExactBut, ExactIn
<1> QED BY <1>1, <1>2, InnerNodes DEF AddInv, DelInv

-----------------------------------------------------------------------------
(* One level of a call keeps its invariant. *)

LEMMA AddStepInv ==
  ASSUME NEW w \in AddInv
  PROVE  AddStep[w] \in AddInv
<1>1. w \in Walk /\ ExactBut(w.notifier, w.at, w.bit)
      /\ (w.at \in Inner => Busy(w.notifier, w.at, w.bit))
  BY DEF AddInv
<1>2. AddStep[w] = IF w.at = NoNode THEN w
                   ELSE IF w.bit \in w.notifier[w.at] THEN Stop(w, w.notifier)
                   ELSE IF Up[w.at] = NoNode THEN Stop(w, With(w))
                   ELSE GoUp(w, With(w))
  BY <1>1 DEF AddStep
<1>3. CASE w.at = NoNode
  BY <1>2, <1>3
<1>4. CASE w.at # NoNode /\ w.bit \in w.notifier[w.at]
  <2>1. ExactIn(w.notifier)
    BY <1>1, <1>4 DEF ExactBut, ExactIn
  <2>2. w.notifier \in Masks
    BY <1>1, <1>4, WithFacts
  <2>3. Stop(w, w.notifier) \in AddInv
    BY <1>1, <2>1, <2>2, StopInv
  <2> QED BY <1>2, <1>4, <2>3
<1>5. ASSUME w.at # NoNode, w.bit \notin w.notifier[w.at],
             NEW m \in Inner, NEW b \in Bits, ~(Up[w.at] = m /\ Id[w.at] = b)
      PROVE  b \in With(w)[m] <=> Busy(With(w), m, b)
  <2>1. /\ w.notifier \in Masks /\ With(w) \in Masks /\ w.at \in Nodes
        /\ With(w)[w.at] = w.notifier[w.at] \union {w.bit}
        /\ \A n \in Nodes : n # w.at => With(w)[n] = w.notifier[n]
    BY <1>1, <1>5, WithFacts
  <2>2. Busy(With(w), m, b) <=> Busy(w.notifier, m, b)
    BY <1>5, <2>1, BusyElsewhere
  <2>3. m \in Nodes
    BY InnerNodes
  <2>4. CASE m = w.at /\ b = w.bit
    BY <1>1, <2>1, <2>2, <2>4
  <2>5. CASE ~(m = w.at /\ b = w.bit)
    <3>1. b \in w.notifier[m] <=> Busy(w.notifier, m, b)
      BY <1>1, <2>5 DEF ExactBut
    <3>2. b \in With(w)[m] <=> b \in w.notifier[m]
      BY <2>1, <2>3, <2>5
    <3> QED BY <2>2, <3>1, <3>2
  <2> QED BY <2>4, <2>5
<1>6. CASE w.at # NoNode /\ w.bit \notin w.notifier[w.at] /\ Up[w.at] = NoNode
  <2>1. ExactIn(With(w))
    BY <1>5, <1>6, InnerNodes DEF ExactIn
  <2>2. Stop(w, With(w)) \in AddInv
    BY <1>1, <1>6, <2>1, WithFacts, StopInv
  <2> QED BY <1>2, <1>6, <2>2
<1>7. CASE w.at # NoNode /\ w.bit \notin w.notifier[w.at] /\ Up[w.at] # NoNode
  <2> DEFINE v == GoUp(w, With(w))
  <2>1. /\ v \in Walk /\ v.notifier = With(w) /\ v.at = Up[w.at] /\ v.bit = Id[w.at]
    BY <1>1, <1>7, WithFacts, GoUpFacts
  <2>2. ExactBut(With(w), Up[w.at], Id[w.at])
    BY <1>5, <1>7 DEF ExactBut
  <2>3. Busy(With(w), Up[w.at], Id[w.at])
    <3>1. w.at \in Nodes /\ With(w)[w.at] # {}
      BY <1>1, <1>7, WithFacts
    <3> QED BY <3>1 DEF Busy
  <2> HIDE DEF v
  <2>4. v \in AddInv
    BY <2>1, <2>2, <2>3 DEF AddInv
  <2> QED BY <1>2, <1>7, <2>4 DEF v
<1> QED BY <1>3, <1>4, <1>6, <1>7

LEMMA DelStepInv ==
  ASSUME GroupsMatch, NEW w \in DelInv
  PROVE  DelStep[w] \in DelInv
<1>1. w \in Walk /\ ExactBut(w.notifier, w.at, w.bit)
      /\ (w.at \in Inner => ~Busy(w.notifier, w.at, w.bit))
  BY DEF DelInv
<1>2. DelStep[w] = IF w.at = NoNode THEN w
                   ELSE IF Up[w.at] # NoNode /\ NotifyUp(Without(w), w.at)
                   THEN GoUp(w, Without(w))
                   ELSE Stop(w, Without(w))
  BY <1>1 DEF DelStep
<1>3. CASE w.at = NoNode
  BY <1>2, <1>3
<1>4. ASSUME w.at # NoNode, NEW m \in Inner, NEW b \in Bits,
             ~(Up[w.at] = m /\ Id[w.at] = b)
      PROVE  b \in Without(w)[m] <=> Busy(Without(w), m, b)
  <2>1. /\ w.notifier \in Masks /\ Without(w) \in Masks /\ w.at \in Nodes
        /\ Without(w)[w.at] = w.notifier[w.at] \ {w.bit}
        /\ \A n \in Nodes : n # w.at => Without(w)[n] = w.notifier[n]
    BY <1>1, <1>4, WithFacts
  <2>2. Busy(Without(w), m, b) <=> Busy(w.notifier, m, b)
    BY <1>4, <2>1, BusyElsewhere
  <2>3. m \in Nodes
    BY InnerNodes
  <2>4. CASE m = w.at /\ b = w.bit
    BY <1>1, <2>1, <2>2, <2>4
  <2>5. CASE ~(m = w.at /\ b = w.bit)
    <3>1. b \in w.notifier[m] <=> Busy(w.notifier, m, b)
      BY <1>1, <2>5 DEF ExactBut
    <3>2. b \in Without(w)[m] <=> b \in w.notifier[m]
      BY <2>1, <2>3, <2>5
    <3> QED BY <2>2, <3>1, <3>2
  <2> QED BY <2>4, <2>5
<1>5. CASE w.at # NoNode /\ Up[w.at] = NoNode
  <2>1. ExactIn(Without(w))
    BY <1>4, <1>5, InnerNodes DEF ExactIn
  <2>2. Stop(w, Without(w)) \in DelInv
    BY <1>1, <1>5, <2>1, WithFacts, StopInv
  <2> QED BY <1>2, <1>5, <2>2
<1>6. ASSUME w.at # NoNode, Up[w.at] # NoNode
      PROVE  /\ w.at \in Nodes /\ Up[w.at] \in Inner /\ Id[w.at] \in Bits /\ Up[w.at] # w.at
             /\ Busy(Without(w), Up[w.at], Id[w.at]) <=> ~NotifyUp(Without(w), w.at)
  <2>1. /\ w.at \in Nodes /\ Up[w.at] \in Inner /\ Id[w.at] \in Bits /\ Up[w.at] # w.at
    BY <1>1, <1>6, WithFacts, TreeFacts
  <2>2. Group[w.at] = {n \in Nodes : Up[n] = Up[w.at] /\ Id[n] = Id[w.at]}
    BY <1>6, <2>1 DEF GroupsMatch
  <2> QED BY <2>1, <2>2 DEF Busy, NotifyUp
<1>7. CASE w.at # NoNode /\ Up[w.at] # NoNode /\ NotifyUp(Without(w), w.at)
  <2> DEFINE v == GoUp(w, Without(w))
  <2>1. /\ v \in Walk /\ v.notifier = Without(w) /\ v.at = Up[w.at] /\ v.bit = Id[w.at]
    BY <1>1, <1>7, WithFacts, GoUpFacts
  <2>2. ExactBut(Without(w), Up[w.at], Id[w.at])
    BY <1>4, <1>7 DEF ExactBut
  <2>3. ~Busy(Without(w), Up[w.at], Id[w.at])
    BY <1>6, <1>7
  <2> HIDE DEF v
  <2>4. v \in DelInv
    BY <2>1, <2>2, <2>3 DEF DelInv
  <2> QED BY <1>2, <1>7, <2>4 DEF v
<1>8. CASE w.at # NoNode /\ Up[w.at] # NoNode /\ ~NotifyUp(Without(w), w.at)
  <2>1. /\ w.at \in Nodes /\ Up[w.at] \in Inner /\ Id[w.at] \in Bits /\ Up[w.at] # w.at
        /\ Busy(Without(w), Up[w.at], Id[w.at])
    BY <1>6, <1>8
  <2>2. /\ w.notifier \in Masks /\ Without(w) \in Masks
        /\ \A n \in Nodes : n # w.at => Without(w)[n] = w.notifier[n]
        /\ \A n \in Nodes : Without(w)[n] \subseteq w.notifier[n]
    BY <1>1, <1>8, WithFacts
  <2>3. Busy(w.notifier, Up[w.at], Id[w.at])
    BY <2>1, <2>2, BusyMonotone
  <2>4. Id[w.at] \in w.notifier[Up[w.at]]
    BY <1>1, <2>1, <2>3 DEF ExactBut
  <2>5. Id[w.at] \in Without(w)[Up[w.at]]
    BY <2>1, <2>2, <2>4, InnerNodes
  <2>6. ExactIn(Without(w))
    BY <1>4, <1>8, <2>1, <2>5 DEF ExactIn
  <2>7. Stop(w, Without(w)) \in DelInv
    BY <1>1, <2>2, <2>6, StopInv
  <2> QED BY <1>2, <1>8, <2>7
<1> QED BY <1>3, <1>5, <1>7, <1>8

-----------------------------------------------------------------------------
(* A whole call. *)

\* A step of a call goes up one level or has returned.
Climbs(Step) ==
  \A w \in Walk :
    /\ Step[w] \in Walk
    /\ w.at = NoNode => Step[w] = w
    /\ w.at # NoNode => Step[w].at = NoNode \/ Step[w].at = Up[w.at]

LEMMA AddClimbs == AddStep \in [Walk -> Walk] /\ Climbs(AddStep)
<1> DEFINE R(w) == IF w.at = NoNode THEN w
                   ELSE IF w.bit \in w.notifier[w.at] THEN Stop(w, w.notifier)
                   ELSE IF Up[w.at] = NoNode THEN Stop(w, With(w))
                   ELSE GoUp(w, With(w))
<1>1. AddStep = [w \in Walk |-> R(w)]
  BY DEF AddStep
<1>2. ASSUME NEW w \in Walk
      PROVE  /\ R(w) \in Walk
             /\ w.at = NoNode => R(w) = w
             /\ w.at # NoNode => R(w).at = NoNode \/ R(w).at = Up[w.at]
  <2>1. CASE w.at = NoNode
    BY <2>1
  <2>2. CASE w.at # NoNode
    <3>1. w.notifier \in Masks /\ With(w) \in Masks
      BY <2>2, WithFacts
    <3> QED BY <2>2, <3>1, StopFacts, GoUpFacts
  <2> QED BY <2>1, <2>2
<1> HIDE DEF R
<1> QED BY <1>1, <1>2 DEF Climbs

LEMMA DelClimbs == DelStep \in [Walk -> Walk] /\ Climbs(DelStep)
<1> DEFINE R(w) == IF w.at = NoNode THEN w
                   ELSE IF Up[w.at] # NoNode /\ NotifyUp(Without(w), w.at)
                   THEN GoUp(w, Without(w))
                   ELSE Stop(w, Without(w))
<1>1. DelStep = [w \in Walk |-> R(w)]
  BY DEF DelStep
<1>2. ASSUME NEW w \in Walk
      PROVE  /\ R(w) \in Walk
             /\ w.at = NoNode => R(w) = w
             /\ w.at # NoNode => R(w).at = NoNode \/ R(w).at = Up[w.at]
  <2>1. CASE w.at = NoNode
    BY <2>1
  <2>2. CASE w.at # NoNode
    <3>1. w.notifier \in Masks /\ Without(w) \in Masks
      BY <2>2, WithFacts
    <3> QED BY <2>2, <3>1, StopFacts, GoUpFacts
  <2> QED BY <2>1, <2>2
<1> HIDE DEF R
<1> QED BY <1>1, <1>2 DEF Climbs

\* A call has returned after one level per node above, with exact masks.
LEMMA CallReturns ==
  ASSUME NEW Step \in [Walk -> Walk], Climbs(Step),
         NEW I \in SUBSET Walk, \A w \in I : Step[w] \in I,
         \A w \in I : w.at = NoNode => ExactIn(w.notifier),
         NEW masks \in Masks, NEW n \in Nodes, NEW b \in Bits,
         [notifier |-> masks, at |-> n, bit |-> b] \in I
  PROVE  Called(Step, masks, n, b) \in Masks /\ ExactIn(Called(Step, masks, n, b))
<1> DEFINE x == [notifier |-> masks, at |-> n, bit |-> b]
           r == Iterated(Step, x)
           T == {k \in Nat : \/ r[k].at = NoNode
                             \/ r[k].at \in Nodes /\ Depth[r[k].at] + k <= Depth[n]}
<1>1. x \in I /\ x \in Walk /\ x.at = n
  OBVIOUS
<1> HIDE DEF x
<1>2. \A k \in Nat : r[k] \in I
  BY <1>1, IterationInvariant
<1>3. r[0] = x /\ \A k \in Nat : r[k + 1] = Step[r[k]]
  <2>1. Iterates(r, Walk, Step, x)
    BY <1>1, IteratedRecursion, Zenon
  <2> QED BY <2>1 DEF Iterates
<1>4. Called(Step, masks, n, b) = r[Depth[n] + 1].notifier
  BY DEF Called, x
<1>5. Depth[n] \in Nat /\ n # NoNode
  BY TreeFacts
<1> HIDE DEF r
<1>6. 0 \in T
  BY <1>1, <1>3, <1>5
<1>7. ASSUME NEW k \in Nat, k \in T PROVE k + 1 \in T
  <2>1. r[k] \in Walk /\ r[k + 1] = Step[r[k]]
    BY <1>2, <1>3
  <2>2. CASE r[k].at = NoNode
    BY <2>1, <2>2 DEF Climbs
  <2>3. CASE r[k].at # NoNode /\ r[k + 1].at = NoNode
    BY <2>3
  <2>4. CASE r[k].at # NoNode /\ r[k + 1].at # NoNode
    <3>1. r[k + 1].at = Up[r[k].at] /\ r[k].at \in Nodes /\ Depth[r[k].at] + k <= Depth[n]
      BY <1>7, <2>1, <2>4 DEF Climbs
    <3>2. /\ Up[r[k].at] \in Nodes /\ Depth[Up[r[k].at]] \in Nat /\ Depth[r[k].at] \in Nat
          /\ Depth[r[k].at] > Depth[Up[r[k].at]]
      BY <2>4, <3>1, TreeFacts
    <3>3. \A d, e, f \in Nat : d + k <= f /\ d > e => e + (k + 1) <= f
      OBVIOUS
    <3>4. Depth[Up[r[k].at]] + (k + 1) <= Depth[n]
      BY <1>5, <3>1, <3>2, <3>3
    <3> QED BY <3>1, <3>2, <3>4
  <2> QED BY <2>2, <2>3, <2>4
<1> HIDE DEF T
<1>8. \A k \in Nat : k \in T
  BY <1>6, <1>7, SetInduction
<1>9. r[Depth[n] + 1].at = NoNode
  <2>1. Depth[n] + 1 \in T
    BY <1>5, <1>8
  <2>2. ASSUME r[Depth[n] + 1].at \in Nodes PROVE ~(Depth[r[Depth[n] + 1].at] + (Depth[n] + 1) <= Depth[n])
    <3>1. Depth[r[Depth[n] + 1].at] \in Nat
      BY <2>2, TreeFacts
    <3> QED BY <1>5, <3>1
  <2> QED BY <2>1, <2>2 DEF T
<1>10. r[Depth[n] + 1] \in I
  BY <1>2, <1>5
<1> QED BY <1>4, <1>9, <1>10 DEF Walk, Masks

-----------------------------------------------------------------------------
(* The theorem. *)

NotifyInv == notifier \in Masks /\ Exact

\* The inductive invariant of the calls.
THEOREM NotifyInvariant == GroupsMatch => (Spec => []NotifyInv)
<1> SUFFICES ASSUME GroupsMatch PROVE Spec => []NotifyInv
  OBVIOUS
<1>1. Init => NotifyInv
  BY InnerNodes DEF Init, NotifyInv, Masks, Exact, ExactIn, Busy
<1>2. ASSUME NotifyInv, NEW n \in Leaves PROVE
        LET x == [notifier |-> notifier, at |-> n, bit |-> LeafBit[n]] IN
          /\ notifier \in Masks /\ n \in Nodes /\ LeafBit[n] \in Bits
          /\ x \in AddInv /\ x \in DelInv
  <2>1. notifier \in Masks /\ n \in Nodes /\ LeafBit[n] \in Bits /\ n \notin Inner
    BY <1>2, LeafAssumption DEF NotifyInv, Leaves
  <2>2. [notifier |-> notifier, at |-> n, bit |-> LeafBit[n]] \in Walk
    BY <2>1 DEF Walk, Masks
  <2>3. ExactBut(notifier, n, LeafBit[n])
    BY <1>2 DEF NotifyInv, Exact, ExactIn, ExactBut
  <2> QED BY <2>1, <2>2, <2>3 DEF AddInv, DelInv
<1>3. \A w \in AddInv \union DelInv : w.at = NoNode => ExactIn(w.notifier)
  BY StoppedExact DEF AddInv, DelInv
<1>4. AddInv \in SUBSET Walk /\ DelInv \in SUBSET Walk
  BY DEF AddInv, DelInv
<1>5. ASSUME NotifyInv, NEW n \in Leaves, NotifyAdd(n) PROVE NotifyInv'
  <2>1. \A w \in AddInv : AddStep[w] \in AddInv
    BY AddStepInv
  <2>2. /\ Called(AddStep, notifier, n, LeafBit[n]) \in Masks
        /\ ExactIn(Called(AddStep, notifier, n, LeafBit[n]))
    BY <1>2, <1>3, <1>4, <1>5, <2>1, AddClimbs, CallReturns
  <2> QED BY <1>5, <2>2 DEF NotifyAdd, NotifyInv, Exact
<1>6. ASSUME NotifyInv, NEW n \in Leaves, NotifyDel(n) PROVE NotifyInv'
  <2>1. \A w \in DelInv : DelStep[w] \in DelInv
    BY DelStepInv
  <2>2. /\ Called(DelStep, notifier, n, LeafBit[n]) \in Masks
        /\ ExactIn(Called(DelStep, notifier, n, LeafBit[n]))
    BY <1>2, <1>3, <1>4, <1>6, <2>1, DelClimbs, CallReturns
  <2> QED BY <1>6, <2>2 DEF NotifyDel, NotifyInv, Exact
<1>7. NotifyInv /\ [Next]_notifier => NotifyInv'
  <2> SUFFICES ASSUME NotifyInv, [Next]_notifier PROVE NotifyInv'
    OBVIOUS
  <2>1. CASE UNCHANGED notifier
    BY <2>1 DEF NotifyInv, Exact
  <2>2. CASE Next
    BY <1>5, <1>6, <2>2 DEF Next
  <2> QED BY <2>1, <2>2
<1> QED BY <1>1, <1>7, PTL DEF Spec

\* The masks stay exact, for every tree whose owners look at exactly the
\* nodes that share a bit.
THEOREM NotifyExact == GroupsMatch => (Spec => []Exact)
<1> SUFFICES ASSUME GroupsMatch PROVE Spec => []Exact
  OBVIOUS
<1>1. Spec => []NotifyInv
  BY NotifyInvariant
<1>2. NotifyInv => Exact
  BY DEF NotifyInv
<1> QED BY <1>1, <1>2, PTL
=============================================================================
