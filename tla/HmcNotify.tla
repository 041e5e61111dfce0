------------------------------ MODULE HmcNotify ------------------------------
(***************************************************************************)
(* hmc_notify: bit masks arranged in a tree, telling every module whether  *)
(* something below it has work to do.  A node's bits belong to the nodes   *)
(* below it; several nodes may share one bit of the node above, and then   *)
(* their owner decides (notify_up) when the shared bit goes.               *)
(*                                                                         *)
(* The tree is a parameter.  The calls come from the queues, buffers and   *)
(* memory controllers at the leaves, where one bit is added or deleted.    *)
(***************************************************************************)
EXTENDS Integers, HmcRecursion

CONSTANTS
  Nodes,    \* the hmc_notify objects
  NoNode,   \* nullptr
  Bits,     \* bit numbers
  Up,       \* Up[n]: the node above, or NoNode (up)
  Id,       \* Id[n]: the bit of n in the node above (id)
  Group,    \* Group[n]: the nodes the owner of n looks at in notify_up
  Depth,    \* Depth[n]: number of nodes above n
  LeafBit   \* LeafBit[n]: the bit used at the leaf n

ASSUME NotifyAssumption ==
  /\ NoNode \notin Nodes
  /\ Up \in [Nodes -> Nodes \union {NoNode}]
  /\ Id \in [Nodes -> Bits]
  /\ Group \in [Nodes -> SUBSET Nodes]
  /\ Depth \in [Nodes -> Nat]
  /\ \A n \in Nodes : Up[n] # NoNode => Depth[n] > Depth[Up[n]]

\* The nodes with nodes below them, and the others.
Inner == {Up[n] : n \in Nodes} \ {NoNode}

Leaves == {n \in Nodes : n \notin Inner}

ASSUME LeafAssumption == LeafBit \in [Leaves -> Bits]

VARIABLE notifier   \* notifier[n]: the bits set in n

-----------------------------------------------------------------------------
(* A call that goes up the tree: the masks, the node it is at (NoNode once  *)
(* it has returned) and the bit it adds or deletes there (down_id).         *)

Walk == [notifier : [Nodes -> SUBSET Bits], at : Nodes \union {NoNode}, bit : Bits]

Stop(w, masks) == [w EXCEPT !.notifier = masks, !.at = NoNode]

GoUp(w, masks) == [notifier |-> masks, at |-> Up[w.at], bit |-> Id[w.at]]

With(w) == [w.notifier EXCEPT ![w.at] = @ \union {w.bit}]

\* Mutant: clears the last bit only.
WithoutLast(w) ==
  [w.notifier EXCEPT ![w.at] = IF @ = {w.bit} THEN {} ELSE @]

Without(w) == [w.notifier EXCEPT ![w.at] = @ \ {w.bit}]

\* Mutant: the owner looks at the node itself only.
NotifyUpSelf(masks, n) == masks[n] = {}

\* The owner agrees to delete the bit above: everything it has is idle.
NotifyUp(masks, n) == \A m \in Group[n] : masks[m] = {}

\* One level of notify_add.
AddStep[w \in Walk] ==
  IF w.at = NoNode THEN w
  ELSE IF w.bit \in w.notifier[w.at] THEN Stop(w, w.notifier)
  ELSE IF Up[w.at] = NoNode THEN Stop(w, With(w))
  ELSE GoUp(w, With(w))

\* One level of notify_del.
DelStep[w \in Walk] ==
  IF w.at = NoNode THEN w
  ELSE IF Up[w.at] # NoNode /\ NotifyUp(Without(w), w.at)
  THEN GoUp(w, Without(w))
  ELSE Stop(w, Without(w))

\* A call at node n returns after at most one level per node above.
Called(Step, masks, n, b) ==
  Iterated(Step, [notifier |-> masks, at |-> n, bit |-> b])[Depth[n] + 1].notifier

Init == notifier = [n \in Nodes |-> {}]

NotifyAdd(n) == notifier' = Called(AddStep, notifier, n, LeafBit[n])

NotifyDel(n) == notifier' = Called(DelStep, notifier, n, LeafBit[n])

Next == \E n \in Leaves : NotifyAdd(n) \/ NotifyDel(n)

Spec == Init /\ [][Next]_notifier

-----------------------------------------------------------------------------
(* Properties. *)

\* Something below bit b of m has work.
Busy(masks, m, b) ==
  \E n \in Nodes : Up[n] = m /\ Id[n] = b /\ masks[n] # {}

ExactIn(masks) == \A m \in Inner, b \in Bits : b \in masks[m] <=> Busy(masks, m, b)

\* Every bit of every inner node is set exactly when a node below it has
\* work: the calls stop going up early, and the nodes that share a bit are
\* set and cleared in any order, yet no work is hidden and no idle module is
\* entered.
Exact == ExactIn(notifier)

\* What the tree needs for it: a node's owner looks at exactly the nodes
\* that share its bit.
GroupsMatch ==
  \A n \in Nodes : Up[n] # NoNode =>
    Group[n] = {m \in Nodes : Up[m] = Up[n] /\ Id[m] = Id[n]}
=============================================================================
