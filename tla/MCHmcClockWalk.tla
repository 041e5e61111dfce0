--------------------------- MODULE MCHmcClockWalk ----------------------------
(* Every number of a node is small: 0 and 1. *)
EXTENDS HmcClockWalk

MCUp == [n \in TreeNodes |-> UpNode(n)]
MCId == [n \in TreeNodes |-> IdOf(n)]
MCGroup == [n \in TreeNodes |-> GroupOf(n)]
MCDepth == [n \in TreeNodes |-> DepthOf(n)]
MCLeafBit == [n \in Leaves |-> LeafBitOf(n)]
=============================================================================
