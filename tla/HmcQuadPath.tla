----------------------------- MODULE HmcQuadPath -----------------------------
(***************************************************************************)
(* The quads of a cube, the links between them and where the switch of a   *)
(* quad sends what is for another quad (hmc_ring, hmc_xbar).               *)
(***************************************************************************)
EXTENDS Integers

QuadIds == 0..3

\* The slots of a switch: the external link, the links to quads, the vaults.
EXT_LINK == 0
RING_LINK(q) == 1 + q
VAULT_LINK(v) == 5 + v

\* Exclusive or with 1 or 2.
Flip(id, bit) == IF (id \div bit) % 2 = 0 THEN id + bit ELSE id - bit

\* Mutant: always along the second axis.
RingRoutingUp(id, nextquad) == Flip(id, 2)

\* First along the first axis, then along the second.
RingRouting(id, nextquad) == IF id % 2 # nextquad % 2 THEN Flip(id, 1) ELSE Flip(id, 2)

\* Mutant: neighbours by ascending number.
RingLinksByNumber == {{i, (i + 1) % 4} : i \in QuadIds}

\* The links that the constructor of the ring makes, by its map.
RingLinks == {{i, <<2, 0, 3, 1>>[i + 1]} : i \in QuadIds}

XbarLinks == {{i, j} : i, j \in QuadIds} \ {{i} : i \in QuadIds}

Topologies == {"ring", "xbar"}

Routing(topology, id, nextquad) ==
  IF topology = "ring" THEN RingRouting(id, nextquad) ELSE nextquad

QuadLinks(topology) == IF topology = "ring" THEN RingLinks ELSE XbarLinks
=============================================================================
