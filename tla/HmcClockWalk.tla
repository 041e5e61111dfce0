---------------------------- MODULE HmcClockWalk -----------------------------
(***************************************************************************)
(* Which modules one hmc_sim::clock enters: every level looks at the bits  *)
(* of its own hmc_notify and clocks those below that are set.              *)
(***************************************************************************)
EXTENDS HmcNotify, HmcNotifyTree

ASSUME ClockWalkAssumption ==
  /\ Nodes = TreeNodes /\ NoNode = None
  /\ Cubes \union Quads \union Slots \union Vaults \union Slids \union {0} \subseteq Bits
  /\ Up = [n \in TreeNodes |-> UpNode(n)]
  /\ Id = [n \in TreeNodes |-> IdOf(n)]
  /\ Group = [n \in TreeNodes |-> GroupOf(n)]

Set(kind, c, q, i) == notifier[Node(kind, c, q, i)]

\* hmc_sim::clock, hmc_cube::clock and hmc_conn::clock down to the switch of
\* a quad.
PartClocked(c, q) ==
  /\ c \in Set("cubes", 0, 0, 0)
  /\ Set("cube.conn", c, 0, 0) # {}
  /\ q \in Set("conn.conn", c, 0, 0)

\* The first half of hmc_conn_part::clock and hmc_link::clock.
PartQueueClocked(c, q, i) ==
  /\ PartClocked(c, q)
  /\ i \in Set("part.links", c, q, 0)
  /\ Set("part.rx_q", c, q, i) # {}

\* The second half: the buffers the round robin chooses from.
PartBufferOffered(c, q, i) ==
  PartClocked(c, q) /\ i \in Set("part.rxbuf", c, q, 0)

\* hmc_cube::clock and hmc_quad::clock down to a vault.
VaultClocked(c, q, v) ==
  /\ c \in Set("cubes", 0, 0, 0)
  /\ q \in Set("cube.quad", c, 0, 0)
  /\ v \in Set("quad.vault", c, q, 0)

\* hmc_bobsim::clock: the controller, the queue and the buffer of the link.
ControllerClocked(c, q, v) == VaultClocked(c, q, v) /\ Set("bobsim.bob", c, q, v) # {}

VaultLinkClocked(c, q, v) == VaultClocked(c, q, v) /\ Set("bobsim.link", c, q, v) # {}

VaultQueueClocked(c, q, v) ==
  VaultLinkClocked(c, q, v) /\ Set("vault.rx_q", c, q, v) # {}

-----------------------------------------------------------------------------
(* Properties. *)

\* Whatever has work is entered by the next clock, through every level.
WorkReached ==
  \A c \in Cubes, q \in Quads :
    /\ \A i \in Slots :
         /\ Set("part.rx_q", c, q, i) # {} => PartQueueClocked(c, q, i)
         /\ Set("part.rx_buf", c, q, i) # {} => PartBufferOffered(c, q, i)
    /\ \A v \in Vaults :
         /\ Set("bobsim.bob", c, q, v) # {} => ControllerClocked(c, q, v)
         /\ Set("vault.rx_q", c, q, v) # {} => VaultQueueClocked(c, q, v)
         /\ Set("vault.rx_buf", c, q, v) # {} => VaultLinkClocked(c, q, v)

\* A module without work is not entered.  The switch of a quad relies on it
\* for its assertion that the chosen buffer has a packet.
IdleSkipped ==
  \A c \in Cubes, q \in Quads :
    /\ PartClocked(c, q) =>
         \E i \in Slots : Set("part.rx_q", c, q, i) # {} \/ Set("part.rx_buf", c, q, i) # {}
    /\ \A i \in Slots :
         PartBufferOffered(c, q, i) => Set("part.rx_buf", c, q, i) # {}
    /\ \A v \in Vaults :
         /\ VaultClocked(c, q, v) =>
              \/ Set("bobsim.bob", c, q, v) # {}
              \/ Set("vault.rx_q", c, q, v) # {}
              \/ Set("vault.rx_buf", c, q, v) # {}
=============================================================================
