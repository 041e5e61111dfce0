---------------------------- MODULE HmcNotifyTree ----------------------------
(***************************************************************************)
(* The tree of hmc_notify objects that the constructors build, and the     *)
(* descent of hmc_sim::clock along it.                                     *)
(*                                                                         *)
(* hmc_sim      cubes_notify                    slidnotify  slidbufnotify   *)
(* hmc_cube       quad_notify  conn_notify                                 *)
(* hmc_quad / hmc_conn   vault_notify    conn_notify                       *)
(* hmc_bobsim / conn_part  linknotify bobnotify    links_ linkrxbuf_notify *)
(* hmc_vault               link_notify linkrxbuf_notify                    *)
(* hmc_link                  not_rx_q  not_rx_buf     not_rx_q not_rx_buf  *)
(***************************************************************************)
EXTENDS Integers

CONSTANTS
  Cubes,   \* the ids of the cubes
  Quads,   \* the ids of the quads of a cube
  Slots,   \* the connected links of a quad's switch, by number
  Vaults,  \* the ids of the vaults of a quad
  Slids    \* the ids of the connected hosts

\* Every switch has links, to its vaults at least.
ASSUME TreeAssumption ==
  /\ Cubes \subseteq Nat /\ Quads \subseteq Nat /\ Slots \subseteq Nat
  /\ Vaults \subseteq Nat /\ Slids \subseteq Nat
  /\ Slots # {}

\* A node: the member of its owner, and which owner.
Node(kind, c, q, i) == [kind |-> kind, cube |-> c, quad |-> q, i |-> i]

None == Node("nullptr", 0, 0, 0)

SimNodes == {Node(k, 0, 0, 0) : k \in {"cubes", "slid", "slidbuf"}}

CubeNodes == {Node(k, c, 0, 0) : k \in {"cube.quad", "cube.conn", "conn.conn"}, c \in Cubes}

QuadNodes ==
  {Node(k, c, q, 0) : k \in {"part.links", "part.rxbuf", "quad.vault"}, c \in Cubes, q \in Quads}

PartLinkNodes ==
  {Node(k, c, q, i) : k \in {"part.rx_q", "part.rx_buf"}, c \in Cubes, q \in Quads, i \in Slots}

VaultNodes ==
  {Node(k, c, q, i) : k \in {"bobsim.link", "bobsim.bob", "vault.link", "vault.rxbuf",
                             "vault.rx_q", "vault.rx_buf"},
                      c \in Cubes, q \in Quads, i \in Vaults}

SlidNodes == {Node(k, 0, 0, i) : k \in {"slid.rx_q", "slid.rx_buf"}, i \in Slids}

TreeNodes ==
  SimNodes \union CubeNodes \union QuadNodes \union PartLinkNodes \union VaultNodes
    \union SlidNodes

\* The kind of the node above.
UpKind(kind) ==
  CASE kind = "cube.quad"    -> "cubes"
    [] kind = "cube.conn"    -> "cubes"
    [] kind = "conn.conn"    -> "cube.conn"
    [] kind = "part.links"   -> "conn.conn"
    [] kind = "part.rxbuf"   -> "conn.conn"
    [] kind = "part.rx_q"    -> "part.links"
    [] kind = "part.rx_buf"  -> "part.rxbuf"
    [] kind = "quad.vault"   -> "cube.quad"
    [] kind = "bobsim.link"  -> "quad.vault"
    [] kind = "bobsim.bob"   -> "quad.vault"
    [] kind = "vault.link"   -> "bobsim.link"
    [] kind = "vault.rxbuf"  -> "bobsim.link"
    [] kind = "vault.rx_q"   -> "vault.link"
    [] kind = "vault.rx_buf" -> "vault.rxbuf"
    [] kind = "slid.rx_q"    -> "slid"
    [] kind = "slid.rx_buf"  -> "slidbuf"
    [] OTHER                 -> "nullptr"

\* The owner of the node above.
UpNode(n) ==
  LET k == UpKind(n.kind) IN
  CASE k \in {"cubes", "slid", "slidbuf"}          -> Node(k, 0, 0, 0)
    [] k \in {"cube.quad", "cube.conn", "conn.conn"} -> Node(k, n.cube, 0, 0)
    [] k \in {"part.links", "part.rxbuf", "quad.vault"} -> Node(k, n.cube, n.quad, 0)
    [] k \in {"bobsim.link", "vault.link", "vault.rxbuf"} -> Node(k, n.cube, n.quad, n.i)
    [] OTHER -> None

\* The bit given to the constructor or to set_ilink_notify.
IdOf(n) ==
  CASE n.kind \in {"cube.quad", "cube.conn"}                -> n.cube
    [] n.kind \in {"part.links", "part.rxbuf", "quad.vault"} -> n.quad
    [] n.kind \in {"part.rx_q", "part.rx_buf", "slid.rx_q", "slid.rx_buf"} -> n.i
    [] n.kind \in {"bobsim.link", "bobsim.bob", "vault.link", "vault.rxbuf"} -> n.i
    [] n.kind \in {"vault.rx_q", "vault.rx_buf"}              -> n.quad
    [] OTHER                                                  -> 0

\* Mutant: the switch of a quad looks at its queues only.
GroupKindsQueues(kind) ==
  CASE kind \in {"cube.quad", "cube.conn"}      -> {"cube.quad", "cube.conn"}
    [] kind \in {"part.links", "part.rxbuf"}    -> {"part.links"}
    [] kind \in {"bobsim.link", "bobsim.bob"}   -> {"bobsim.link", "bobsim.bob"}
    [] kind \in {"vault.link", "vault.rxbuf"}   -> {"vault.link", "vault.rxbuf"}
    [] kind \in {"cubes", "slid", "slidbuf"}    -> {}
    [] OTHER                                    -> {kind}

\* The members that notify_up of the owner of a node of this kind looks at.
GroupKinds(kind) ==
  CASE kind \in {"cube.quad", "cube.conn"}      -> {"cube.quad", "cube.conn"}
    [] kind \in {"part.links", "part.rxbuf"}    -> {"part.links", "part.rxbuf"}
    [] kind \in {"bobsim.link", "bobsim.bob"}   -> {"bobsim.link", "bobsim.bob"}
    [] kind \in {"vault.link", "vault.rxbuf"}   -> {"vault.link", "vault.rxbuf"}
    [] kind \in {"cubes", "slid", "slidbuf"}    -> {}
    [] OTHER                                    -> {kind}

GroupOf(n) == {Node(k, n.cube, n.quad, n.i) : k \in GroupKinds(n.kind)}

DepthOf(n) ==
  CASE n.kind \in {"cubes", "slid", "slidbuf"}                                -> 0
    [] n.kind \in {"cube.quad", "cube.conn", "slid.rx_q", "slid.rx_buf"}      -> 1
    [] n.kind \in {"conn.conn", "quad.vault"}                                 -> 2
    [] n.kind \in {"part.links", "part.rxbuf", "bobsim.link", "bobsim.bob"}   -> 3
    [] n.kind \in {"part.rx_q", "part.rx_buf", "vault.link", "vault.rxbuf"}   -> 4
    [] OTHER                                                                  -> 5

\* A queue uses the number of its link, a buffer and a controller bit 0.
LeafBitOf(n) ==
  IF n.kind \in {"part.rx_q", "vault.rx_q", "slid.rx_q"} THEN IdOf(n) ELSE 0
=============================================================================
