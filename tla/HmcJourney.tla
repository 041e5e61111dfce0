------------------------------ MODULE HmcJourney ------------------------------
(***************************************************************************)
(* The way of one request and its response: encoded by the driver, sent by *)
(* a host, through the switches of the quads and cubes to a vault, carried *)
(* out, and back to the host (hmc_sim, decode_link_of_packet, ext_routing, *)
(* hmc_bobsim, hmc_vault).  Meanwhile registers are written, which changes *)
(* how addresses are decoded under way.                                    *)
(*                                                                         *)
(* Queues and other packets are left out: a packet may stay wherever it is *)
(* for any time.                                                           *)
(***************************************************************************)
EXTENDS HmcVault, HmcRegister, HmcQuadPath

CONSTANTS
  Cubes,      \* the ids of the cubes
  HostAt,     \* HostAt[s]: cube and quad of host s (slidToCube)
  Wire,       \* Wire[<<c, q>>]: the cube and quad that q's external link leads to
  Ext,        \* Ext[c][d]: the links of the first route from cube c to d
  Rqsts,      \* bound: the commands and tags used, <<cmd, tag>>
  Addresses,  \* bound: the addresses used, as sets of bits
  Cells,      \* bound: the places used, [quad, vault, bank, dram]
  JtagWrites, \* bound: JTAG writes <<cube, index, value>>
  Blocksizes, \* bound: calls of hmcsim_util_set_max_blocksize, <<cube, bsize>>
  MaxWrites   \* bound: register writes in a behaviour

Slids == DOMAIN HostAt

RqstTags == 0..(2^16 - 1)

ASSUME JourneyAssumption ==
  /\ Cubes \subseteq 0..7 /\ Slids \subseteq 0..7
  /\ HostAt \in [Slids -> Cubes \X QuadIds]
  /\ \A s, t \in Slids : HostAt[s] = HostAt[t] => s = t
  /\ DOMAIN Wire \subseteq Cubes \X QuadIds
  /\ \A p \in DOMAIN Wire : Wire[p] \in DOMAIN Wire /\ Wire[Wire[p]] = p
  /\ \A s \in Slids : HostAt[s] \notin DOMAIN Wire
  /\ \A c \in Cubes : \A d \in Cubes \ {c} :
       Ext[c][d] # {} /\ \A l \in Ext[c][d] :
         <<c, l>> \in DOMAIN Wire /\ Wire[<<c, l>>][1] # c
  /\ Rqsts \subseteq Executable \X RqstTags
  /\ Cells \subseteq [quad : QuadIds, vault : 0..(VAULTS_PER_QUAD - 1),
                      bank : SUBSET (0..31), dram : SUBSET (0..31)]
  /\ JtagWrites \subseteq Cubes \X Registers \X SUBSET (0..63)
  /\ Blocksizes \subseteq Cubes \X {32, 64, 128, 256}
  /\ MaxWrites \in Nat

VARIABLES
  topology,   \* HMCSIM_QUAD_CONNECTION
  capacity,
  cubes,      \* cubes[c]: its registers and its decoding
  place,      \* where the packet is
  packet,
  cell,       \* what the DRAM simulator was given, see Cell
  asked,      \* what the driver asked for, and of which host
  disturbed,  \* parts of the way in which registers of its cube were written
  written     \* the registers written so far, in order

\* History for the properties, not in the code: asked, disturbed and written.
vars == <<topology, capacity, cubes, place, packet, cell, asked, disturbed, written>>

AtDriver == <<"driver">>
AtHost(s) == <<"host", s>>
AtQuad(c, q) == <<"quad", c, q>>
AtVault(c, q, v) == <<"vault", c, q, v>>
InDram(c, q, v) == <<"dram", c, q, v>>
Over == <<"over">>

Nothing == <<>>

Init ==
  /\ topology \in Topologies
  /\ capacity \in {4, 8}
  /\ cubes = [c \in Cubes |-> Constructed(capacity)]
  /\ place = AtDriver /\ packet = Nothing /\ cell = Nothing
  /\ asked = Nothing /\ disturbed = {} /\ written = <<>>

-----------------------------------------------------------------------------
(* Encoding (both hmc_encode_pkt).  A field of the header takes the low bits. *)

\* Mutant: the tag is not cut.
RequestWithTag(cub, addr, tag, cmd) ==
  [cmd |-> cmd, lng |-> RqstFlits(cmd) % 32, tag |-> tag, adrs |-> addr \intersect 0..33,
   cub |-> cub % 8, slid |-> 0]

Request(cub, addr, tag, cmd) ==
  [cmd |-> cmd, lng |-> RqstFlits(cmd) % 32, tag |-> tag % 2048, adrs |-> addr \intersect 0..33,
   cub |-> cub % 8, slid |-> 0]

Encode(cub, addr, tag, cmd, where) ==
  /\ place = AtDriver /\ packet = Nothing
  /\ packet' = Request(cub, addr, tag, cmd)
  /\ asked' = [cub |-> cub, tag |-> tag, cmd |-> cmd, where |-> where, slid |-> 0]
  /\ disturbed' = {}
  /\ UNCHANGED <<topology, capacity, cubes, place, cell, written>>

EncodeAddress(cub, addr, tag, cmd) == Encode(cub, addr, tag, cmd, Nothing)

EncodeCell(cub, x, tag, cmd) ==
  Encode(cub, Address(BitsOf(x.quad), BitsOf(x.vault), x.bank, x.dram, cubes[cub].decoding),
         tag, cmd, x)

-----------------------------------------------------------------------------
(* Routing. *)

\* HMCSIM_PACKET_IS_RESPONSE
IsResponse(p) == "errstat" \in DOMAIN p

DestCube(p) == IF IsResponse(p) THEN HostAt[p.slid][1] ELSE p.cub

\* Mutant: the quad is decoded as for the block size after a reset.
WantedQuadAsReset(c, p) ==
  IF DestCube(p) # c THEN Min(Ext[c][DestCube(p)])
  ELSE IF IsResponse(p) THEN HostAt[p.slid][2]
  ELSE Quad(p.adrs, [cubes[c].decoding EXCEPT !.quad = Field(10, 0..1)])

\* The quad by which packet p has to leave the switches of cube c.
WantedQuad(c, p) ==
  IF DestCube(p) # c THEN Min(Ext[c][DestCube(p)])
  ELSE IF IsResponse(p) THEN HostAt[p.slid][2]
  ELSE Quad(p.adrs, cubes[c].decoding)

\* decode_link_of_packet and ext_routing.
DecodeLink(c, q, p) ==
  IF WantedQuad(c, p) # q THEN RING_LINK(Routing(topology, q, WantedQuad(c, p)))
  ELSE IF DestCube(p) = c /\ ~IsResponse(p) THEN VAULT_LINK(Vault(p.adrs, cubes[c].decoding))
  ELSE EXT_LINK

\* Where the slots of a switch lead, by who made the links: the definition of
\* a host, the connection of two cubes, ring or crossbar, and the quad.
HostEnds(c, q, slot) ==
  {AtHost(s) : s \in {t \in Slids : HostAt[t] = <<c, q>> /\ slot = EXT_LINK}}

External(c, q) ==
  {Wire[p] : p \in {<<c, q>>} \intersect DOMAIN Wire}

CubeEnds(c, q, slot) ==
  {AtQuad(e[1], e[2]) : e \in {x \in External(c, q) : slot = EXT_LINK}}

QuadEnds(c, q, slot) ==
  {AtQuad(c, r) : r \in {x \in QuadIds : slot = RING_LINK(x) /\ {q, x} \in QuadLinks(topology)}}

VaultEnds(c, q, slot) ==
  {AtVault(c, q, v) : v \in {x \in 0..(VAULTS_PER_QUAD - 1) : slot = VAULT_LINK(x)}}

EndOf(c, q, slot) ==
  HostEnds(c, q, slot) \union CubeEnds(c, q, slot) \union QuadEnds(c, q, slot)
    \union VaultEnds(c, q, slot)

-----------------------------------------------------------------------------
(* The steps of the packet. *)

\* hmc_send_pkt.
Send(s) ==
  /\ place = AtDriver /\ packet # Nothing
  /\ packet.cub \in Cubes
  /\ packet' = [packet EXCEPT !.slid = s]
  /\ asked' = [asked EXCEPT !.slid = s]
  /\ place' = AtQuad(HostAt[s][1], HostAt[s][2])
  /\ UNCHANGED <<topology, capacity, cubes, cell, disturbed, written>>

\* A switch passes the packet on.
Hop(c, q) ==
  /\ place = AtQuad(c, q)
  /\ place' \in EndOf(c, q, DecodeLink(c, q, packet))
  /\ UNCHANGED <<topology, capacity, cubes, packet, cell, asked, disturbed, written>>

\* hmc_bobsim::clock takes the request for the DRAM simulator; the bank is
\* decoded here, vault and quad were decoded at the switches.
Accept(c, q, v) ==
  /\ place = AtVault(c, q, v)
  /\ cell' = Cell(packet.adrs, cubes[c].decoding)
  /\ place' = InDram(c, q, v)
  /\ UNCHANGED <<topology, capacity, cubes, packet, asked, disturbed, written>>

\* hmcsim_process_rqst.
Answer(c, q, v) ==
  /\ place = InDram(c, q, v)
  /\ IF HasResponse(packet.cmd)
     THEN /\ packet' = Response(packet, c, GetBsize(cubes[c].regs))
          /\ place' = AtQuad(c, q)
     ELSE packet' = packet /\ place' = Over
  /\ UNCHANGED <<topology, capacity, cubes, cell, asked, disturbed, written>>

\* hmc_recv_pkt.
Recv(s) ==
  /\ place = AtHost(s)
  /\ packet.slid = s
  /\ place' = Over
  /\ UNCHANGED <<topology, capacity, cubes, packet, cell, asked, disturbed, written>>

-----------------------------------------------------------------------------
(* The registers. *)

\* The part of the way the packet is in: in a vault or before and after that.
Part == IF place[1] \in {"vault", "dram"} THEN "vault" ELSE "way"

Renewed(c, i, cube) ==
  /\ Len(written) < MaxWrites
  /\ written' = Append(written, <<c, i>>)
  /\ cubes' = [cubes EXCEPT ![c] = cube]
  /\ disturbed' = IF asked # Nothing /\ c = asked.cub THEN disturbed \union {Part}
                  ELSE disturbed
  /\ UNCHANGED <<topology, capacity, place, packet, cell, asked>>

JtagRegWrite(c, i, value) == Renewed(c, i, SetFull(cubes[c], i, value))

UtilSetMaxBlocksize(c, bsize) == Renewed(c, AC, SetMaxBlocksize(cubes[c], bsize))

-----------------------------------------------------------------------------
Step ==
  \/ \E s \in Slids : Send(s) \/ Recv(s)
  \/ \E c \in Cubes, q \in QuadIds :
       \/ Hop(c, q)
       \/ \E v \in 0..(VAULTS_PER_QUAD - 1) : Accept(c, q, v) \/ Answer(c, q, v)

Next ==
  \/ \E cub \in Cubes, r \in Rqsts :
       \/ \E addr \in Addresses : EncodeAddress(cub, addr, r[2], r[1])
       \/ \E x \in Cells : EncodeCell(cub, x, r[2], r[1])
  \/ Step
  \/ \E w \in JtagWrites : JtagRegWrite(w[1], w[2], w[3])
  \/ \E b \in Blocksizes : UtilSetMaxBlocksize(b[1], b[2])

\* The driver sends what it has encoded and takes what it gets, and every
\* link, switch and vault is clocked until the packet has left it.
Spec == Init /\ [][Next]_vars /\ WF_vars(Step)

-----------------------------------------------------------------------------
(* Properties. *)

Tags == 0..2047

PacketType ==
  packet = Nothing
    \/ IF IsResponse(packet)
       THEN packet.slid \in Slids /\ packet.tag \in Tags /\ packet.cub \in Cubes
       ELSE packet.cub \in Cubes /\ packet.tag \in Tags /\ packet.adrs \subseteq 0..33

\* Every variable has its type.  A packet's fields fit into their bits.
TypeOK ==
  /\ topology \in Topologies /\ capacity \in {4, 8}
  /\ \A c \in Cubes : cubes[c].regs \in [Registers -> SUBSET (0..31)]
  /\ place[1] \in {"driver", "host", "quad", "vault", "dram", "over"}
  /\ PacketType
  /\ disturbed \subseteq {"way", "vault"} /\ written \in Seq(Cubes \X Registers)

\* FEAT of cube c was written after the last write of AC.
FeatPending(c) ==
  \E i \in DOMAIN written :
    written[i] = <<c, FEAT>> /\ \A j \in DOMAIN written : j > i => written[j] # <<c, AC>>

\* FEAT of cube c was written, and AC after it.
BanksRenewed(c) ==
  \E i, j \in DOMAIN written : i < j /\ written[i] = <<c, FEAT>> /\ written[j] = <<c, AC>>

\* The decoding is a copy of two registers.  Its block size is never stale: it
\* is the one by which the vaults check the size of a request.  All of it is
\* what the registers say, but for banks written to FEAT since AC was written.
DecodingFresh ==
  \A c \in Cubes :
    LET regs == cubes[c].regs IN
    /\ cubes[c].decoding.start = Log2(GetBsize(regs))
    /\ ~FeatPending(c) =>
         cubes[c].decoding = SetDecoding(GetBsize(regs), GetNumBanksPerVault(regs))

\* After construction every field of every register reads as its reset value,
\* whichever fields were reset after it; the sizes in FEAT as the capacity.
FieldsKept ==
  written = <<>> => \A c \in Cubes : \A k \in DOMAIN Indices : \A i \in Indices[k] :
    \A f \in ToSet(Fields[k]) :
      Get(cubes[c].regs[i], f) =
        CASE k = "FEAT" /\ f = CubeSize      -> BitsOf(IF capacity = 8 THEN 2 ELSE 1)
          [] k = "FEAT" /\ f = BanksPerVault -> BitsOf(IF capacity = 8 THEN 1 ELSE 0)
          [] OTHER                           -> f.reset

\* The bits of an address that a field is taken from.
Source(f) == Up(f.mask, f.shift)

\* The mapping documented in hmc_decode.cpp, for the vendor independent modes.
Documented(d) == d.start >= 5 /\ d.bank.mask \in {0..2, 0..3}

TableDram(d) ==
  LET b == d.start
      n == Cardinality(d.bank.mask)
  IN  4..(b - 1) \union (b + 5 + n)..(28 + n)

\* Whatever number of banks and vendor independent mode the registers were
\* given, in any order, vault, quad, bank and the low part of the DRAM address
\* come from the bits that the table names.  Each of the twenty bits of the
\* DRAM address comes from a bit of its own, and no bit is used twice.  Which
\* bits the high part takes is not said here: see EveryBitCounts.
DecodesByTable ==
  \A c \in Cubes :
    LET d == cubes[c].decoding
        b == d.start
        n == Cardinality(d.bank.mask)
        fields == {"vault", "quad", "bank", "dram_lo", "dram_hi"}
    IN  d.start >= 5 =>
          /\ Source(d.vault) = b..(b + 2)
          /\ Source(d.quad) = (b + 3)..(b + 4)
          /\ Source(d.bank) = (b + 5)..(b + 4 + n)
          /\ Source(d.dram_lo) = 4..(b - 1)
          /\ d.dram_lo.mask \union d.dram_hi.mask = 0..19
          /\ d.dram_lo.mask \intersect d.dram_hi.mask = {}
          /\ \A x, y \in fields : x # y => Source(d[x]) \intersect Source(d[y]) = {}

\* Every bit that the table gives to the DRAM address is part of it: no two
\* addresses of a cube are the same cell.
EveryBitCounts ==
  \A c \in Cubes :
    LET d == cubes[c].decoding IN
    Documented(d) => TableDram(d) \subseteq Source(d.dram_lo) \union Source(d.dram_hi)

\* A switch never sends a packet to a slot without link (the assertion of
\* hmc_conn_part::clock), also if the decoding changes under way.
LinkExists ==
  \A c \in Cubes, q \in QuadIds :
    place = AtQuad(c, q) => Cardinality(EndOf(c, q, DecodeLink(c, q, packet))) = 1

\* The number of links between two quads.
QuadDistance(q, r) ==
  IF topology = "xbar" THEN (IF q = r THEN 0 ELSE 1)
  ELSE Cardinality({bit \in {1, 2} : (q \div bit) % 2 # (r \div bit) % 2})

\* Every hop within a cube brings the packet nearer to the quad it has to
\* leave by, as its address is decoded at that time.
HopsNearer ==
  [][\A c \in Cubes, q, r \in QuadIds :
       q # r /\ place = AtQuad(c, q) /\ place' = AtQuad(c, r) =>
         QuadDistance(r, WantedQuad(c, packet)) < QuadDistance(q, WantedQuad(c, packet))]_vars

\* A request encoded for a vault and bank gets there, in whatever cube and by
\* whatever way, if no register of the cube is written meanwhile.  (Its DRAM
\* address does not, see the README.)
ArrivesAsEncoded ==
  \A c \in Cubes, q \in QuadIds, v \in 0..(VAULTS_PER_QUAD - 1) :
    LET x == asked.where
        d == cubes[c].decoding
    IN  place = InDram(c, q, v) /\ disturbed = {} /\ x # Nothing /\ d.start >= 5 =>
          /\ c = asked.cub /\ q = x.quad /\ v = x.vault
          /\ x.bank \subseteq d.bank.mask =>
               cell.bank = x.bank \intersect {0} /\ BitsOf(cell.rank) = Down(x.bank, 1)

\* Quad and vault are decoded at the switches, bank, rank and cell when the
\* vault hands the request over.  They all follow one decoding, whatever was
\* written to the registers on the way, unless it was while the request
\* waited in the vault (or after it was handed over).
OneDecoding ==
  \A c \in Cubes, q \in QuadIds, v \in 0..(VAULTS_PER_QUAD - 1) :
    LET d == cubes[c].decoding
    IN  place = InDram(c, q, v) /\ "vault" \notin disturbed =>
          /\ c = asked.cub
          /\ q = Quad(packet.adrs, d) /\ v = Vault(packet.adrs, d)
          /\ cell = Cell(packet.adrs, d)

\* The DRAM simulator of a vault has as many ranks as the capacity says.  A
\* request is for one of them: banks written to the read-only FEAT do no harm
\* before AC is written after it.
RankExists ==
  cell # Nothing /\ ~BanksRenewed(asked.cub) => cell.rank < capacity

\* The flits of data in the answer to a command.
DataFlits(cmd) ==
  CASE cmd \in Reads -> Bytes[cmd] \div 16
    [] cmd \in {"MD_RD", "BWR8R"} -> 1
    [] OTHER -> 0

\* What a host gets is the response to what it has sent itself: its tag (of
\* which eleven bits are kept), the right length, and an error exactly if the
\* data are more than a block, unless a register was written under way.
AnswerFits ==
  \A s \in Slids : place = AtHost(s) =>
    /\ IsResponse(packet) /\ packet.slid = s /\ asked.slid = s
    /\ packet.tag = asked.tag % 2048 /\ packet.cub = asked.cub
    /\ packet.lng = 1 + DataFlits(asked.cmd)
    /\ (disturbed = {} /\ cubes[asked.cub].decoding.start >= 5) =>
         (packet.errstat <=> asked.cmd \in DOMAIN Bytes
                               /\ Bytes[asked.cmd] > 2^cubes[asked.cub].decoding.start)

\* Every packet that was encoded gets to the end of its way, whatever is
\* written to the registers before or meanwhile.
Returns == packet # Nothing ~> place = Over
=============================================================================
