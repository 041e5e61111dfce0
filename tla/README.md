# A verification project for sim-hmc

sim-hmc simulates networks of Hybrid Memory Cubes, cycle by cycle, in one thread. A driver packs requests, hands them
to a host link, calls `hmc_sim::clock` once per cycle and takes responses from the host link. Nothing runs
concurrently in the sense of threads, but within one cycle dozens of modules are clocked one after the other, each
pushes packets into queues that others read in the same or a later cycle, and which modules are clocked at all is
decided by bits that were set and cleared elsewhere. These are the interleavings the models are about.

The build modelled is the default one: `HMC_USES_NOTIFY` and `HMC_USES_BOBSIM` on, logging and CRC off.

## The system

| component | state | operations | depends on |
|---|---|---|---|
| `hmc_sim` (hmc_sim.cpp) | cycle counter, cubes, hosts, two host notifications | set-up calls, send, receive, encode, decode, `clock` | everything below |
| `hmc_link`, `hmc_link_queue`, `hmc_link_fifo` | list of packets with what is left to send and a time stamp, receive buffer, two occupation counters, two notifications | `push_back`, `has_space`, `clock`, `reserve_space`, `front`, `pop_front` | cycle counter, `hmc_notify` |
| `hmc_notify` | one bit mask per object, in a tree | `notify_add`, `notify_del`, `get_notification`, `set` | `notify_up` of the owners |
| `hmc_conn_part` (switch of a quad) | its links by slot, round robin position | `clock`, `decode_link_of_packet`, `_set_link` | links, routing, address decoding |
| `hmc_ring`, `hmc_xbar` | four switches and the links between them | `routing` | `hmc_conn_part` |
| `hmc_route` | link graph, routing tables, place of each host | `hmc_routing_tables_update`, `ext_routing`, `set_slid` | set-up calls |
| `hmc_cube`, `hmc_quad` | quads and vaults, notifications | `clock` | the above |
| `hmc_bobsim` (bridge to the DRAM simulator) | feedback cache, countdown, two notifications | `clock`, `bob_feedback` | link, `hmc_vault`, BOBSim |
| `hmc_vault` | command table | `hmcsim_process_rqst` | link |
| `hmc_decode` | shifts and masks | `set_decoding`, encode and decode of fields | registers |
| `hmc_register`, `hmc_jtag` | registers with read-only fields | set, get, reset | `hmc_decode` |
| C wrapper, graphviz, traces, driver, tools | - | thin calls, parsing, output | `hmc_sim` |
| BOBSim (`extern/bobsim`, vendored) | DRAM simulator | `AddTransaction`, `IsPortBusy`, `Update`, callback | called by `hmc_bobsim` |

Components interact by calls and shared state only: a module pushes into the queue of its neighbour (`get_tx`), the
neighbour clocks that queue later in the same cycle or in the next one, and both sides tell the tree of `hmc_notify`
objects. Set-up happens before the first cycle.

What is hard, and what correct means there:

* *Link.* The queue counts unit intervals, the buffer bits, each changed at several places; notifications are set on
  one condition and cleared on another. Correct: a link is a channel; its counters balance; it respects its rate.
* *Notifications.* Calls go up the tree and stop early. Correct: a bit is set exactly if there is work below it.
* *Switch.* One packet per cycle, chosen by shifting masks. Correct: fair turns; packets from one link to another
  neither lost, doubled nor overtaken.
* *Routing tables.* Built by a depth first search that is repeated for every connection on top of the old result.
  Correct: entries are shortest ways; packets arrive.
* *Set-up.* Two link ends made one after the other, either of which may find its place taken. Correct: success means
  connected, responses go where the host is.
* *Network.* Every switch decodes a packet anew, with routing tables, topology and registers that were set up apart.
  Correct: there is always a link to send it to, it comes nearer with every hop, and the response comes back to the
  host that asked. Requests and responses share buffers. Correct: no cycle of full buffers.
* *Bridge.* Responses that do not fit are cached; a countdown ends the clocking of the controller. Correct: one
  response per request; none is left behind.
* *Addresses and registers.* An address is decoded at four places under way, and the registers that say how may be
  written meanwhile. Correct: no two addresses share a cell; the decoding follows the registers; a packet gets to the
  place it was encoded for.

All hazards, each at its line, are in `PROJECT.json`; those no property covers say why.

## Modules

| module | models | how |
|---|---|---|
| `HmcLinkParts` | `hmc_link_queue`, `hmc_link_fifo` | operators on two records; the loop of `hmc_link_queue::clock` is a function iterated once per entry |
| `HmcLink` | one direction of a link and its use | `Push`, `Clock`, `Pop`, `Tick` |
| `HmcChannel` | what a link promises | abstract specification: accept, arrive, take |
| `HmcNotify` | `notify_add`, `notify_del` over any tree | one step per level, iterated; one action per call at a leaf |
| `HmcNotifyTree` | the tree the constructors build | nodes, the node above, the bit there, and what each `notify_up` looks at |
| `HmcClockWalk` | the descent of one `hmc_sim::clock` | which queues, buffers and controllers it enters for given bits |
| `HmcConnPart` | `hmc_conn_part::clock` | its links are channels; `Send`, `Clock`, `Drain` |
| `HmcRoute` | `hmc_set_link_config`, `hmc_define_slid`, `hmc_route` | one action per call; the search as a recursive function of the depth, the way of a packet as an iterated one |
| `HmcCommand` | `hmc_rqst_t`, the switch of `hmc_encode_pkt`, the table of `hmc_vault`, `hmc_determineTransactionType` | sets of commands, and functions of a command |
| `HmcVault` | `hmcsim_process_rqst` | the stall, the check of the size and the response, as operators |
| `HmcMemory` | what a vault promises | abstract specification: accept, complete, answer |
| `HmcBobsim` | `hmc_bobsim` | `Send`, `Clock`, `Drain`; the DRAM simulator is a port, a list of reads and a set of writes |
| `HmcDecode` | `hmc_decode` | `SetDecoding`, decode and encode of addresses as sets of bits |
| `HmcRegister` | `hmc_register`, `hmc_jtag`, block size call of the C wrapper | the table of fields, construction, reading and writing |
| `HmcQuadPath` | `hmc_ring`, `hmc_xbar` | the links between quads and the routing along them |
| `HmcJourney` | `hmc_encode_pkt`, `hmc_send_pkt`, `hmc_recv_pkt`, `decode_link_of_packet`, `ext_routing` | one packet from the driver to a vault and back: `EncodeAddress`, `EncodeCell`, `Send`, `Hop`, `Accept`, `Answer`, `Recv`, and the register writes |
| `HmcRecursion` | - | iteration of a function and sums (`Total`), as recursive functions that proofs can use |
| `HmcFold` | - | folds of a function over a sequence in the same form; what is selected from a sequence, and two sequences joined |

`HmcClockWalk` composes `HmcNotify` with `HmcNotifyTree`. `HmcLink` and every pair of links of `HmcConnPart` are shown
to implement `HmcChannel`, each by a refinement mapping, so that the switch may use channels where the code has links.
`HmcBobsim` is shown to implement `HmcMemory`. `HmcJourney` composes `HmcVault`, `HmcRegister` with its `HmcDecode`, and
`HmcQuadPath`; the ways between cubes are a constant there (`Ext`, `Wire`), and `NetworkUsable` of `HmcRoute` says that they are as assumed.

Correspondence worth knowing:

* A time stamp equal to the current cycle is the field `fresh`; `Tick` (the counter of `hmc_sim` moving on) clears it.
  `Tick` waits until a queue that has an entry from an earlier cycle was clocked: the descent reaches every such queue
  (that is `WorkReached`, of another module).
* `Push` may come before or after `Clock` in a cycle: the order in which the modules of a cycle are clocked is
  a consequence of their numbers, and every order occurs somewhere in a network.
* In `HmcConnPart` the other end of a link sends (`Send`) and takes (`Drain`) at any time between two clocks, and any
  subset of the links that could deliver a packet delivers one in a clock. Which link a packet leaves by is the
  parameter `Route`.
* A mask is the set of its bits. The loops that visit the set bits of a mask one by one are quantifiers; `Visits` of
  `HmcConnPart` is the loop as it is written, iterated once per slot, and `VisitsEach` says that this is right.
* In `HmcBobsim` a request stands for its response too. All transactions have the same id, so the DRAM simulator
  returns reads in the order in which it got them, one per clock at most, and at most one write (there is one port
  and one channel); a refused callback is not repeated by it. How many clocks a request takes inside is left open, the
  clocks its port is busy are not. `firsts` and `again` in `fb` are not in the code: they record which requests were
  answered, and which twice.
* Of BOBSim, `HmcBobsim` has what the bridge sees: when its port is busy (`PortCycles`, `PortAfter`, from bob_wrapper.cpp),
  the callbacks of one update, writes (from bob_dramchannel.cpp) before reads (`CalledBack`), and which write may complete (`Completions`).
* When the buffer is empty the bridge still asks for its `front()`, which C++ leaves undefined for a `std::list`. In the build (g++,
  libstdc++) the size of the list, 0, is taken for the packet, the bridge sees no packet and returns. That outcome is the
  one modelled (`NoAccept`), and no property depends on it.
* Only the commands in `Executable` are sent: at a logic operation the DRAM simulator ends the program
  (bob_logiclayerinterface.cpp), and CMC commands are refused when they are encoded.
* A packet of `HmcJourney` is a record of the fields that the program reads, each cut to its width; whether it is a
  response (bit 23 of the header) is whether it has the field `errstat`. `asked`, `disturbed` and `written` are not in
  the code: what the driver wanted, in which parts of the packet's way registers of its cube were written (while it was in a
  vault, or before and after), and which registers were.
  `EndOf` is what the constructors and set-up calls put into the slots of a switch: `HostEnds`, `CubeEnds`, `QuadEnds` (a ring
  link exists exactly if `RingLinks` or `XbarLinks` has it) and `VaultEnds`.
* `JourneyAssumption` says what set-up calls that succeeded leave behind. Of `HmcRoute`, `Wire` is `wired` where that is a cube,
  `HostAt` is `slidToCube` of the bound hosts, `Ext` is `ExtLinks`, if every cube has a route to every other. Then no two hosts
  are at one link, none at a link between cubes (`HostsWhereRouted`: the place of a bound host determines the host), both ends
  of a link name each other, and routes lead to another cube by links that exist (all of it is `NetworkUsable`).
* Shifts of 32 bit values count modulo 32 and the logarithm of 0 is converted to 0, which is what the build does for
  the modes of the vendor, where the block size is 0. `HmcDecode` was compared with the compiled `set_decoding` for all
  modes and numbers of banks, and `HmcRegister` with what JTAG reads from a constructed cube.
* `Search` of `HmcRoute` is the recursion of `hmc_graph_search` with the number of connections that it may still go as
  the argument; `MaxWay` is more than any way has, as each of its connections is marked. The marks are set and cleared around
  each call, so that they are an argument of it (`visited`), and the list is the result.
* In `HmcRoute` link *l* of a cube is the external link of quad *l* (the code's mapping); `wired` says what each is
  bound to, with `Lost` for a link object that no switch took. Calls with an id out of range return before they
  change anything and are not enumerated.

Definitions named in a comment as mutants are faults put into the code on purpose, at least one for every property; the
property fails with it.

## Runs

| run | instance | states | shows |
|---|---|---|---|
| `link` | two lengths of packets (less and more than a clock's worth), 2 lanes, 4 intervals per clock, queue of 8 intervals, buffer of 20 bits | 3340 | all nine safety and action properties of the link, and that it implements the channel with its liveness |
| `clock_walk` | one cube, two quads, one link, one vault, one host | 4096 | bits are exact, work is reached, idle modules are not entered |
| `part` | 4 slots, links at 0 and 2, three packets, two of them for the same link | 76735 | the loop visits every bit, the choice is the nearest in cyclic order, turns come, flows are channels, an idle queue is used |
| `part_starvation` | the same with queues of one packet | - | violated: `RoundRobinServes` |
| `route` | 4 cubes, every two connected at most once and two of them twice, one host | 1900 | tables are shortest, no cube drops a packet it is sent, no connection breaks a way, no bound link has a wrong other end, responses go to the host |
| `route_loop` | 4 cubes | - | violated: `RoutesDeliver` |
| `link_setup` | 2 cubes, 2 links, all pairs | - | violated: `SetupReported` |
| `bridge` | two reads, a write of two flits of data, a posted write; queue of one response, port of three requests, countdown of 3, cache of at most 3 | 25648 | a memory that loses nothing and answers in order; countdown and notification agree; work is forgotten only after a request without response |
| `bridge_duplicate` | two reads and a write | - | violated: `AnsweredOnce` |
| `bridge_stuck` | the requests of `bridge`, room for all responses | - | violated: `AllAnswered` |
| `address` | chain of three cubes, a host at two of them, ring and crossbar, 4 and 8 GB; four commands; one address and two cells; five register writes, two of them in a behaviour | 202272 | the decoding follows the registers and the documented table; every packet has a link to go to, comes nearer, is decoded by one decoding at all places, arrives where it was encoded for, and its response fits and comes back |
| `address_alias` | the same without register writes | - | violated: `EveryBitCounts` |

Why the bounds are enough. *Link*: several packets share one clock, one packet needs several, the queue overcommits and
the buffer is full with a packet half transferred; counters are bounded by the code's own limits, no extra bound is
needed. *Tree*: two quads share every node above them, and every node with several members to agree on is there; the
proofs cover all sizes. *Switch*: slots without link between and after those with, schedules that wrap around, two
packets that compete; `FlightMax` and `RxMax` bound what is in flight and received, `TxMax` is the queue's limit;
the proofs cover all numbers for the choice and the turns. *Tables*: four cubes are the fewest with ways of different
length by different neighbours and with the loop below; all 2^7 networks are reached, in every order. *Bridge*: one
response fills the queue, so reads are refused, cached and overtaken; the countdown ends (`CtrMax` for the code's 100)
before, while and after other requests are inside; a cache of three takes every response of the instance once, and
`CacheMax` cuts off only what the duplicates add. *Journey*: three cubes have one in the middle that a packet passes and
one where the ways of requests and responses differ; the cells need a turn on the ring along both axes; the writes
are a mode of the vendor, the largest blocks with other bits set, more banks than there are, and both block sizes by the
wrapper; two of them (`MaxWrites`) change the banks and then the mode, or the mode twice under way. One packet is
enough, as packets meet only in queues, which `HmcLink` and `HmcConnPart` are about.

### What is violated

* `route_loop`: connect cubes 0-1, 0-2, 1-2, 2-3 in this order. Cube 0 lists its way to cube 3 by cube 1 (2 hops)
  before that by cube 2 (1 hop), since the search visits cube 1 first; cube 1 lists cube 0 first. `ext_routing`
  takes the first entry, so the packet goes to and fro between 0 and 1. The program, built and run with this network,
  never answers the request.
* `part_starvation`: the schedule moves on also when the packet was refused. Of two links that send to one queue, one
  can find it full at every turn. The program shows it with two hosts that write to one quad over a ring whose
  packets take an even number of cycles: one of them stops making progress.
* `link_setup`: a call for a place that is taken prints a message and reports success.
* `bridge_duplicate`: the loop over the cache sends each response again at every clock and removes none. The program
  shows it with 100 reads of 128 bytes to one vault and a host that takes nothing for 4000 cycles: within 20000
  cycles one tag is answered 885 times and 37 tags never.
* `bridge_stuck`: the countdown that a request without response starts deletes the notification of the controller,
  also when others are inside by then. The program, with one P_WR16 and 149 RD16 to one vault, answers 99.
* `address_alias`: the upper part of the DRAM address is shifted by one bit too many. With the documented mapping for 128
  byte blocks and 4 GB, bit 15 of an address counts for nothing; bit 32, which 4 GB do not have, does.
  The encoding by cell (`hmc_encode_pkt` with quad, vault, bank and dram) shifts out the low part of the DRAM address twice
  and does not invert the decoding either; `ArrivesAsEncoded` therefore speaks of quad, vault and bank.

## Fairness

* *Link*: weak fairness of `Clock`, `Tick` and `Pop`. The driver clocks until all responses have come, the descent
  enters every queue with work, and the owners take packets whenever they are notified and may pass them on. The last
  is an assumption about the rest of the network.
* *Switch*: weak fairness of its clock, of each link that could deliver (what the channel promises), and of each
  outgoing queue (again the channel, of the neighbour).
* *Bridge*: weak fairness of its clock (work in link or controller is notified, `WorkReached`) and of the link's queue,
  as above. Strong fairness of each completion in the DRAM simulator: it completes what it has after it ran often enough,
  and it runs only in some of the clocks.
* *Journey*: weak fairness of a step of the packet: links, switches and vaults are clocked until it has left them, and
  the driver sends and receives. None for register writes.

## Proofs

All proofs are for every value of the constants that the assumptions allow.

| module | proves |
|---|---|
| `HmcLinkProofs` | all nine safety and action properties of the link, and that every behaviour of the link is one of the channel (`Channel!Safe`) |
| `HmcNotifyProofs` | bits stay exact in every tree whose owners look at the nodes sharing their bit |
| `HmcClockWalkProofs` | the simulator's tree is one of those, for any number of parts; hence `Exact`, `WorkReached`, `IdleSkipped` |
| `HmcConnPartProofs` | the type invariant, `VisitsEach`, `PickIsNearest`, `TurnComes`, and that all flows are channels (`FlowsAreChannels`) |
| `HmcBobsimProofs` | all four invariants of the bridge, and that every behaviour of it is one of the memory (`ImplementsMemory`) |
| `HmcJourneyProofs` | all invariants of the journey, and `HopsNearer` |
| `HmcRouteProofs` | all invariants of the set-up and the tables, and `RoutesStay` |
| `HmcRecursionProofs` | lemmas: induction over naturals and sequences, recursive functions exist, what iteration, sums and folds do |

*Link.* `TypeOK` needs the accounting equations: a counter stays natural only because it equals a sum. The equations
need that a packet in the buffer was transferred completely, which holds because only the front of the queue is
delivered, when nothing is left of it. The inductive invariant `IInv` is the conjunction of the type, both equations,
the bounds, exact notifications, one packet at a time, and freshness (fresh entries are at the end and
untouched). `Clock` is proved by an invariant of its loop (`LoopInv`) over `Iterated`. The assumptions: lengths are
multiples of the lanes, no packet is longer than the buffer, one clock's worth of transfer fits into it
(the configurations of the driver and of the constructors; the code asserts the last).

*Tree.* `ExactIn` does not hold in the middle of a call. The invariant of a call that has reached node *n* is that all
bits are exact but possibly the one above *n*, with what the call is about to do there; every level re-establishes it one
level up, and a call has returned after as many levels as the node has above it. For the simulator's own tree,
`TreeGroupsMatch` shows by cases on the kinds of node that each `notify_up` looks at exactly the nodes that share the bit.

*Switch.* `RotatedIsDistances`: the rotated mask is the set of cyclic distances of the notified links. Its minimum is the
nearest link, and the others come nearer by the schedule's new position. The loop over a mask keeps `LoopInvariant`: the
bits below the current one were visited in order, the bits from there on are what is left after shifting; the position
has passed as many slots as there were iterations, so no bit is left after one iteration per slot, and what is counted when the mask is
0 never matters. For the flows, a packet stays in the concatenation of buffer and flight (`FlowFlight`) until it is forwarded, and
selecting the packets of one flow distributes over concatenation (`SelectedConcat`): each action appends to a flow, moves its
head over, or leaves it alone.

*Bridge.* Its four invariants are not inductive. `IInv` adds where each request is (`Placed`: of what was sent, every request is
in the link, in the DRAM simulator, or completed, and never at two of them) and that a countdown runs only after a request without
response (`CountdownPosted`). A clock with its calls is proved along its loop: sending again all that the cache holds
appends to the link's queue, and may append to the cache, but changes neither which requests were answered or are
cached nor the order of their first answers (`ResentTook`, with `JoinedAhead`). The refinement follows: accepting, completing and a
first answer are steps of `HmcMemory`, everything else is a stutter, repeated responses too.

*Journey.* The invariant `IInv` says where the packet is, with what it still says of its request:

* `Configured`: the registers of a cube and its decoding fit. The decoding is `SetDecoding` of the block size in `AC` and of some
  number of banks that `FEAT` can name (`Mapped`). What is written to `FEAT` takes effect with a later write to `AC`: the number is the
  one in `FEAT` unless `FEAT` was written since (`UpToDate`), and the one of the capacity until `AC` was written after `FEAT`
  (`Banked`, for which `Genuine` says what `FEAT` has until it is written). `OneMoreWrite` is what a write adds to this history.
* `Carried`: a request has the fields it was encoded with, a response those of the request. `Located`: where which of
  them can be.
* As long as no register of the addressed cube was written since the encoding: `Judged`, the error status was computed with the block
  size in force; `Addressed`, the address is what the present decoding encodes.
* `Delivered`: as long as none was written since the request got to its vault, it is at the quad and vault, and then in the cell,
  to which its address is decoded. That is `OneDecoding`: writes before do no harm, as the switch that hands the request to
  the vault decodes quad and vault at once. A write while it waits in the vault mixes two decodings, and the code has nothing against it.

With that, `LinkExists` and `HopsNearer` need only the network: from any quad, on ring and crossbar, the first hop to any other
uses a link that exists and comes nearer (`NextQuad`), and exactly one end is at the slot chosen (`OneEnd`).
`ArrivesAsEncoded` says that decoding inverts encoding. `Layout` is where the fields are for every block size and every
number of banks from 8 to 2^18 (`DecodingFacts`); hence the sources of the five fields are disjoint (`SourcesApart`) and vault, quad, bank and
the low DRAM bits are where the documented table has them (`DecodesByTable`; the high ones are not, see `address_alias`), each field reads
back what was put there (`AddressRead`), and bits and values determine each other (`BitsOfValue`, `ValueOfBits`). The assumption
is `JourneyAssumption`; nothing is assumed of the addresses or of the values written.

`FieldsKept` is about construction alone: the registers are what the constructor made until one is written (`Untouched`). The
fields of each kind come one behind the other, so no two overlap (`TableApart`), and no register is of two kinds
(`OneKind`); along the fold over the fields, what was reset reads as its reset value (`ResetReads`), since writing one field
leaves the fields beside it alone (`GetOfOtherPut`).

*Tables.* `RoutesShortest` is not inductive, as the search starts from the lists it has left. What it needs of them is `Sound`: each
route listed is by a neighbour, and the destination is within its number of hops of that neighbour when the cube itself is taken
away; a network that grows keeps that (`AroundMonotone`). `RouteInv` is the conjunction of the types, the symmetry of the graph,
`RoutesSound`, `RoutesShortest`, that links of the graph are bound, and that bound hosts are defined and routed to their place. Three
steps lead to `TableShortest`:

* The search only adds what is sound (`SearchSound`): a call at a cube other than the start, *n* connections after the first,
  is within *n* of the first hop.
* The search finds every shortest way (`SearchFinds`). Around the destination, the cubes within *n* connections form a ball
  (`Around`). A call at a cube of layer *n* has a cube of layer *n - 1* beside it, and no connection that was visited lies
  within the ball, so the search goes on there; what is visited then lies within no smaller ball either, and the depth *n*
  is enough. Later calls of the loop never make a route longer (`SearchGrows`).
* A ball that does not grow any more is all there is (`AroundStill`), so distances are below the number of cubes
  (`AroundBounded`), and `MaxWay` cuts nothing off (`MaxWayEnough`).

For `RoutesStay`, the first entry of a list keeps its gateway or gives way to the direct route (`HeadKept`); a packet that goes
by the new tables follows the old way, or is at its destination earlier. For `RoutesGoOn`, a gateway that leads
somewhere without coming back has a neighbour that does, so its own table is not empty (`GatewayHasRoute`). That a packet
may still go round in circles is `route_loop`. For `NetworkUsable`, an end is bound only after both places were looked at
(`ConnectedBothWays`). The assumption is `RouteAssumption`: cubes are numbered from 0, and calls name cubes, links and hosts there are.

What the proofs found in the model: `AnswerFits` was false for two commands that the instance did not use (`MD_RD` and `BWR8R`, which are
not reads but have a response with data), and `JourneyAssumption` allowed two hosts at one link and a route back into
the same cube. The property and the assumption now say what is meant, and the instance has a request of that kind.

Only model-checked: liveness (`ChannelSpec`'s fairness part, `IdleQueueUsed`, `AnsweredUnlessRefused`, `Returns`), which is out of the
prover's reach. All invariants and action properties that the runs check are theorems.

## Plan

What a continuation would take up, in this order:

1. The network of ring, links and bounded buffers, as a composition of `HmcConnPart` and `HmcChannel`, with the question whether
   requests and responses can block each other.
2. The tree as it grows at run time: `hmc_define_slid` adds a leaf to `HmcNotifyTree`.

## Not modelled

* *A network of full buffers.* Requests and responses share the buffers of ring and links, so that vaults which wait for
  room for a response may wait for each other. The models let a packet leave a queue at some time (`Drain`); that this
  is so in every network is an assumption. Two hosts that flood each other's quads did not deadlock the built program,
  but with the responses that the bridge repeats one of them starved.
* *BOBSim*'s channels, ranks and timing: vendored, and abstracted to a port, transactions and callbacks.
* *The write of one field that respects read-only ones* (`hmcsim_reg_value_set`): nothing calls it. JTAG calls for an
  address without register return an error before they change anything.
* *Parsing of dot files* (it ends in the calls `HmcRoute` models), *traces*, *the driver's report*, the tools, and the
  calls of the C wrapper that go straight to `hmc_sim`.
