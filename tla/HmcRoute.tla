------------------------------- MODULE HmcRoute -------------------------------
(***************************************************************************)
(* How the cubes and the hosts are connected, one call after the other,    *)
(* and the tables that route packets between cubes (hmc_sim, hmc_route).   *)
(*                                                                         *)
(* Link l of a cube is the external link of its quad l.  Every call that   *)
(* connects two cubes searches all paths again and adds what is new to the *)
(* tables; a packet takes the first entry of the table of every cube it    *)
(* comes through.                                                          *)
(***************************************************************************)
EXTENDS HmcRecursion, HmcFold, FiniteSetsExt

CONSTANTS
  Cubes,     \* the ids of the cubes, 0 .. n-1
  LinkIds,   \* the ids of the external links of a cube
  Slids,     \* the ids of the hosts
  Configs,   \* calls of hmc_set_link_config: <<cube, link, cube, link>>
  Hosts      \* calls of hmc_define_slid: <<slid, cube, link>>

ASSUME RouteAssumption ==
  /\ IsFiniteSet(Cubes) /\ Cubes = 0..(Cardinality(Cubes) - 1)
  /\ LinkIds \subseteq Nat
  /\ Configs \subseteq Cubes \X LinkIds \X Cubes \X LinkIds
  /\ Hosts \subseteq Slids \X Cubes \X LinkIds

VARIABLES
  links,        \* links[a][b]: the links of cube a that lead to b (link_graph)
  tbl,          \* tbl[a][d]: the routes from cube a to d, in the order of the list
  wired,        \* wired[<<c, l>>]: what the quad's external link is bound to
  slids,        \* the hosts defined so far
  slidToCube    \* slidToCube[s]: cube and link of host s

vars == <<links, tbl, wired, slids, slidToCube>>

Nobody == <<"nobody">>

\* The other end of an external link: a quad's or a host's.
Port(c, l) == <<"cube", c, l>>
Host(s) == <<"slid", s>>

\* A link object that no module took, because its place was occupied.
Lost == <<"lost">>

-----------------------------------------------------------------------------
(* The tables (hmc_graph_search, hmc_insert_route, hmc_routing_tables_update). *)

Route(g, h) == [next_dev |-> g, hops |-> h]

\* Mutant: new routes go to the front of the list.
InsertFront(list, g, h) ==
  IF \E i \in DOMAIN list : list[i].next_dev = g THEN list ELSE <<Route(g, h)>> \o list

\* Mutant: a shorter way by the same gateway is ignored.
InsertFirstOnly(list, g, h) ==
  IF \E i \in DOMAIN list : list[i].next_dev = g THEN list ELSE Append(list, Route(g, h))

Insert(list, g, h) ==
  IF \E i \in DOMAIN list : list[i].next_dev = g
  THEN [i \in DOMAIN list |->
          IF list[i].next_dev = g /\ h < list[i].hops THEN Route(g, h) ELSE list[i]]
  ELSE Append(list, Route(g, h))

Lists == Seq([next_dev : Cubes, hops : Int])

\* What a call of hmc_graph_search gets besides start and end; visited holds
\* the connections of which both directions are marked.
Calls == [i : Cubes, first_hop : Cubes, hop : Nat, visited : SUBSET (SUBSET Cubes)]

\* The cubes a call goes on to, and the call that goes on to j.
Onward(graph, c) ==
  {j \in Cubes \ {c.i} : graph[c.i][j] # {} /\ {c.i, j} \notin c.visited}

Deeper(c, j) ==
  [i |-> j, first_hop |-> IF c.hop = 0 THEN j ELSE c.first_hop, hop |-> c.hop + 1,
   visited |-> c.visited \union {{c.i, j}}]

\* The loop over the cubes by ascending id, when calls do what search says.
Loop(graph, c, search) ==
  [z \in Lists \X Cubes |->
     IF z[2] \in Onward(graph, c) THEN search[<<Deeper(c, z[2]), z[1]>>] ELSE z[1]]

InOrder == [n \in 1 .. Cardinality(Cubes) |-> n - 1]

\* What a call makes of the list, when it may go n connections further: every
\* way from start to end that uses no connection twice is found.
Search(graph, start, end) ==
  LET within[n \in Nat] ==
        [z \in Calls \X Lists |->
           IF z[1].i = end THEN Insert(z[2], z[1].first_hop, z[1].hop - 1)
           ELSE IF n = 0 \/ (z[1].i = start /\ z[1].hop > 0) THEN z[2]
           ELSE Fold(Loop(graph, z[1], within[n - 1]), z[2], InOrder)]
  IN  within

\* There are fewer connections than that.
MaxWay == Cardinality(Cubes) * Cardinality(Cubes)

Searched(graph, start, end, list) ==
  Search(graph, start, end)[MaxWay][
    <<[i |-> start, first_hop |-> start, hop |-> 0, visited |-> {}], list>>]

\* A neighbour is reached directly only.
Direct(list, d) ==
  LET direct == {i \in DOMAIN list : list[i].next_dev = d} IN
  IF direct = {} THEN list ELSE <<list[Min(direct)]>>

\* Mutant: only the tables for cubes of higher ids are searched for.
UpdatedAbove(graph, old) ==
  [a \in Cubes |-> [d \in Cubes |->
     Direct(IF d <= a THEN old[a][d] ELSE Searched(graph, a, d, old[a][d]), d)]]

Updated(graph, old) ==
  [a \in Cubes |-> [d \in Cubes |->
     Direct(IF a = d THEN old[a][d] ELSE Searched(graph, a, d, old[a][d]), d)]]

-----------------------------------------------------------------------------
Init ==
  /\ links = [a \in Cubes |-> [b \in Cubes |-> {}]]
  /\ tbl = [a \in Cubes |-> [d \in Cubes |-> <<>>]]
  /\ wired = [p \in Cubes \X LinkIds |-> Nobody]
  /\ slids = {}
  /\ slidToCube = [s \in Slids |-> Nobody]

Free(c, l) == wired[<<c, l>>] = Nobody

\* Both ends are made and registered at their quads, and then bound to each
\* other; a quad whose place is taken keeps what it has (set_link).
Bound(w, c, l, end) == IF w[<<c, l>>] = Nobody THEN [w EXCEPT ![<<c, l>>] = end] ELSE w

\* Mutant: an end is made for the other one though nobody takes that.
ConnectedUnchecked(a, la, b, lb) ==
  Bound(Bound(wired, a, la, Port(b, lb)), b, lb, Port(a, la))

Connected(a, la, b, lb) ==
  LET near == IF Free(b, lb) /\ <<a, la>> # <<b, lb>> THEN Port(b, lb) ELSE Lost
      far  == IF Free(a, la) THEN Port(a, la) ELSE Lost
  IN  Bound(Bound(wired, a, la, near), b, lb, far)

\* hmc_set_link_config.
SetLinkConfig(a, la, b, lb) ==
  /\ wired' = Connected(a, la, b, lb)
  /\ links' = [[links EXCEPT ![a][b] = @ \union {la}] EXCEPT ![b][a] = @ \union {lb}]
  /\ tbl' = Updated(links', tbl)
  /\ UNCHANGED <<slids, slidToCube>>

\* Mutant: a host may be defined again.
DefineSlidAgain(s, c, l) ==
  /\ slids' = slids \union {s}
  /\ wired' = Bound(wired, c, l, Host(s))
  /\ slidToCube' = [slidToCube EXCEPT ![s] = <<c, l>>]
  /\ UNCHANGED <<links, tbl>>

\* hmc_define_slid.
DefineSlid(s, c, l) ==
  /\ s \notin slids
  /\ slids' = slids \union {s}
  /\ wired' = Bound(wired, c, l, Host(s))
  /\ slidToCube' = [slidToCube EXCEPT ![s] = <<c, l>>]
  /\ UNCHANGED <<links, tbl>>

Next ==
  \/ \E f \in Configs : SetLinkConfig(f[1], f[2], f[3], f[4])
  \/ \E h \in Hosts : DefineSlid(h[1], h[2], h[3])

Spec == Init /\ [][Next]_vars

-----------------------------------------------------------------------------
(* Where a packet goes (ext_routing and the link it leaves by). *)

\* The first route counts, and of its parallel links the lowest.
ExtLinks(a, d) == links[a][Head(tbl[a][d]).next_dev]
ExtLink(a, d) == Min(ExtLinks(a, d))

\* The cube after a on the way to d; -1 when the packet is lost.
NextCube(a, d) ==
  LET end == IF tbl[a][d] = <<>> THEN Nobody ELSE wired[<<a, ExtLink(a, d)>>] IN
  IF end[1] = "cube" THEN end[2] ELSE -1

\* Where the packet is after n cubes.
Onto(d) ==
  [c \in Cubes \union {-1} |-> IF c \in {d, -1} THEN c ELSE NextCube(c, d)]

Travel(a, d) == Iterated(Onto(d), a)

Delivers(a, d) == Travel(a, d)[Cardinality(Cubes)] = d

-----------------------------------------------------------------------------
(* Properties. *)

Neighbours(graph, a) == {b \in Cubes \ {a} : graph[a][b] # {}}

\* The cubes within n connections of g when cube a is taken away.
Wider(graph, a) ==
  [S \in SUBSET Cubes |-> S \union ((UNION {Neighbours(graph, c) : c \in S}) \ {a})]

Around(graph, a, g) == Iterated(Wider(graph, a), {g})

Distances(graph, a, g, d) == {n \in 0..Cardinality(Cubes) : d \in Around(graph, a, g)[n]}

\* What the table of cube a should hold for cube d: for a neighbour the direct
\* route alone, otherwise one route by each neighbour that leads there without
\* coming back, with the length of the shortest such way.
Shortest(graph, a, d, list) ==
  LET gateways == {g \in Neighbours(graph, a) : Distances(graph, a, g, d) # {}} IN
  IF d \in Neighbours(graph, a) THEN list = <<Route(d, 0)>>
  ELSE /\ Len(list) = Cardinality(gateways)
       /\ Range(list) = {Route(g, Min(Distances(graph, a, g, d))) : g \in gateways}

\* The depth first search along connections, repeated for every call on top of
\* the old lists, leaves in every table what it should hold.
RoutesShortest ==
  \A a \in Cubes : \A d \in Cubes \ {a} : Shortest(links, a, d, tbl[a][d])

\* Every link that the tables use is bound to the cube it should lead to.
AllWired ==
  \A a, b \in Cubes : \A l \in links[a][b] :
    \E k \in links[b][a] : wired[<<a, l>>] = Port(b, k) /\ wired[<<b, k>>] = Port(a, l)

\* Connecting further cubes never breaks the way of a packet that arrived
\* before.
RoutesStay ==
  [][AllWired' => \A a, d \in Cubes : Delivers(a, d) => Delivers(a, d)']_vars

\* A packet for a cube that has a route arrives there, as the printed table
\* (destination, gateway, hops) says.
RoutesDeliver ==
  \A a, d \in Cubes : a # d /\ tbl[a][d] # <<>> => Delivers(a, d)

\* What is left of that when packets may go round in circles: a packet that has
\* a route is not dropped on its way, every gateway knows how to go on with it.
RoutesGoOn ==
  AllWired => \A a, d \in Cubes : a # d /\ tbl[a][d] # <<>> =>
                \A n \in 0..Cardinality(Cubes) : Travel(a, d)[n] # -1

\* Responses for a host are routed to the link it is bound to: no later call,
\* and no call for a taken place, moves the entry away from a bound host.
HostsWhereRouted ==
  \A c \in Cubes, l \in LinkIds, s \in Slids :
    wired[<<c, l>>] = Host(s) => slidToCube[s] = <<c, l>>

\* The network is one that HmcJourney may take for granted, also after calls for
\* taken places: what is bound to a place answers to it, be it the other end of
\* a link or a host, and the links of a route are made and leave the cube.
NetworkUsable ==
  /\ HostsWhereRouted
  /\ \A p \in Cubes \X LinkIds : wired[p][1] = "cube" =>
       wired[<<wired[p][2], wired[p][3]>>] = Port(p[1], p[2])
  /\ AllWired => \A a \in Cubes : \A d \in Cubes \ {a} : tbl[a][d] # <<>> =>
       /\ ExtLinks(a, d) # {}
       /\ \A l \in ExtLinks(a, d) : wired[<<a, l>>][1] = "cube" /\ wired[<<a, l>>][2] # a

\* Every call that ends in success has connected what it was asked to: the
\* driver reports a failed set-up by the value returned.
SetupReported ==
  [][/\ \A f \in Configs : SetLinkConfig(f[1], f[2], f[3], f[4]) =>
          /\ wired'[<<f[1], f[2]>>] = Port(f[3], f[4])
          /\ wired'[<<f[3], f[4]>>] = Port(f[1], f[2])
     /\ \A h \in Hosts : DefineSlid(h[1], h[2], h[3]) =>
          wired'[<<h[2], h[3]>>] = Host(h[1])]_vars
=============================================================================
