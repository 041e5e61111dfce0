----------------------------- MODULE HmcConnPart -----------------------------
(***************************************************************************)
(* The switch of a quad (hmc_conn_part).  Every clock it lets its links    *)
(* receive and then moves at most one packet from a receive buffer to the  *)
(* queue of the link it has to leave by, starting to look where it stopped *)
(* the last time (round robin).                                            *)
(*                                                                         *)
(* A link is a pair of channels (HmcChannel): flight and rx are the        *)
(* incoming one, tx is the sender's end of the outgoing one.  A packet in  *)
(* tx carries the link it came from, for the properties only.              *)
(***************************************************************************)
EXTENDS HmcFold, HmcRecursion, FiniteSetsExt

CONSTANTS
  Links,      \* number of link slots (HMC_JTL_ALL_LINKS)
  Connected,  \* the slots that have a link
  Packets,
  Route,      \* Route[p]: the slot p leaves by (decode_link_of_packet)
  FlightMax,  \* bound: packets in flight on a link
  RxMax,      \* bound: packets in a receive buffer
  TxMax       \* packets an outgoing queue takes before has_space fails

ASSUME PartAssumption ==
  /\ Links \in Nat \ {0}
  /\ Connected \subseteq 0..(Links - 1)
  /\ Route \in [Packets -> Connected]
  /\ FlightMax \in Nat /\ RxMax \in Nat /\ TxMax \in Nat \ {0}

VARIABLES
  flight,             \* flight[i]: sent to link i, not yet received
  rx,                 \* rx[i]: the receive buffer of link i
  tx,                 \* tx[o]: the queue at the other end of link o
  roundRobinSchedule

vars == <<flight, rx, tx, roundRobinSchedule>>

Entry == [pkt : Packets, from : Connected]

-----------------------------------------------------------------------------
(* Which buffer is next: the notification bits, rotated so that the bit of  *)
(* roundRobinSchedule comes first, and the lowest of them.  A mask is the   *)
(* set of its bits.                                                         *)

ShiftedRight(mask, n) == {b - n : b \in {x \in mask : x >= n}}

ShiftedLeft(mask, n) == {b + n : b \in mask}

\* mask & ((1 << n) - 1)
LowBits(mask, n) == {b \in mask : b < n}

Rotated(mask, rr) ==
  ShiftedLeft(LowBits(mask, rr), Links - rr) \union ShiftedRight(mask, rr)

Wrapped(i) == IF i >= Links THEN i - Links ELSE i

\* __builtin_ctzl; of 0 the result is anything.
TrailingZeros(mask, ofZero) == IF mask = {} THEN ofZero ELSE Min(mask)

MaskLoop == [map : SUBSET Nat, lid : Nat, i : Nat, visits : Seq(Nat)]

LoopStart(mask, ofZero) ==
  LET first == TrailingZeros(mask, ofZero)
  IN  [map |-> mask, lid |-> first, i |-> first, visits |-> <<>>]

\* Mutant: the bit just visited is not counted.
IterateWithoutOne(ofZero) ==
  [s \in MaskLoop |->
     LET shifted == ShiftedRight(s.map, s.lid)
         rest    == ShiftedRight(shifted, 1)
         zeros   == TrailingZeros(rest, ofZero)
     IN  IF shifted = {} THEN s
         ELSE [map |-> rest, lid |-> zeros, i |-> s.i + zeros,
               visits |-> Append(s.visits, s.i)]]

\* One iteration of a loop over a mask: it shifts the mask until bit 0 is set,
\* adds up what it has shifted, and ends when the mask is 0.
Iterate(ofZero) ==
  [s \in MaskLoop |->
     LET shifted == ShiftedRight(s.map, s.lid)
         rest    == ShiftedRight(shifted, 1)
         zeros   == TrailingZeros(rest, ofZero)
     IN  IF shifted = {} THEN s
         ELSE [map |-> rest, lid |-> zeros, i |-> s.i + zeros + 1,
               visits |-> Append(s.visits, s.i)]]

\* The bits that the loop visits, at most one for each slot.
Visits(mask, ofZero) == Iterated(Iterate(ofZero), LoopStart(mask, ofZero))[Links].visits

\* Mutant: always starts at slot 0.
PickLowest(mask, rr) == Min(mask)

Pick(mask, rr) == Wrapped(Min(Rotated(mask, rr)) + rr)

\* Mutant: stays at the link just looked at.
AfterSame(i) == i

\* Mutant: off by one.
AfterLate(i) == IF i + 1 > Links THEN 0 ELSE i + 1

After(i) == IF i + 1 >= Links THEN 0 ELSE i + 1

-----------------------------------------------------------------------------
Init ==
  /\ flight = [i \in Connected |-> <<>>]
  /\ rx = [i \in Connected |-> <<>>]
  /\ tx = [o \in Connected |-> <<>>]
  /\ roundRobinSchedule = 0

\* The module at the other end of link i sends a packet.
Send(i, p) ==
  /\ Len(flight[i]) < FlightMax
  /\ flight' = [flight EXCEPT ![i] = Append(@, p)]
  /\ UNCHANGED <<rx, tx, roundRobinSchedule>>

\* The links that may receive a packet when they are clocked.
Receiving == {i \in Connected : flight[i] # <<>> /\ Len(rx[i]) < RxMax}

\* The buffers after the links in got have received one.
Received(got) ==
  [i \in Connected |-> IF i \in got THEN Append(rx[i], Head(flight[i])) ELSE rx[i]]

Offered(buf) == {i \in Connected : buf[i] # <<>>}

HasSpace(o) == Len(tx[o]) < TxMax

Nothing(buf) ==
  /\ Offered(buf) = {}
  /\ rx' = buf
  /\ roundRobinSchedule' = After(roundRobinSchedule)
  /\ UNCHANGED tx

\* push_back fails: the packet stays where it is.
Refuse(buf, i) ==
  /\ ~HasSpace(Route[Head(buf[i])])
  /\ rx' = buf
  /\ UNCHANGED tx

\* Mutant: the packet stays in the receive buffer.
ForwardWithoutPop(buf, i) ==
  /\ HasSpace(Route[Head(buf[i])])
  /\ tx' = [tx EXCEPT ![Route[Head(buf[i])]] = Append(@, [pkt |-> Head(buf[i]), from |-> i])]
  /\ rx' = buf

Forward(buf, i) ==
  /\ HasSpace(Route[Head(buf[i])])
  /\ tx' = [tx EXCEPT ![Route[Head(buf[i])]] = Append(@, [pkt |-> Head(buf[i]), from |-> i])]
  /\ rx' = [buf EXCEPT ![i] = Tail(@)]

Choose(buf, i) ==
  /\ Offered(buf) # {}
  /\ i = Pick(Offered(buf), roundRobinSchedule)
  /\ Forward(buf, i) \/ Refuse(buf, i)
  /\ roundRobinSchedule' = After(i)

\* hmc_conn_part::clock, called when a link or a buffer has work.
Clock(got) ==
  /\ \E i \in Connected : flight[i] # <<>> \/ rx[i] # <<>>
  /\ got \subseteq Receiving
  /\ flight' = [i \in Connected |-> IF i \in got THEN Tail(flight[i]) ELSE flight[i]]
  /\ Nothing(Received(got)) \/ \E i \in Connected : Choose(Received(got), i)

\* The packet at the front of an outgoing queue has left it.
Drain(o) ==
  /\ tx[o] # <<>>
  /\ tx' = [tx EXCEPT ![o] = Tail(@)]
  /\ UNCHANGED <<flight, rx, roundRobinSchedule>>

Next ==
  \/ \E i \in Connected, p \in Packets : Send(i, p)
  \/ \E got \in SUBSET Connected : Clock(got)
  \/ \E o \in Connected : Drain(o)

Safe == Init /\ [][Next]_vars

\* The cube is clocked, a link with a packet on its way and room for it
\* delivers (what ChannelSpec of HmcLink says), an outgoing queue drains.
Fairness ==
  /\ WF_vars(\E got \in SUBSET Connected : Clock(got))
  /\ \A i \in Connected : WF_vars(\E got \in SUBSET Connected : i \in got /\ Clock(got))
  /\ \A o \in Connected : WF_vars(Drain(o))

Spec == Safe /\ Fairness

-----------------------------------------------------------------------------
(* Properties. *)

\* Every variable has its type; the schedule is always a slot.
TypeOK ==
  /\ flight \in [Connected -> Seq(Packets)]
  /\ rx \in [Connected -> Seq(Packets)]
  /\ tx \in [Connected -> Seq(Entry)]
  /\ roundRobinSchedule \in 0..(Links - 1)

\* How many slots the round robin looks at before link i.
Distance(i, rr) == IF i >= rr THEN i - rr ELSE i + Links - rr

\* The shifting and masking finds the first notified link in cyclic order:
\* it is a notified one, and no other notified link is nearer.
PickIsNearest ==
  LET rr == roundRobinSchedule
      offered == Offered(rx)
  IN  offered # {} =>
        /\ Pick(offered, rr) \in offered
        /\ \A i \in offered : Distance(Pick(offered, rr), rr) <= Distance(i, rr)

\* The loop that clocks the links visits each link with something on its way
\* once, in the order of the slots, whatever is counted when no bit is left.
VisitsEach ==
  \A ofZero \in 0..Links :
    LET notified == Offered(flight)
        visits   == Visits(notified, ofZero)
    IN  /\ {visits[n] : n \in DOMAIN visits} = notified
        /\ \A m, n \in DOMAIN visits : m < n => visits[m] < visits[n]

Clocked == \E got \in SUBSET Connected : Clock(got)

FrontRoute(i) == Route[Head(rx[i])]

\* No waiting packet is passed over for more than Links clocks: in each of
\* them it comes nearer to its turn, or it has its turn and is forwarded
\* unless its queue is full.
TurnComes ==
  [][Clocked =>
       \A i \in Connected : rx[i] # <<>> =>
         \/ Distance(i, roundRobinSchedule') < Distance(i, roundRobinSchedule)
         \/ roundRobinSchedule' = After(i)
            /\ (~HasSpace(FrontRoute(i)) \/ tx'[FrontRoute(i)] # tx[FrontRoute(i)])]_vars

\* From link i to link o the switch is a channel: whatever it refuses,
\* forwards or leaves waiting, no packet is lost, doubled or overtaken.
ToLink(s, o) == Selected(s, {p \in Packets : Route[p] = o})

FromLink(s, i) == Selected(s, {e \in Entry : e.from = i})

Flow(i, o) == INSTANCE HmcChannel WITH
  flight  <- ToLink(rx[i] \o flight[i], o),
  arrived <- [n \in DOMAIN FromLink(tx[o], i) |-> FromLink(tx[o], i)[n].pkt]

FlowsAreChannels ==
  /\ \A i, o \in Connected : Flow(i, o)!Init
  /\ [][\A i, o \in Connected : [Flow(i, o)!Next]_(Flow(i, o)!vars)]_vars

WaitingFor(i, o) == rx[i] # <<>> /\ FrontRoute(i) = o

\* An empty queue that a waiting packet has to go through gets a packet.
IdleQueueUsed ==
  \A o \in Connected :
    (tx[o] = <<>> /\ \E i \in Connected : WaitingFor(i, o)) ~> tx[o] # <<>>

\* Every link that waits for a queue gets a packet into it.
RoundRobinServes ==
  \A i, o \in Connected : WaitingFor(i, o) ~> \E n \in DOMAIN tx[o] : tx[o][n].from = i
=============================================================================
