------------------------------- MODULE HmcLink -------------------------------
(***************************************************************************)
(* One direction of a link of the cube (hmc_link), driven once per cycle   *)
(* by its owner.  The sender pushes at any moment of the cycle, the owner  *)
(* clocks the queue when its notification is set and takes received        *)
(* packets when the notification of the buffer is set.                     *)
(***************************************************************************)
EXTENDS HmcLinkParts

VARIABLES
  rx_q,         \* the serialising queue
  rx_fifo_out,  \* the receive buffer
  clocked       \* the owner has clocked the queue in this cycle

vars == <<rx_q, rx_fifo_out, clocked>>

Init ==
  /\ rx_q = EmptyQueue
  /\ rx_fifo_out = EmptyFifo
  /\ clocked = FALSE

\* The sender's push_back is accepted (a refused one changes nothing).
Push(p) ==
  /\ HasSpace(rx_q)
  /\ rx_q' = PushBack(rx_q, p)
  /\ UNCHANGED <<rx_fifo_out, clocked>>

\* hmc_link::clock, called at most once per cycle.
Clock ==
  /\ rx_q.notified
  /\ ~clocked
  /\ LET s == Serialise(rx_q, rx_fifo_out) IN
       /\ rx_q' = QueueAfter(rx_q, s)
       /\ rx_fifo_out' = FifoAfter(rx_fifo_out, s)
  /\ clocked' = TRUE

\* The owner takes the front packet it was notified of.
Pop ==
  /\ rx_fifo_out.notified
  /\ rx_fifo_out' = PopFront(rx_fifo_out)
  /\ UNCHANGED <<rx_q, clocked>>

\* Notified since an earlier cycle: the owner clocks the queue in this one.
Due == rx_q.notified /\ ~rx_q.list[1].fresh /\ ~clocked

\* The simulator goes to the next cycle.
Tick ==
  /\ ~Due
  /\ rx_q' = NewCycle(rx_q)
  /\ clocked' = FALSE
  /\ UNCHANGED rx_fifo_out

Next == (\E p \in Packets : Push(p)) \/ Clock \/ Pop \/ Tick

Safe == Init /\ [][Next]_vars

\* The simulator keeps being clocked and the owner keeps taking packets.
Fairness == WF_vars(Clock) /\ WF_vars(Tick) /\ WF_vars(Pop)

Spec == Safe /\ Fairness

-----------------------------------------------------------------------------
(* Properties. *)

\* Every field has its type; in particular neither unsigned occupation
\* counter ever wraps below zero (a fifo whose reservations were rounded
\* down would, at pop_front).
TypeOK ==
  /\ rx_q \in [list : Seq(Entry), occ : Nat, notified : BOOLEAN]
  /\ rx_fifo_out \in [buf : Seq(Packets), occ : Nat, notified : BOOLEAN]
  /\ clocked \in BOOLEAN

\* Of every entry what is left to send, and what has already been sent;
\* of every received packet its length.
Left(list) == [i \in DOMAIN list |-> list[i].ui]

SentOf(e) == Bits[e.pkt] - Carried(e.ui)

Sent(list) == [i \in DOMAIN list |-> SentOf(list[i])]

Lengths(buf) == [i \in DOMAIN buf |-> Bits[buf[i]]]

\* The queue's counter, kept by push_back and by every branch of clock, is
\* what is left to send of all its entries.
QueueAccounting == rx_q.occ = Total(Left(rx_q.list))

\* Space reserved piecewise by the queue and released whole by pop_front
\* balances: the fifo's counter is the received packets plus what has been
\* transferred of those still in the queue.
FifoAccounting ==
  rx_fifo_out.occ = Total(Lengths(rx_fifo_out.buf)) + Total(Sent(rx_q.list))

\* The receive buffer never holds more than its size.
FifoBounded == rx_fifo_out.occ <= FMax

\* push_back does not look at the length of the packet, so the queue can be
\* overcommitted, but by its last packet only.
OvercommitByLast ==
  rx_q.list # <<>> => rx_q.occ - rx_q.list[Len(rx_q.list)].ui < QMax

\* Neither side of the link takes more than that.
LinkBounded == FifoBounded /\ OvercommitByLast

\* Both notifications are exactly as set as there is something to do.  The
\* queue sets its bit on a counter of 0 and clears it on an empty list, and
\* entries already transferred keep the list longer than the counter says.
NotifyExact ==
  /\ rx_q.notified <=> rx_q.list # <<>>
  /\ rx_fifo_out.notified <=> rx_fifo_out.buf # <<>>

\* The lanes carry one packet at a time: an entry is touched only when all
\* entries before it are completely transferred, and never in the cycle it was
\* pushed in, whether the owner clocked the queue before or after the push.
OneAtATime ==
  /\ \A i, j \in DOMAIN rx_q.list :
       i < j /\ SentOf(rx_q.list[j]) > 0 => rx_q.list[i].ui = 0
  /\ \A i \in DOMAIN rx_q.list :
       rx_q.list[i].fresh => rx_q.list[i].ui = UI(rx_q.list[i].pkt)

\* No cycle transfers more than the rate of the link, however many packets
\* share it.
RateRespected ==
  [][rx_fifo_out'.occ <= rx_fifo_out.occ + Carried(Rate)]_vars

\* A clock wastes nothing: it uses the whole rate, or sends everything that
\* was there before this cycle, or the receive buffer lacks room.
WorkConserving ==
  [][Clock =>
       \/ rx_q.occ - rx_q'.occ = Rate
       \/ \A i \in DOMAIN rx_q'.list : rx_q'.list[i].fresh \/ rx_q'.list[i].ui = 0
       \/ ~Fits(rx_fifo_out'.occ, Carried(Rate))]_vars

\* A packet takes at least one full cycle: what a clock delivers was pushed
\* in an earlier cycle.
NoArrivalInPushCycle ==
  [][Len(rx_fifo_out'.buf) > Len(rx_fifo_out.buf) => ~rx_q.list[1].fresh]_vars

\* The link implements the channel: in flight is what the queue holds, arrived
\* is what the buffer holds.
Flight(list) == [i \in DOMAIN list |-> list[i].pkt]

Channel == INSTANCE HmcChannel WITH
  flight  <- Flight(rx_q.list),
  arrived <- rx_fifo_out.buf

\* Everything accepted arrives, once and in order: nothing is lost, doubled or
\* overtaken, and with fairness nothing is stuck behind a notification.
ChannelSpec == Channel!Spec
=============================================================================
