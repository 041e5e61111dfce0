---------------------------- MODULE HmcLinkParts ----------------------------
(***************************************************************************)
(* The two halves of one direction of a link of the cube: the serialising  *)
(* queue (hmc_link_queue) at the sender and the receive buffer             *)
(* (hmc_link_fifo) behind it, as operators on records.                     *)
(*                                                                         *)
(* A packet is a member of Packets, with its length in Bits.  The code     *)
(* scales every length and rate by 1000 to stay in integers; here all of   *)
(* them are in that scaled unit.  One unit interval (UI) of the link       *)
(* carries Width bits.                                                     *)
(***************************************************************************)
EXTENDS Integers, Sequences, HmcRecursion

CONSTANTS
  Packets,  \* the packets a sender may hand to the link
  Bits,     \* Bits[p]: length of packet p
  Width,    \* lanes: bits per unit interval (bitwidth)
  Rate,     \* unit intervals per clock (bitrate)
  QMax,     \* bitoccupationmax of the queue
  FMax      \* bitoccupationmax of the fifo

(***************************************************************************)
(* What the configuration guarantees: a lane count of 4, 8, 16 or 32       *)
(* divides every packet (a multiple of 128 bits), the fifo holds the       *)
(* longest packet and one clock's worth of transfer (128*256 bits).        *)
(***************************************************************************)
ASSUME LinkAssumption ==
  /\ Width \in Nat \ {0} /\ Rate \in Nat \ {0}
  /\ QMax \in Nat \ {0} /\ FMax \in Nat
  /\ Bits \in [Packets -> Nat \ {0}]
  /\ \A p \in Packets : Bits[p] <= FMax /\ Bits[p] = (Bits[p] \div Width) * Width
  /\ Rate * Width <= FMax

UI(p) == Bits[p] \div Width

\* Bits carried by n unit intervals.
Carried(n) == n * Width

Entry == [pkt : Packets, ui : Nat, fresh : BOOLEAN]

-----------------------------------------------------------------------------
(* hmc_link_queue: packets being serialised.  ui is what is left to send   *)
(* of an entry; fresh says that its time stamp is the current cycle.       *)

EmptyQueue == [list |-> <<>>, occ |-> 0, notified |-> FALSE]

\* Mutant: off by one.
HasSpaceOrFull(q) == q.occ <= QMax

HasSpace(q) == q.occ < QMax

\* The accepted packet; the length is not compared with the space left.
PushBack(q, p) ==
  [list     |-> Append(q.list, [pkt |-> p, ui |-> UI(p), fresh |-> TRUE]),
   occ      |-> q.occ + UI(p),
   notified |-> q.notified \/ q.occ = 0]

\* The cycle counter moves on: no stamp is the current cycle any more.
Aged(e) == [pkt |-> e.pkt, ui |-> e.ui, fresh |-> FALSE]

NewCycle(q) == [q EXCEPT !.list = [i \in DOMAIN q.list |-> Aged(q.list[i])]]

-----------------------------------------------------------------------------
(* hmc_link_fifo: received packets, waiting for the owner of the link.     *)

EmptyFifo == [buf |-> <<>>, occ |-> 0, notified |-> FALSE]

\* Mutant: looks only at what is there, as the queue does.
FitsWithoutLength(occ, bits) == occ < FMax

Fits(occ, bits) == occ + bits <= FMax

\* Mutant: forgets the notification.
PushBackSilently(f, p) == [f EXCEPT !.buf = Append(@, p)]

PushBackSetAvail(f, p) ==
  [f EXCEPT !.buf = Append(@, p), !.notified = @ \/ f.buf = <<>>]

\* Mutant: forgets to give the space back.
PopFrontKeepSpace(f) ==
  [buf |-> Tail(f.buf), occ |-> f.occ, notified |-> f.notified /\ Len(f.buf) # 1]

PopFront(f) ==
  [buf      |-> Tail(f.buf),
   occ      |-> f.occ - Bits[Head(f.buf)],
   notified |-> f.notified /\ Len(f.buf) # 1]

-----------------------------------------------------------------------------
(* hmc_link_queue::clock.                                                  *)

(***************************************************************************)
(* The locals of its loop: the entries and both occupations, the unit      *)
(* intervals left in this clock (tbitrate) and the iterator.  A break is   *)
(* a budget of 0.                                                          *)
(***************************************************************************)
LoopState ==
  [list : Seq(Entry), occ : Int, fifo : Int, budget : Nat, it : Nat \ {0}]

LoopStart(q, f) ==
  [list |-> q.list, occ |-> q.occ, fifo |-> f.occ, budget |-> Rate, it |-> 1]

\* What the entry under the iterator can use of the budget.
Grant(s) ==
  IF s.list[s.it].ui < s.budget THEN s.list[s.it].ui ELSE s.budget

\* Mutant: ignores the time stamp.
BlockedIgnoringStamp(s) == ~Fits(s.fifo, Carried(Grant(s)))

Blocked(s) == s.list[s.it].fresh \/ ~Fits(s.fifo, Carried(Grant(s)))

\* Mutant: skips the entry instead of ending the loop.
Skip(s) == [s EXCEPT !.it = @ + 1]

Break(s) == [s EXCEPT !.budget = 0]

\* Mutants: one forgotten or wrong update each.
TransferWhole(s, occ, bits, budget) ==
  [list |-> [s.list EXCEPT ![s.it].ui = @ - Grant(s)],
   occ |-> occ, fifo |-> s.fifo + bits, budget |-> budget, it |-> s.it + 1]

TransferKeepOcc(s) ==
  TransferWhole(s, s.occ, Carried(Grant(s)), s.budget - Grant(s))

TransferReserveUI(s) ==
  TransferWhole(s, s.occ - Grant(s), Grant(s), s.budget - Grant(s))

TransferKeepBudget(s) ==
  TransferWhole(s, s.occ - Grant(s), Carried(Grant(s)), s.budget)

TransferThenStop(s) ==
  TransferWhole(s, s.occ - Grant(s), Carried(Grant(s)), 0)

Transfer(s) ==
  [list   |-> [s.list EXCEPT ![s.it].ui = @ - Grant(s)],
   occ    |-> s.occ - Grant(s),
   fifo   |-> s.fifo + Carried(Grant(s)),
   budget |-> s.budget - Grant(s),
   it     |-> s.it + 1]

\* One iteration; the identity once the loop has ended.
Iterate[s \in LoopState] ==
  IF s.budget = 0 \/ s.it > Len(s.list) THEN s
  ELSE IF Blocked(s) THEN Break(s)
  ELSE Transfer(s)

\* The loop makes at most one iteration per entry.
Serialise(q, f) ==
  Iterated(Iterate, LoopStart(q, f))[Len(q.list)]

\* Delivery of the front entry, at most one per clock.
Arrives(s) == Head(s.list).ui = 0

\* Mutant: clears the notification when nothing is left to send.
QueueAfterByOcc(q, s) ==
  [list     |-> IF Arrives(s) THEN Tail(s.list) ELSE s.list,
   occ      |-> s.occ,
   notified |-> q.notified /\ s.occ # 0]

QueueAfter(q, s) ==
  IF Arrives(s)
  THEN [list     |-> Tail(s.list),
        occ      |-> s.occ,
        notified |-> q.notified /\ Len(s.list) # 1]
  ELSE [q EXCEPT !.list = s.list, !.occ = s.occ]

FifoAfter(f, s) ==
  IF Arrives(s)
  THEN PushBackSetAvail([f EXCEPT !.occ = s.fifo], Head(s.list).pkt)
  ELSE [f EXCEPT !.occ = s.fifo]
=============================================================================
