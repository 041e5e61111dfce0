---------------------------- MODULE HmcLinkProofs ----------------------------
(***************************************************************************)
(* Theorems about HmcLink, for every set of packets, every width and rate  *)
(* and every size of the queue and of the buffer.                          *)
(***************************************************************************)
EXTENDS HmcLink, HmcRecursionProofs

-----------------------------------------------------------------------------
(* Lists of entries. *)

Queue == [list : Seq(Entry), occ : Nat, notified : BOOLEAN]

Fifo == [buf : Seq(Packets), occ : Nat, notified : BOOLEAN]

\* No entry has more left to send than its packet is long.
Bounded(list) == \A i \in DOMAIN list : list[i].ui <= UI(list[i].pkt)

InOrder(list) ==
  \A i, j \in DOMAIN list : i < j /\ SentOf(list[j]) > 0 => list[i].ui = 0

\* Entries pushed in this cycle are complete and come last.
FreshWhole(list) == \A i \in DOMAIN list : list[i].fresh => list[i].ui = UI(list[i].pkt)

FreshLast(list) == \A i, j \in DOMAIN list : i < j /\ list[i].fresh => list[j].fresh

\* Carried is linear and monotone.
LEMMA CarriedType ==
  ASSUME NEW a \in Int
  PROVE  /\ Carried(a) \in Int
         /\ a >= 0 => Carried(a) >= 0
         /\ a > 0 => Carried(a) > 0
BY LinkAssumption DEF Carried

LEMMA CarriedMinus ==
  ASSUME NEW a \in Int, NEW b \in Int
  PROVE  Carried(a - b) = Carried(a) - Carried(b)
BY LinkAssumption DEF Carried

LEMMA CarriedPlus ==
  ASSUME NEW a \in Int, NEW b \in Int
  PROVE  Carried(a + b) = Carried(a) + Carried(b)
BY LinkAssumption DEF Carried

LEMMA CarriedMonotone ==
  ASSUME NEW a \in Int, NEW b \in Int, a <= b
  PROVE  Carried(a) <= Carried(b)
BY LinkAssumption DEF Carried

LEMMA CarriedZero == Carried(0) = 0
BY LinkAssumption DEF Carried

\* UI(p) unit intervals carry exactly the packet.
LEMMA UICarried ==
  ASSUME NEW p \in Packets
  PROVE  UI(p) \in Nat /\ UI(p) > 0 /\ Bits[p] \in Nat /\ Carried(UI(p)) = Bits[p]
<1>1. /\ Bits[p] \in Nat \ {0} /\ Width \in Nat \ {0}
      /\ Bits[p] = (Bits[p] \div Width) * Width
  BY LinkAssumption
<1>2. Bits[p] \div Width \in Nat
  BY <1>1
<1>3. Bits[p] \div Width # 0
  <2>1. 0 * Width = 0
    BY <1>1
  <2> QED BY <1>1, <2>1
<1> QED BY <1>1, <1>2, <1>3 DEF UI, Carried

LEMMA EntryType ==
  ASSUME NEW e \in Entry
  PROVE  e.pkt \in Packets /\ e.ui \in Nat /\ e.fresh \in BOOLEAN
BY DEF Entry

\* What has been sent of an entry is a natural, 0 exactly if it is complete.
LEMMA SentOfType ==
  ASSUME NEW e \in Entry, e.ui <= UI(e.pkt)
  PROVE  SentOf(e) \in Nat /\ (SentOf(e) > 0 <=> e.ui # UI(e.pkt))
<1> DEFINE u == UI(e.pkt)
<1>1. e.pkt \in Packets /\ e.ui \in Nat
  BY EntryType
<1>2. u \in Nat /\ Bits[e.pkt] \in Nat /\ Carried(u) = Bits[e.pkt]
  BY <1>1, UICarried
<1>3. e.ui <= u
  OBVIOUS
<1> HIDE DEF u
<1>4. Carried(u - e.ui) = Carried(u) - Carried(e.ui)
  <2>1. u \in Int /\ e.ui \in Int
    BY <1>1, <1>2
  <2> QED BY <2>1, CarriedMinus, Zenon
<1>5. SentOf(e) = Carried(u - e.ui)
  BY <1>2, <1>4 DEF SentOf
<1>6. /\ Carried(u - e.ui) \in Int
      /\ u - e.ui >= 0 => Carried(u - e.ui) >= 0
      /\ u - e.ui > 0 => Carried(u - e.ui) > 0
  <2>1. u - e.ui \in Int
    BY <1>1, <1>2
  <2> QED BY <2>1, CarriedType
<1>7. u = e.ui => SentOf(e) = 0
  BY <1>1, <1>2, <1>4, <1>5, CarriedType
<1>8. SentOf(e) \in Nat /\ (SentOf(e) > 0 <=> e.ui # u)
  BY <1>1, <1>2, <1>3, <1>5, <1>6, <1>7
<1> QED BY <1>8 DEF u

\* The sequences that are summed are sequences of naturals.
LEMMA LeftType ==
  ASSUME NEW list \in Seq(Entry)
  PROVE  Left(list) \in Seq(Nat) /\ Len(Left(list)) = Len(list)
<1>1. ASSUME NEW i \in 1 .. Len(list) PROVE list[i].ui \in Nat
  <2>1. list[i] \in Entry
    OBVIOUS
  <2> QED BY <2>1, EntryType
<1> QED BY <1>1 DEF Left

LEMMA SentType ==
  ASSUME NEW list \in Seq(Entry), Bounded(list)
  PROVE  Sent(list) \in Seq(Nat) /\ Len(Sent(list)) = Len(list)
<1>1. \A i \in 1 .. Len(list) : SentOf(list[i]) \in Nat
  BY SentOfType DEF Bounded
<1> QED BY <1>1 DEF Sent

LEMMA LengthsType ==
  ASSUME NEW buf \in Seq(Packets)
  PROVE  Lengths(buf) \in Seq(Nat) /\ Len(Lengths(buf)) = Len(buf)
<1>1. \A i \in 1 .. Len(buf) : Bits[buf[i]] \in Nat
  BY LinkAssumption
<1> QED BY <1>1 DEF Lengths

\* The list with x left to send of its k-th entry.
SetUI(list, k, x) == [list EXCEPT ![k].ui = x]

LEMMA SetUIType ==
  ASSUME NEW list \in Seq(Entry), NEW k \in 1 .. Len(list), NEW x \in Nat
  PROVE  /\ SetUI(list, k, x) \in Seq(Entry)
         /\ Len(SetUI(list, k, x)) = Len(list)
         /\ \A i \in 1 .. Len(list) : i # k => SetUI(list, k, x)[i] = list[i]
         /\ SetUI(list, k, x)[k].pkt = list[k].pkt
         /\ SetUI(list, k, x)[k].fresh = list[k].fresh
         /\ SetUI(list, k, x)[k].ui = x
<1> DEFINE e == [list[k] EXCEPT !.ui = x]
<1>1. list[k] \in Entry
  OBVIOUS
<1>2. e \in Entry /\ e.pkt = list[k].pkt /\ e.fresh = list[k].fresh /\ e.ui = x
  BY <1>1 DEF Entry
<1>3. SetUI(list, k, x) = [list EXCEPT ![k] = e]
  BY DEF SetUI
<1> HIDE DEF e
<1>4. /\ [list EXCEPT ![k] = e] \in Seq(Entry)
      /\ Len([list EXCEPT ![k] = e]) = Len(list)
      /\ \A i \in 1 .. Len(list) : [list EXCEPT ![k] = e][i] = IF i = k THEN e ELSE list[i]
  BY <1>2, ExceptSeq
<1> QED BY <1>2, <1>3, <1>4

\* Sending from one entry moves the two sums by what was sent.
LEMMA SetUILeft ==
  ASSUME NEW list \in Seq(Entry), NEW k \in 1 .. Len(list), NEW x \in Nat
  PROVE  Total(Left(SetUI(list, k, x))) = (Total(Left(list)) - list[k].ui) + x
<1> DEFINE new == SetUI(list, k, x)
<1>1. /\ new \in Seq(Entry) /\ Len(new) = Len(list) /\ new[k].ui = x
      /\ \A i \in 1 .. Len(list) : i # k => new[i] = list[i]
  BY SetUIType
<1> HIDE DEF new
<1>2. Left(list) \in Seq(Nat) /\ Len(Left(list)) = Len(list) /\ Left(list)[k] = list[k].ui
  BY LeftType DEF Left
<1>3. Left(new) = [Left(list) EXCEPT ![k] = x]
  <2> DEFINE target == [Left(list) EXCEPT ![k] = x]
  <2>1. /\ target \in Seq(Nat) /\ Len(target) = Len(list)
        /\ \A i \in 1 .. Len(list) : target[i] = IF i = k THEN x ELSE Left(list)[i]
    BY <1>2, ExceptSeq
  <2>2. Left(new) \in Seq(Nat) /\ Len(Left(new)) = Len(list)
    BY <1>1, LeftType
  <2> HIDE DEF target
  <2>3. ASSUME NEW i \in 1 .. Len(list) PROVE Left(new)[i] = target[i]
    <3>1. Left(new)[i] = new[i].ui /\ Left(list)[i] = list[i].ui
      BY <1>1 DEF Left
    <3> QED BY <1>1, <2>1, <3>1
  <2>4. Left(new) = target
    BY <2>1, <2>2, <2>3, SeqEqual
  <2> QED BY <2>4 DEF target
<1>4. k \in 1 .. Len(Left(list))
  BY <1>2
<1>5. Total([Left(list) EXCEPT ![k] = x]) = (Total(Left(list)) - Left(list)[k]) + x
  BY <1>2, <1>4, TotalUpdate, Zenon
<1> QED BY <1>2, <1>3, <1>5 DEF new

LEMMA SetUISent ==
  ASSUME NEW list \in Seq(Entry), Bounded(list), NEW k \in 1 .. Len(list),
         NEW x \in Nat, x <= list[k].ui
  PROVE  /\ Bounded(SetUI(list, k, x))
         /\ Total(Sent(SetUI(list, k, x))) =
               Total(Sent(list)) + (Carried(list[k].ui) - Carried(x))
<1> DEFINE new == SetUI(list, k, x)
<1>1. /\ new \in Seq(Entry) /\ Len(new) = Len(list)
      /\ new[k].ui = x /\ new[k].pkt = list[k].pkt
      /\ \A i \in 1 .. Len(list) : i # k => new[i] = list[i]
  BY SetUIType
<1> HIDE DEF new
<1>2. list[k] \in Entry /\ list[k].ui \in Nat /\ list[k].pkt \in Packets
  <2>1. list[k] \in Entry
    OBVIOUS
  <2> QED BY <2>1, EntryType
<1>3. UI(list[k].pkt) \in Nat /\ Bits[list[k].pkt] \in Nat
  BY <1>2, UICarried
<1>4. Bounded(new)
  <2>1. ASSUME NEW i \in 1 .. Len(list) PROVE new[i].ui <= UI(new[i].pkt)
    <3>1. CASE i = k
      <4>1. list[k].ui <= UI(list[k].pkt)
        BY DEF Bounded
      <4> QED BY <1>1, <1>2, <1>3, <3>1, <4>1
    <3>2. CASE i # k
      BY <1>1, <3>2 DEF Bounded
    <3> QED BY <3>1, <3>2
  <2> QED BY <1>1, <2>1 DEF Bounded
<1>5. Sent(list) \in Seq(Nat) /\ Len(Sent(list)) = Len(list)
  BY SentType
<1>6. Sent(list)[k] = SentOf(list[k]) /\ SentOf(list[k]) = Bits[list[k].pkt] - Carried(list[k].ui)
  BY DEF Sent, SentOf
<1> DEFINE y == SentOf(new[k])
<1>7. y = Bits[list[k].pkt] - Carried(x)
  BY <1>1 DEF SentOf
<1>8. y \in Nat
  <2>1. new[k] \in Entry /\ new[k].ui <= UI(new[k].pkt)
    BY <1>1, <1>4 DEF Bounded
  <2> QED BY <2>1, SentOfType
<1>9. Sent(new) = [Sent(list) EXCEPT ![k] = y]
  <2> DEFINE target == [Sent(list) EXCEPT ![k] = y]
  <2> HIDE DEF y
  <2>1. /\ target \in Seq(Nat) /\ Len(target) = Len(list)
        /\ \A i \in 1 .. Len(list) : target[i] = IF i = k THEN y ELSE Sent(list)[i]
    BY <1>5, <1>8, ExceptSeq
  <2>2. Sent(new) \in Seq(Nat) /\ Len(Sent(new)) = Len(list)
    BY <1>1, <1>4, SentType
  <2> HIDE DEF target
  <2>3. ASSUME NEW i \in 1 .. Len(list) PROVE Sent(new)[i] = target[i]
    <3>1. Sent(new)[i] = SentOf(new[i]) /\ Sent(list)[i] = SentOf(list[i])
      BY <1>1 DEF Sent
    <3>2. CASE i = k
      BY <2>1, <3>1, <3>2 DEF y
    <3>3. CASE i # k
      BY <1>1, <2>1, <3>1, <3>3
    <3> QED BY <3>2, <3>3
  <2>4. Sent(new) = target
    BY <2>1, <2>2, <2>3, SeqEqual
  <2> QED BY <2>4 DEF target
<1>10. k \in 1 .. Len(Sent(list))
  BY <1>5
<1> HIDE DEF y
<1>11. Total([Sent(list) EXCEPT ![k] = y]) = (Total(Sent(list)) - Sent(list)[k]) + y
  BY <1>5, <1>8, <1>10, TotalUpdate, Zenon
<1>12. Total(Sent(list)) \in Nat /\ Carried(x) \in Int /\ Carried(list[k].ui) \in Int
  <2>1. Total(Sent(list)) \in Nat
    BY <1>5, TotalType
  <2>2. x \in Int /\ list[k].ui \in Int
    BY <1>2
  <2> QED BY <2>1, <2>2, CarriedType, Zenon
<1>13. Total(Sent(new)) = Total(Sent(list)) + (Carried(list[k].ui) - Carried(x))
  BY <1>3, <1>6, <1>7, <1>9, <1>11, <1>12
<1> QED BY <1>4, <1>13 DEF new

-----------------------------------------------------------------------------
(* The loop of hmc_link_queue::clock. *)

\* What clock finds.
QueueGood(q) ==
  /\ q \in Queue
  /\ Bounded(q.list) /\ InOrder(q.list) /\ FreshWhole(q.list) /\ FreshLast(q.list)
  /\ q.occ = Total(Left(q.list))

FifoGood(q, f) ==
  /\ f \in Fifo
  /\ f.occ = Total(Lengths(f.buf)) + Total(Sent(q.list))
  /\ f.occ <= FMax

\* The loop only lowers what is left to send, and not of fresh entries.
SameEntries(old, new) ==
  /\ Len(new) = Len(old)
  /\ \A i \in 1 .. Len(old) :
       /\ new[i].pkt = old[i].pkt
       /\ new[i].fresh = old[i].fresh
       /\ new[i].ui <= old[i].ui
       /\ old[i].fresh => new[i].ui = old[i].ui

Accounted(f, s) ==
  /\ s.occ = Total(Left(s.list))
  /\ s.fifo = Total(Lengths(f.buf)) + Total(Sent(s.list))
  /\ s.fifo <= FMax

\* What has been sent so far, and what is left of the budget.
Spent(q, f, s) ==
  /\ s.occ <= q.occ
  /\ (q.occ - s.occ) + s.budget <= Rate
  /\ s.fifo = f.occ + Carried(q.occ - s.occ)

LastEntry(q, s) ==
  \A i \in 1 .. Len(q.list) :
    i = Len(q.list) => s.occ - s.list[i].ui <= q.occ - q.list[i].ui

\* Before a break the entries passed are complete; after it the rate, the
\* entries or the space of the buffer are used up.
Sending(q, s) ==
  s.budget > 0 =>
    /\ (q.occ - s.occ) + s.budget = Rate
    /\ \A i \in 1 .. Len(q.list) : i < s.it => s.list[i].ui = 0

UsedUp(q, s) ==
  \/ q.occ - s.occ = Rate
  \/ \A i \in 1 .. Len(q.list) : s.list[i].fresh \/ s.list[i].ui = 0
  \/ ~Fits(s.fifo, Carried(Rate))

LoopInv(q, f) ==
  {s \in LoopState :
     /\ SameEntries(q.list, s.list)
     /\ Bounded(s.list)
     /\ InOrder(s.list)
     /\ Accounted(f, s)
     /\ Spent(q, f, s)
     /\ LastEntry(q, s)
     /\ Sending(q, s)
     /\ s.budget = 0 => UsedUp(q, s)}

\* The loop starts in its invariant.
LEMMA LoopStartInv ==
  ASSUME NEW q, NEW f, QueueGood(q), FifoGood(q, f)
  PROVE  LoopStart(q, f) \in LoopInv(q, f)
<1> DEFINE s == LoopStart(q, f)
<1>1. /\ s.list = q.list /\ s.occ = q.occ /\ s.fifo = f.occ
      /\ s.budget = Rate /\ s.it = 1
  BY DEF LoopStart
<1>2. q.list \in Seq(Entry) /\ q.occ \in Nat /\ f.occ \in Nat /\ Rate \in Nat \ {0}
  BY LinkAssumption DEF QueueGood, FifoGood, Queue, Fifo
<1>3. s \in LoopState
  BY <1>2 DEF LoopStart, LoopState
<1>4. \A i \in 1 .. Len(q.list) : q.list[i].ui \in Nat
  <2>1. \A i \in 1 .. Len(q.list) : q.list[i] \in Entry
    BY <1>2
  <2> QED BY <2>1, EntryType
<1> HIDE DEF s
<1>5. SameEntries(q.list, s.list)
  BY <1>1, <1>2, <1>4 DEF SameEntries
<1>6. Bounded(s.list) /\ InOrder(s.list) /\ Accounted(f, s)
  BY <1>1 DEF QueueGood, FifoGood, Accounted
<1>7. Spent(q, f, s)
  <2>1. q.occ - s.occ = 0
    BY <1>1, <1>2
  <2> QED BY <1>1, <1>2, <2>1, CarriedZero DEF Spent
<1>8. LastEntry(q, s)
  BY <1>1, <1>2, <1>4 DEF LastEntry
<1>9. Sending(q, s) /\ s.budget # 0
  BY <1>1, <1>2 DEF Sending
<1>10. s \in LoopInv(q, f)
  BY <1>3, <1>5, <1>6, <1>7, <1>8, <1>9 DEF LoopInv
<1> QED BY <1>10 DEF s

\* Facts about the entry under the iterator.
LEMMA UnderIterator ==
  ASSUME NEW s \in LoopState, s.budget # 0, ~(s.it > Len(s.list))
  PROVE  /\ s.list \in Seq(Entry) /\ s.it \in 1 .. Len(s.list)
         /\ s.list[s.it] \in Entry /\ s.list[s.it].ui \in Nat
         /\ s.occ \in Int /\ s.fifo \in Int /\ s.budget \in Nat /\ s.budget > 0
         /\ Grant(s) \in Nat /\ Grant(s) <= s.list[s.it].ui /\ Grant(s) <= s.budget
         /\ Grant(s) < s.budget => Grant(s) = s.list[s.it].ui
<1>1. /\ s.list \in Seq(Entry) /\ s.it \in Nat \ {0}
      /\ s.occ \in Int /\ s.fifo \in Int /\ s.budget \in Nat
  BY DEF LoopState
<1>2. s.it \in 1 .. Len(s.list)
  BY <1>1
<1>3. s.list[s.it] \in Entry
  BY <1>1, <1>2
<1>4. s.list[s.it].ui \in Nat
  BY <1>3, EntryType
<1>5. /\ Grant(s) \in Nat /\ Grant(s) <= s.list[s.it].ui /\ Grant(s) <= s.budget
      /\ Grant(s) < s.budget => Grant(s) = s.list[s.it].ui
  BY <1>1, <1>4 DEF Grant
<1> QED BY <1>1, <1>2, <1>3, <1>4, <1>5

\* Leaving the loop keeps the invariant: the entry is fresh, and so are all
\* behind it, or the buffer has no room for what it would send.
LEMMA BreakInv ==
  ASSUME NEW q, NEW f, QueueGood(q), FifoGood(q, f),
         NEW s \in LoopInv(q, f), s.budget # 0, ~(s.it > Len(s.list)), Blocked(s)
  PROVE  Break(s) \in LoopInv(q, f)
<1> DEFINE n == Break(s)
<1>1. s \in LoopState
  BY DEF LoopInv
<1>2. /\ n.list = s.list /\ n.occ = s.occ /\ n.fifo = s.fifo
      /\ n.budget = 0 /\ n.it = s.it /\ n \in LoopState
  BY <1>1 DEF Break, LoopState
<1> HIDE DEF n
<1>3. /\ s.list \in Seq(Entry) /\ s.it \in 1 .. Len(s.list)
      /\ s.occ \in Int /\ s.fifo \in Int /\ s.budget \in Nat /\ s.budget > 0
      /\ Grant(s) \in Nat /\ Grant(s) <= s.budget
  BY <1>1, UnderIterator
<1>4. q.occ \in Nat /\ Rate \in Nat /\ q.list \in Seq(Entry)
  BY LinkAssumption DEF QueueGood, Queue
<1>5. SameEntries(q.list, s.list) /\ Spent(q, f, s) /\ Sending(q, s)
  BY DEF LoopInv
<1>6. Spent(q, f, n)
  BY <1>2, <1>3, <1>4, <1>5 DEF Spent
<1>7. UsedUp(q, n)
  <2>1. CASE s.list[s.it].fresh
    <3>1. ASSUME NEW i \in 1 .. Len(q.list)
          PROVE  s.list[i].fresh \/ s.list[i].ui = 0
      <4>1. CASE i < s.it
        BY <1>3, <1>5, <4>1 DEF Sending
      <4>2. CASE i = s.it
        BY <2>1, <4>2
      <4>3. CASE i > s.it
        <5>1. Len(s.list) = Len(q.list) /\ s.it \in 1 .. Len(q.list)
          BY <1>3, <1>5 DEF SameEntries
        <5>2. q.list[s.it].fresh
          BY <2>1, <1>5, <5>1 DEF SameEntries
        <5>3. q.list[i].fresh
          BY <1>4, <4>3, <5>1, <5>2 DEF QueueGood, FreshLast
        <5> QED BY <1>5, <5>3 DEF SameEntries
      <4> QED BY <1>3, <4>1, <4>2, <4>3
    <3> QED BY <1>2, <3>1 DEF UsedUp
  <2>2. CASE ~Fits(s.fifo, Carried(Grant(s)))
    <3>1. Grant(s) <= Rate
      BY <1>3, <1>4, <1>5 DEF Spent
    <3>2. Grant(s) \in Int /\ Rate \in Int
      BY <1>3, <1>4
    <3>3. /\ Carried(Grant(s)) <= Carried(Rate)
          /\ Carried(Grant(s)) \in Int /\ Carried(Rate) \in Int
      BY <3>1, <3>2, CarriedMonotone, CarriedType, Zenon
    <3>4. FMax \in Int
      BY LinkAssumption
    <3> QED BY <1>2, <1>3, <2>2, <3>3, <3>4 DEF UsedUp, Fits
  <2> QED BY <2>1, <2>2 DEF Blocked
<1>8. Bounded(n.list) /\ InOrder(n.list) /\ Accounted(f, n) /\ LastEntry(q, n)
  BY <1>2 DEF LoopInv, Accounted, LastEntry
<1>9. Sending(q, n)
  BY <1>2 DEF Sending
<1>10. n \in LoopInv(q, f)
  BY <1>2, <1>5, <1>6, <1>7, <1>8, <1>9 DEF LoopInv
<1> QED BY <1>10 DEF n

\* A transfer takes the grant from the entry, the queue and the budget and
\* gives its bits to the buffer.
LEMMA TransferEffect ==
  ASSUME NEW s \in LoopState, s.budget # 0, ~(s.it > Len(s.list))
  PROVE  /\ Transfer(s) \in LoopState
         /\ Transfer(s).list = SetUI(s.list, s.it, s.list[s.it].ui - Grant(s))
         /\ Transfer(s).occ = s.occ - Grant(s)
         /\ Transfer(s).fifo = s.fifo + Carried(Grant(s))
         /\ Transfer(s).budget = s.budget - Grant(s)
         /\ Transfer(s).it = s.it + 1
<1> DEFINE x == s.list[s.it].ui - Grant(s)
<1>1. /\ s.list \in Seq(Entry) /\ s.it \in 1 .. Len(s.list)
      /\ s.list[s.it] \in Entry /\ s.list[s.it].ui \in Nat
      /\ s.occ \in Int /\ s.fifo \in Int /\ s.budget \in Nat
      /\ Grant(s) \in Nat /\ Grant(s) <= s.list[s.it].ui /\ Grant(s) <= s.budget
  BY UnderIterator
<1>2. /\ Transfer(s).list = SetUI(s.list, s.it, x)
      /\ Transfer(s).occ = s.occ - Grant(s)
      /\ Transfer(s).fifo = s.fifo + Carried(Grant(s))
      /\ Transfer(s).budget = s.budget - Grant(s)
      /\ Transfer(s).it = s.it + 1
      /\ Transfer(s) = [list |-> SetUI(s.list, s.it, x), occ |-> s.occ - Grant(s),
                        fifo |-> s.fifo + Carried(Grant(s)),
                        budget |-> s.budget - Grant(s), it |-> s.it + 1]
  BY DEF Transfer, SetUI
<1>3. x \in Nat
  BY <1>1
<1> HIDE DEF x
<1>4. SetUI(s.list, s.it, x) \in Seq(Entry)
  BY <1>1, <1>3, SetUIType
<1>5. Carried(Grant(s)) \in Int
  <2>1. Grant(s) \in Int
    BY <1>1
  <2> QED BY <2>1, CarriedType
<1>6. /\ s.occ - Grant(s) \in Int /\ s.fifo + Carried(Grant(s)) \in Int
      /\ s.budget - Grant(s) \in Nat /\ s.it + 1 \in Nat \ {0}
  <2>1. s.it \in Nat
    BY <1>1
  <2>2. s.occ \in Int /\ s.fifo \in Int /\ s.budget \in Nat
    BY <1>1
  <2>3. Grant(s) \in Nat /\ Grant(s) <= s.budget
    BY <1>1
  <2> QED BY <1>5, <2>1, <2>2, <2>3
<1>7. Transfer(s) \in LoopState
  BY <1>2, <1>4, <1>6 DEF LoopState
<1> QED BY <1>2, <1>7 DEF x

LEMMA TransferInv ==
  ASSUME NEW q, NEW f, QueueGood(q), FifoGood(q, f),
         NEW s \in LoopInv(q, f), s.budget # 0, ~(s.it > Len(s.list)), ~Blocked(s)
  PROVE  Transfer(s) \in LoopInv(q, f)
<1> DEFINE n == Transfer(s)
           g == Grant(s)
           k == s.it
           x == s.list[k].ui - g
<1>1. s \in LoopState
  BY DEF LoopInv
<1>2. /\ n \in LoopState /\ n.list = SetUI(s.list, k, x)
      /\ n.occ = s.occ - g /\ n.fifo = s.fifo + Carried(g)
      /\ n.budget = s.budget - g /\ n.it = k + 1
  BY <1>1, TransferEffect
<1>3. /\ s.list \in Seq(Entry) /\ k \in 1 .. Len(s.list)
      /\ s.list[k] \in Entry /\ s.list[k].ui \in Nat
      /\ s.occ \in Int /\ s.fifo \in Int /\ s.budget \in Nat /\ s.budget > 0
      /\ g \in Nat /\ g <= s.list[k].ui /\ g <= s.budget
      /\ g < s.budget => g = s.list[k].ui
  BY <1>1, UnderIterator
<1>4. x \in Nat /\ x <= s.list[k].ui /\ s.list[k].ui - x = g
  BY <1>3
<1>5. ~s.list[k].fresh /\ s.fifo + Carried(g) <= FMax
  BY DEF Blocked, Fits
<1>6. /\ q.occ \in Nat /\ Rate \in Nat \ {0} /\ q.list \in Seq(Entry)
      /\ f.occ \in Nat
  BY LinkAssumption DEF QueueGood, Queue, FifoGood, Fifo
<1>7. /\ SameEntries(q.list, s.list) /\ Bounded(s.list) /\ InOrder(s.list)
      /\ Accounted(f, s) /\ Spent(q, f, s) /\ LastEntry(q, s) /\ Sending(q, s)
  BY DEF LoopInv
<1> HIDE DEF n, g, x, k
<1>8. /\ n.list \in Seq(Entry) /\ Len(n.list) = Len(s.list)
      /\ n.list[k].pkt = s.list[k].pkt /\ n.list[k].fresh = s.list[k].fresh
      /\ n.list[k].ui = x
      /\ \A i \in 1 .. Len(s.list) : i # k => n.list[i] = s.list[i]
  <2>1. /\ SetUI(s.list, k, x) \in Seq(Entry)
        /\ Len(SetUI(s.list, k, x)) = Len(s.list)
        /\ \A i \in 1 .. Len(s.list) : i # k => SetUI(s.list, k, x)[i] = s.list[i]
        /\ SetUI(s.list, k, x)[k].pkt = s.list[k].pkt
        /\ SetUI(s.list, k, x)[k].fresh = s.list[k].fresh
        /\ SetUI(s.list, k, x)[k].ui = x
    BY <1>3, <1>4, SetUIType
  <2> QED BY <1>2, <2>1
<1>9. Len(s.list) = Len(q.list)
  BY <1>7 DEF SameEntries
<1>10. SameEntries(q.list, n.list)
  <2>1. ASSUME NEW i \in 1 .. Len(q.list)
        PROVE  /\ n.list[i].pkt = q.list[i].pkt
               /\ n.list[i].fresh = q.list[i].fresh
               /\ n.list[i].ui <= q.list[i].ui
               /\ q.list[i].fresh => n.list[i].ui = q.list[i].ui
    <3>1. CASE i = k
      <4>1. q.list[k].ui \in Nat
        <5>1. q.list[i] \in Entry
          BY <1>6
        <5> QED BY <3>1, <5>1, EntryType
      <4>2. /\ s.list[k].pkt = q.list[k].pkt /\ s.list[k].fresh = q.list[k].fresh
            /\ s.list[k].ui <= q.list[k].ui
        BY <1>7, <3>1 DEF SameEntries
      <4>3. x <= q.list[k].ui
        BY <1>3, <1>4, <4>1, <4>2
      <4>4. ~q.list[k].fresh
        BY <1>5, <4>2
      <4>5. /\ n.list[k].pkt = q.list[k].pkt /\ n.list[k].fresh = q.list[k].fresh
            /\ n.list[k].ui <= q.list[k].ui
        BY <1>8, <4>2, <4>3
      <4> QED BY <3>1, <4>4, <4>5
    <3>2. CASE i # k
      BY <1>7, <1>8, <1>9, <3>2 DEF SameEntries
    <3> QED BY <3>1, <3>2
  <2> QED BY <1>8, <1>9, <2>1 DEF SameEntries
<1>11. /\ Bounded(n.list)
       /\ Total(Sent(n.list)) = Total(Sent(s.list)) + (Carried(s.list[k].ui) - Carried(x))
  BY <1>2, <1>3, <1>4, <1>7, SetUISent
<1>12. Carried(s.list[k].ui) - Carried(x) = Carried(g) /\ Carried(g) \in Int
  <2>1. s.list[k].ui \in Int /\ x \in Int /\ g \in Int
    BY <1>3, <1>4
  <2>2. Carried(s.list[k].ui - x) = Carried(s.list[k].ui) - Carried(x)
    BY <2>1, CarriedMinus, Zenon
  <2>3. Carried(g) \in Int
    BY <2>1, CarriedType, Zenon
  <2> QED BY <1>4, <2>2, <2>3
<1>13. /\ Total(Left(s.list)) \in Nat /\ Total(Sent(s.list)) \in Nat
       /\ Total(Lengths(f.buf)) \in Nat
  <2>1. f.buf \in Seq(Packets)
    BY DEF FifoGood, Fifo
  <2>2. /\ Left(s.list) \in Seq(Nat) /\ Sent(s.list) \in Seq(Nat)
        /\ Lengths(f.buf) \in Seq(Nat)
    BY <1>3, <1>7, <2>1, LeftType, SentType, LengthsType
  <2> QED BY <2>2, TotalType
<1>14. Accounted(f, n)
  <2>1. Total(Left(n.list)) = (Total(Left(s.list)) - s.list[k].ui) + x
    BY <1>2, <1>3, <1>4, SetUILeft
  <2>2. n.occ = Total(Left(n.list))
    BY <1>2, <1>3, <1>4, <1>7, <1>13, <2>1 DEF Accounted
  <2>3. n.fifo = Total(Lengths(f.buf)) + Total(Sent(n.list))
    BY <1>2, <1>7, <1>11, <1>12, <1>13 DEF Accounted
  <2> QED BY <1>2, <1>5, <2>2, <2>3 DEF Accounted
<1>15. Spent(q, f, n)
  <2>1. q.occ - n.occ = (q.occ - s.occ) + g
    BY <1>2, <1>3, <1>6
  <2>2. q.occ - s.occ \in Int /\ g \in Int
    BY <1>3, <1>6
  <2>3. Carried((q.occ - s.occ) + g) = Carried(q.occ - s.occ) + Carried(g)
    BY <2>2, CarriedPlus, Zenon
  <2>4. Carried(q.occ - s.occ) \in Int
    BY <2>2, CarriedType, Zenon
  <2>5. n.fifo = f.occ + Carried(q.occ - n.occ)
    BY <1>2, <1>6, <1>7, <1>12, <2>1, <2>3, <2>4 DEF Spent
  <2>6. n.occ <= q.occ /\ (q.occ - n.occ) + n.budget <= Rate
    <3>1. s.occ <= q.occ /\ (q.occ - s.occ) + s.budget <= Rate
      BY <1>7 DEF Spent
    <3>2. n.occ = s.occ - g /\ n.budget = s.budget - g
      BY <1>2
    <3>3. s.occ \in Int /\ s.budget \in Nat /\ g \in Nat
      BY <1>3
    <3>4. q.occ \in Nat /\ Rate \in Nat
      BY <1>6
    <3> QED BY <3>1, <3>2, <3>3, <3>4
  <2> QED BY <2>5, <2>6 DEF Spent
<1>16. LastEntry(q, n)
  <2>1. ASSUME NEW i \in 1 .. Len(q.list), i = Len(q.list)
        PROVE  n.occ - n.list[i].ui <= q.occ - q.list[i].ui
    <3>1. s.occ - s.list[i].ui <= q.occ - q.list[i].ui
      BY <1>7, <2>1 DEF LastEntry
    <3>2. s.list[i].ui \in Nat /\ q.list[i].ui \in Nat
      <4>1. s.list[i] \in Entry /\ q.list[i] \in Entry
        BY <1>3, <1>6, <1>9
      <4> QED BY <4>1, EntryType
    <3>3. CASE i = k
      <4>1. n.list[i].ui = s.list[i].ui - g
        BY <1>3, <1>4, <1>8, <3>3
      <4> QED BY <1>2, <1>3, <1>6, <3>1, <3>2, <4>1
    <3>4. CASE i # k
      <4>1. n.list[i].ui = s.list[i].ui
        BY <1>8, <1>9, <3>4
      <4>2. n.occ = s.occ - g
        BY <1>2
      <4>3. s.occ \in Int /\ g \in Nat /\ q.occ \in Nat
        BY <1>3, <1>6
      <4>4. (s.occ - g) - s.list[i].ui <= q.occ - q.list[i].ui
        BY <3>1, <3>2, <4>3
      <4> QED BY <4>1, <4>2, <4>4, Zenon
    <3> QED BY <3>3, <3>4
  <2> QED BY <2>1 DEF LastEntry
<1>17. \A i \in 1 .. Len(s.list) : i < k => s.list[i].ui = 0
  BY <1>3, <1>7, <1>9 DEF Sending, k
<1>18. InOrder(n.list)
  <2>1. ASSUME NEW i \in 1 .. Len(s.list), NEW j \in 1 .. Len(s.list),
               i < j, SentOf(n.list[j]) > 0
        PROVE  n.list[i].ui = 0
    <3>1. CASE i < k
      BY <1>8, <1>17, <3>1
    <3>2. CASE i >= k
      <4>1. j # k /\ n.list[j] = s.list[j]
        BY <1>3, <1>8, <2>1, <3>2
      <4>2. s.list[i].ui = 0
        BY <1>7, <2>1, <4>1 DEF InOrder
      <4>3. CASE i = k
        <5>1. s.list[k].ui = 0
          BY <4>2, <4>3
        <5>2. x = 0
          BY <1>3, <1>4, <5>1
        <5> QED BY <1>8, <4>3, <5>2
      <4>4. CASE i # k
        BY <1>8, <4>2, <4>4
      <4> QED BY <4>3, <4>4
    <3> QED BY <1>3, <3>1, <3>2
  <2> QED BY <1>8, <2>1 DEF InOrder
<1>19. Sending(q, n)
  <2>1. ASSUME n.budget > 0
        PROVE  /\ (q.occ - n.occ) + n.budget = Rate
               /\ \A i \in 1 .. Len(q.list) : i < n.it => n.list[i].ui = 0
    <3>1. (q.occ - n.occ) + n.budget = Rate
      BY <1>2, <1>3, <1>6, <1>7 DEF Sending
    <3>2. g = s.list[k].ui
      BY <1>2, <1>3, <2>1
    <3>3. x = 0
      BY <1>3, <1>4, <3>2
    <3>4. ASSUME NEW i \in 1 .. Len(q.list), i < n.it PROVE n.list[i].ui = 0
      <4>1. CASE i = k
        BY <1>8, <3>3, <4>1
      <4>2. CASE i # k
        <5>1. i < k
          BY <1>2, <1>3, <3>4, <4>2
        <5> QED BY <1>8, <1>9, <1>17, <4>2, <5>1
      <4> QED BY <4>1, <4>2
    <3> QED BY <3>1, <3>4
  <2> QED BY <2>1 DEF Sending
<1>20. n.budget = 0 => UsedUp(q, n)
  <2>1. ASSUME n.budget = 0 PROVE q.occ - n.occ = Rate
    BY <1>2, <1>3, <1>6, <1>7, <2>1 DEF Sending
  <2> QED BY <2>1 DEF UsedUp
<1>21. n \in LoopInv(q, f)
  BY <1>2, <1>10, <1>11, <1>14, <1>15, <1>16, <1>18, <1>19, <1>20 DEF LoopInv
<1> QED BY <1>21 DEF n

\* One iteration maps loop states to loop states and keeps the invariant.
LEMMA IterateType == Iterate \in [LoopState -> LoopState]
<1>1. ASSUME NEW s \in LoopState
      PROVE  (IF s.budget = 0 \/ s.it > Len(s.list) THEN s
              ELSE IF Blocked(s) THEN Break(s) ELSE Transfer(s)) \in LoopState
  <2>1. Break(s) \in LoopState
    BY DEF Break, LoopState
  <2>2. s.budget # 0 /\ ~(s.it > Len(s.list)) => Transfer(s) \in LoopState
    BY TransferEffect
  <2> QED BY <2>1, <2>2
<1> QED BY <1>1 DEF Iterate

LEMMA IterateValue ==
  ASSUME NEW s \in LoopState
  PROVE  Iterate[s] = IF s.budget = 0 \/ s.it > Len(s.list) THEN s
                      ELSE IF Blocked(s) THEN Break(s) ELSE Transfer(s)
BY DEF Iterate

LEMMA IterateInv ==
  ASSUME NEW q, NEW f, QueueGood(q), FifoGood(q, f), NEW s \in LoopInv(q, f)
  PROVE  Iterate[s] \in LoopInv(q, f)
<1>1. s \in LoopState
  BY DEF LoopInv
<1>2. CASE s.budget = 0 \/ s.it > Len(s.list)
  BY <1>1, <1>2, IterateValue
<1>3. CASE ~(s.budget = 0 \/ s.it > Len(s.list)) /\ Blocked(s)
  BY <1>1, <1>3, IterateValue, BreakInv
<1>4. CASE ~(s.budget = 0 \/ s.it > Len(s.list)) /\ ~Blocked(s)
  BY <1>1, <1>4, IterateValue, TransferInv
<1> QED BY <1>2, <1>3, <1>4

\* The loop keeps its invariant, and has ended after one iteration per entry.
LEMMA SerialiseInv ==
  ASSUME NEW q, NEW f, QueueGood(q), FifoGood(q, f)
  PROVE  /\ Serialise(q, f) \in LoopInv(q, f)
         /\ UsedUp(q, Serialise(q, f))
<1> DEFINE x == LoopStart(q, f)
           r == Iterated(Iterate, x)
           T == {m \in Nat : m <= Len(q.list) => r[m].budget = 0 \/ r[m].it = m + 1}
<1>1. x \in LoopInv(q, f) /\ x \in LoopState
  BY LoopStartInv DEF LoopInv
<1>2. LoopInv(q, f) \in SUBSET LoopState
  BY DEF LoopInv
<1>3. \A s \in LoopInv(q, f) : Iterate[s] \in LoopInv(q, f)
  BY IterateInv
<1>4. x.it = 1
  BY DEF LoopStart
<1> HIDE DEF x
<1>5. \A m \in Nat : r[m] \in LoopInv(q, f)
  BY <1>1, <1>2, <1>3, IterateType, IterationInvariant
<1>6. r[0] = x /\ \A m \in Nat : r[m + 1] = Iterate[r[m]]
  <2>1. x \in LoopState
    BY <1>1
  <2>2. Iterates(r, LoopState, Iterate, x)
    BY <2>1, IterateType, IteratedRecursion, Zenon
  <2> QED BY <2>2 DEF Iterates
<1>7. Len(q.list) \in Nat
  BY DEF QueueGood, Queue
<1>8. Serialise(q, f) = r[Len(q.list)]
  BY DEF Serialise, x
<1> HIDE DEF r
<1>9. 0 \in T
  BY <1>4, <1>6
<1>10. ASSUME NEW m \in Nat, m \in T PROVE m + 1 \in T
  <2>1. SUFFICES ASSUME m + 1 <= Len(q.list)
                 PROVE  r[m + 1].budget = 0 \/ r[m + 1].it = (m + 1) + 1
    OBVIOUS
  <2>2. r[m] \in LoopState /\ r[m + 1] = Iterate[r[m]]
    BY <1>2, <1>5, <1>6
  <2>3. Len(r[m].list) = Len(q.list)
    BY <1>5 DEF LoopInv, SameEntries
  <2>4. CASE r[m].budget = 0
    BY <2>2, <2>4, IterateValue
  <2>5. CASE r[m].budget # 0
    <3>1. r[m].it = m + 1 /\ ~(r[m].it > Len(r[m].list))
      BY <1>7, <1>10, <2>1, <2>3, <2>5
    <3>2. Break(r[m]).budget = 0
      BY <2>2 DEF Break, LoopState
    <3>3. Transfer(r[m]).it = (m + 1) + 1
      BY <2>2, <2>5, <3>1, TransferEffect
    <3> QED BY <2>2, <2>5, <3>1, <3>2, <3>3, IterateValue
  <2> QED BY <2>4, <2>5
<1> HIDE DEF T
<1>11. \A m \in Nat : m \in T
  BY <1>9, <1>10, SetInduction
<1> DEFINE s == Serialise(q, f)
<1>12. s \in LoopInv(q, f)
  BY <1>5, <1>7, <1>8
<1>13. s.budget = 0 \/ s.it = Len(q.list) + 1
  BY <1>7, <1>8, <1>11 DEF T
<1> HIDE DEF s
<1>14. UsedUp(q, s)
  <2>1. CASE s.budget = 0
    BY <1>12, <2>1 DEF LoopInv
  <2>2. CASE s.budget # 0
    <3>1. s.budget \in Nat /\ Sending(q, s)
      BY <1>12 DEF LoopInv, LoopState
    <3>2. \A i \in 1 .. Len(q.list) : s.list[i].ui = 0
      BY <1>7, <1>13, <2>2, <3>1 DEF Sending
    <3> QED BY <3>2 DEF UsedUp
  <2> QED BY <2>1, <2>2
<1> QED BY <1>12, <1>14 DEF s

-----------------------------------------------------------------------------
(* What the operations do to a good queue and a good buffer. *)

\* A field-by-field view of the two records.
LEMMA QueueType ==
  ASSUME NEW q \in Queue
  PROVE  q.list \in Seq(Entry) /\ q.occ \in Nat /\ q.notified \in BOOLEAN
BY DEF Queue

LEMMA FifoType ==
  ASSUME NEW f \in Fifo
  PROVE  f.buf \in Seq(Packets) /\ f.occ \in Nat /\ f.notified \in BOOLEAN
BY DEF Fifo

\* push_back appends a whole fresh entry.
LEMMA PushBackGood ==
  ASSUME NEW q, NEW f, QueueGood(q), FifoGood(q, f), NEW p \in Packets
  PROVE  QueueGood(PushBack(q, p)) /\ FifoGood(PushBack(q, p), f)
<1> DEFINE e == [pkt |-> p, ui |-> UI(p), fresh |-> TRUE]
           list == Append(q.list, e)
<1>1. /\ q.list \in Seq(Entry) /\ q.occ \in Nat /\ q.notified \in BOOLEAN
      /\ Bounded(q.list) /\ InOrder(q.list) /\ FreshWhole(q.list) /\ FreshLast(q.list)
      /\ q.occ = Total(Left(q.list))
  BY QueueType DEF QueueGood
<1>2. UI(p) \in Nat
  BY UICarried
<1>3. e \in Entry /\ e.pkt = p /\ e.ui = UI(p) /\ e.fresh = TRUE
  BY <1>2 DEF Entry
<1>4. SentOf(e) = 0
  BY <1>2, <1>3, UICarried DEF SentOf
<1>5. /\ PushBack(q, p).list = list
      /\ PushBack(q, p).occ = q.occ + UI(p)
      /\ PushBack(q, p) = [list |-> list, occ |-> q.occ + UI(p),
                           notified |-> q.notified \/ q.occ = 0]
  BY DEF PushBack
<1> HIDE DEF e
<1>6. /\ list \in Seq(Entry) /\ Len(list) = Len(q.list) + 1
      /\ list[Len(q.list) + 1] = e
      /\ \A i \in 1 .. Len(q.list) : list[i] = q.list[i]
  BY <1>1, <1>3, AppendProperties
<1> HIDE DEF list
<1>7. Len(q.list) \in Nat
  BY <1>1
<1>8. \A i \in 1 .. Len(list) : i \in 1 .. Len(q.list) \/ i = Len(q.list) + 1
  BY <1>6, <1>7
<1>9. Bounded(list)
  BY <1>1, <1>2, <1>3, <1>6, <1>8 DEF Bounded
<1>10. InOrder(list)
  <2>1. ASSUME NEW i \in 1 .. Len(list), NEW j \in 1 .. Len(list), i < j,
               SentOf(list[j]) > 0
        PROVE  list[i].ui = 0
    <3>1. j # Len(q.list) + 1
      BY <1>4, <1>6, <2>1
    <3>2. i \in 1 .. Len(q.list) /\ j \in 1 .. Len(q.list)
      BY <1>6, <1>7, <1>8, <2>1, <3>1
    <3> QED BY <1>1, <1>6, <2>1, <3>2 DEF InOrder
  <2> QED BY <1>6, <2>1 DEF InOrder
<1>11. FreshWhole(list)
  BY <1>1, <1>3, <1>6, <1>8 DEF FreshWhole
<1>12. FreshLast(list)
  <2>1. ASSUME NEW i \in 1 .. Len(list), NEW j \in 1 .. Len(list), i < j, list[i].fresh
        PROVE  list[j].fresh
    <3>1. CASE j = Len(q.list) + 1
      BY <1>3, <1>6, <3>1
    <3>2. CASE j # Len(q.list) + 1
      <4>1. i \in 1 .. Len(q.list) /\ j \in 1 .. Len(q.list)
        BY <1>6, <1>7, <1>8, <2>1, <3>2
      <4> QED BY <1>1, <1>6, <2>1, <4>1 DEF FreshLast
    <3> QED BY <3>1, <3>2
  <2> QED BY <1>6, <2>1 DEF FreshLast
<1>13. Left(q.list) \in Seq(Nat) /\ Sent(q.list) \in Seq(Nat)
  BY <1>1, LeftType, SentType
<1>14. Total(Left(list)) = Total(Left(q.list)) + UI(p)
  <2> DEFINE target == Append(Left(q.list), UI(p))
  <2>1. /\ target \in Seq(Nat) /\ Len(target) = Len(Left(q.list)) + 1
        /\ target[Len(Left(q.list)) + 1] = UI(p)
        /\ \A i \in 1 .. Len(Left(q.list)) : target[i] = Left(q.list)[i]
    BY <1>2, <1>13, AppendProperties
  <2>2. Left(list) \in Seq(Nat) /\ Len(Left(list)) = Len(list) /\ Len(Left(q.list)) = Len(q.list)
    BY <1>1, <1>6, LeftType
  <2> HIDE DEF target
  <2>3. ASSUME NEW i \in 1 .. Len(list) PROVE Left(list)[i] = target[i]
    <3>1. Left(list)[i] = list[i].ui
      BY <1>6 DEF Left
    <3>2. CASE i = Len(q.list) + 1
      BY <1>3, <1>6, <2>1, <2>2, <3>1, <3>2
    <3>3. CASE i \in 1 .. Len(q.list)
      <4>1. Left(q.list)[i] = q.list[i].ui
        BY <1>1, <3>3 DEF Left
      <4> QED BY <1>6, <2>1, <2>2, <3>1, <3>3, <4>1
    <3> QED BY <1>8, <3>2, <3>3
  <2>4. Left(list) = target
    BY <1>6, <2>1, <2>2, <2>3, SeqEqual
  <2>5. Total(target) = Total(Left(q.list)) + UI(p)
    BY <1>2, <1>13, TotalAppend DEF target
  <2> QED BY <2>4, <2>5
<1>15. Total(Sent(list)) = Total(Sent(q.list))
  <2> DEFINE target == Append(Sent(q.list), 0)
  <2>1. /\ target \in Seq(Nat) /\ Len(target) = Len(Sent(q.list)) + 1
        /\ target[Len(Sent(q.list)) + 1] = 0
        /\ \A i \in 1 .. Len(Sent(q.list)) : target[i] = Sent(q.list)[i]
    <3>1. 0 \in Nat
      OBVIOUS
    <3> QED BY <1>13, <3>1, AppendProperties
  <2>2. Sent(list) \in Seq(Nat) /\ Len(Sent(list)) = Len(list) /\ Len(Sent(q.list)) = Len(q.list)
    BY <1>1, <1>6, <1>9, SentType
  <2> HIDE DEF target
  <2>3. ASSUME NEW i \in 1 .. Len(list) PROVE Sent(list)[i] = target[i]
    <3>1. Sent(list)[i] = SentOf(list[i])
      BY <1>6 DEF Sent
    <3>2. CASE i = Len(q.list) + 1
      BY <1>4, <1>6, <2>1, <2>2, <3>1, <3>2
    <3>3. CASE i \in 1 .. Len(q.list)
      <4>1. Sent(q.list)[i] = SentOf(q.list[i])
        BY <1>1, <3>3 DEF Sent
      <4> QED BY <1>6, <2>1, <2>2, <3>1, <3>3, <4>1
    <3> QED BY <1>8, <3>2, <3>3
  <2>4. Sent(list) = target
    BY <1>6, <2>1, <2>2, <2>3, SeqEqual
  <2>5. Total(target) = Total(Sent(q.list)) + 0 /\ Total(Sent(q.list)) \in Nat
    BY <1>13, TotalAppend, TotalType DEF target
  <2> QED BY <2>4, <2>5
<1>16. PushBack(q, p) \in Queue
  BY <1>1, <1>2, <1>5, <1>6 DEF Queue
<1>17. QueueGood(PushBack(q, p))
  BY <1>1, <1>5, <1>9, <1>10, <1>11, <1>12, <1>14, <1>16 DEF QueueGood
<1>18. FifoGood(PushBack(q, p), f)
  BY <1>5, <1>15 DEF FifoGood
<1> QED BY <1>17, <1>18

\* A new cycle only clears the time stamps.
LEMMA NewCycleGood ==
  ASSUME NEW q, NEW f, QueueGood(q), FifoGood(q, f)
  PROVE  /\ QueueGood(NewCycle(q)) /\ FifoGood(NewCycle(q), f)
         /\ Len(NewCycle(q).list) = Len(q.list)
         /\ \A i \in 1 .. Len(q.list) : NewCycle(q).list[i].ui = q.list[i].ui
         /\ NewCycle(q).occ = q.occ /\ NewCycle(q).notified = q.notified
<1> DEFINE list == [i \in DOMAIN q.list |-> Aged(q.list[i])]
           n == NewCycle(q)
<1>1. /\ q.list \in Seq(Entry) /\ q.occ \in Nat /\ q.notified \in BOOLEAN
      /\ Bounded(q.list) /\ InOrder(q.list) /\ q.occ = Total(Left(q.list))
      /\ q \in Queue
  BY QueueType DEF QueueGood
<1>2. /\ n.list = list /\ n.occ = q.occ /\ n.notified = q.notified
      /\ n = [list |-> list, occ |-> q.occ, notified |-> q.notified]
  BY <1>1 DEF NewCycle, Queue
<1>3. DOMAIN q.list = 1 .. Len(q.list) /\ Len(q.list) \in Nat
  BY <1>1
<1>4. \A i \in 1 .. Len(q.list) : Aged(q.list[i]) \in Entry
  <2>1. ASSUME NEW e \in Entry PROVE Aged(e) \in Entry
    BY DEF Aged, Entry
  <2> QED BY <1>1, <2>1
<1>5. list \in Seq(Entry) /\ Len(list) = Len(q.list)
  BY <1>3, <1>4
<1>6. \A i \in 1 .. Len(q.list) :
        list[i].pkt = q.list[i].pkt /\ list[i].ui = q.list[i].ui /\ list[i].fresh = FALSE
  BY <1>3 DEF Aged
<1> HIDE DEF list
<1>7. Bounded(list)
  BY <1>1, <1>5, <1>6 DEF Bounded
<1>8. \A i \in 1 .. Len(q.list) : SentOf(list[i]) = SentOf(q.list[i])
  BY <1>6 DEF SentOf
<1>9. InOrder(list)
  BY <1>1, <1>5, <1>6, <1>8 DEF InOrder
<1>10. FreshWhole(list) /\ FreshLast(list)
  BY <1>5, <1>6 DEF FreshWhole, FreshLast
<1>11. Left(list) = Left(q.list)
  <2>1. ASSUME NEW i \in 1 .. Len(q.list) PROVE Left(list)[i] = Left(q.list)[i]
    BY <1>3, <1>5, <1>6 DEF Left
  <2>2. /\ Left(list) \in Seq(Nat) /\ Len(Left(list)) = Len(q.list)
        /\ Left(q.list) \in Seq(Nat) /\ Len(Left(q.list)) = Len(q.list)
    BY <1>1, <1>5, LeftType
  <2> QED BY <2>1, <2>2, SeqEqual
<1>12. Sent(list) = Sent(q.list)
  <2>1. ASSUME NEW i \in 1 .. Len(q.list) PROVE Sent(list)[i] = Sent(q.list)[i]
    BY <1>3, <1>5, <1>8 DEF Sent
  <2>2. /\ Sent(list) \in Seq(Nat) /\ Len(Sent(list)) = Len(q.list)
        /\ Sent(q.list) \in Seq(Nat) /\ Len(Sent(q.list)) = Len(q.list)
    BY <1>1, <1>5, <1>7, SentType
  <2> QED BY <2>1, <2>2, SeqEqual
<1>13. n \in Queue
  BY <1>1, <1>2, <1>5 DEF Queue
<1>14. QueueGood(n)
  BY <1>1, <1>2, <1>7, <1>9, <1>10, <1>11, <1>13 DEF QueueGood
<1>15. FifoGood(n, f)
  BY <1>2, <1>12 DEF FifoGood
<1> QED BY <1>2, <1>5, <1>6, <1>14, <1>15

\* pop_front releases what the front packet had reserved.
LEMMA PopFrontGood ==
  ASSUME NEW q, NEW f, QueueGood(q), FifoGood(q, f), f.buf # <<>>
  PROVE  FifoGood(q, PopFront(f)) /\ PopFront(f).occ <= f.occ
<1> DEFINE buf == Tail(f.buf)
           bits == Bits[Head(f.buf)]
           n == PopFront(f)
<1>1. /\ f.buf \in Seq(Packets) /\ f.occ \in Nat /\ f.notified \in BOOLEAN
      /\ f.occ = Total(Lengths(f.buf)) + Total(Sent(q.list)) /\ f.occ <= FMax
      /\ q.list \in Seq(Entry) /\ Bounded(q.list)
  BY FifoType, QueueType DEF FifoGood, QueueGood
<1>2. /\ n.buf = buf /\ n.occ = f.occ - bits
      /\ n = [buf |-> buf, occ |-> f.occ - bits, notified |-> f.notified /\ Len(f.buf) # 1]
  BY DEF PopFront
<1>3. /\ buf \in Seq(Packets) /\ Len(f.buf) = Len(buf) + 1
      /\ Head(f.buf) = f.buf[1] /\ f.buf[1] \in Packets
      /\ \A i \in 1 .. Len(buf) : buf[i] = f.buf[i + 1]
  BY <1>1, HeadTailProperties
<1>4. Lengths(f.buf) \in Seq(Nat) /\ Len(Lengths(f.buf)) = Len(f.buf)
  BY <1>1, LengthsType
<1>5. bits \in Nat
  BY <1>3, UICarried
<1>6. Lengths(f.buf) # <<>> /\ Head(Lengths(f.buf)) = bits
  <2>1. Len(Lengths(f.buf)) # 0
    BY <1>1, <1>4
  <2>2. Lengths(f.buf)[1] = Bits[f.buf[1]]
    BY <1>1 DEF Lengths
  <2> QED BY <1>3, <1>4, <2>1, <2>2
<1> HIDE DEF buf
<1>7. Tail(Lengths(f.buf)) = Lengths(buf)
  <2>1. /\ Tail(Lengths(f.buf)) \in Seq(Nat) /\ Len(Lengths(f.buf)) = Len(Tail(Lengths(f.buf))) + 1
        /\ \A i \in 1 .. Len(Tail(Lengths(f.buf))) : Tail(Lengths(f.buf))[i] = Lengths(f.buf)[i + 1]
    BY <1>4, <1>6, HeadTailProperties
  <2>2. Lengths(buf) \in Seq(Nat) /\ Len(Lengths(buf)) = Len(buf)
    BY <1>3, LengthsType
  <2>3. Len(buf) \in Nat /\ Len(Tail(Lengths(f.buf))) = Len(buf)
    BY <1>3, <1>4, <2>1
  <2>4. ASSUME NEW i \in 1 .. Len(buf) PROVE Tail(Lengths(f.buf))[i] = Lengths(buf)[i]
    <3>1. Lengths(buf)[i] = Bits[buf[i]] /\ buf[i] = f.buf[i + 1]
      BY <1>3 DEF Lengths
    <3>2. Lengths(f.buf)[i + 1] = Bits[f.buf[i + 1]]
      BY <1>1, <1>3, <2>3 DEF Lengths
    <3> QED BY <2>1, <2>3, <3>1, <3>2
  <2> QED BY <2>1, <2>2, <2>3, <2>4, SeqEqual
<1>8. Total(Lengths(f.buf)) = bits + Total(Lengths(buf))
  BY <1>4, <1>6, <1>7, TotalTail
<1>9. Total(Lengths(buf)) \in Nat /\ Total(Sent(q.list)) \in Nat /\ FMax \in Nat
  <2>1. Lengths(buf) \in Seq(Nat) /\ Sent(q.list) \in Seq(Nat)
    BY <1>1, <1>3, LengthsType, SentType
  <2> QED BY <2>1, TotalType, LinkAssumption
<1>10. n.occ = Total(Lengths(buf)) + Total(Sent(q.list))
  BY <1>1, <1>2, <1>5, <1>8, <1>9
<1>11. n.occ \in Nat /\ n.occ <= f.occ /\ n.occ <= FMax
  BY <1>1, <1>2, <1>5, <1>9, <1>10
<1> HIDE DEF bits
<1>12. n \in Fifo
  BY <1>1, <1>2, <1>3, <1>11 DEF Fifo
<1> QED BY <1>2, <1>10, <1>11, <1>12 DEF FifoGood

\* Dropping the front entry of a list drops the front of the two sums.
LEMMA TailSums ==
  ASSUME NEW list \in Seq(Entry), Bounded(list), list # <<>>
  PROVE  /\ Tail(list) \in Seq(Entry) /\ Len(list) = Len(Tail(list)) + 1
         /\ Head(list) = list[1] /\ Head(list) \in Entry
         /\ \A i \in 1 .. Len(Tail(list)) : Tail(list)[i] = list[i + 1]
         /\ Bounded(Tail(list))
         /\ Total(Left(list)) = Head(list).ui + Total(Left(Tail(list)))
         /\ Total(Sent(list)) = SentOf(Head(list)) + Total(Sent(Tail(list)))
<1> DEFINE rest == Tail(list)
<1>1. /\ rest \in Seq(Entry) /\ Len(list) = Len(rest) + 1
      /\ Head(list) = list[1] /\ list[1] \in Entry
      /\ \A i \in 1 .. Len(rest) : rest[i] = list[i + 1]
  BY HeadTailProperties
<1>2. Left(list) \in Seq(Nat) /\ Len(Left(list)) = Len(list) /\ Left(list)[1] = list[1].ui
  <2>1. Left(list) \in Seq(Nat) /\ Len(Left(list)) = Len(list)
    BY LeftType
  <2>2. 1 \in DOMAIN list
    BY <1>1
  <2>3. Left(list)[1] = list[1].ui
    BY <2>2 DEF Left
  <2> QED BY <2>1, <2>3
<1>3. Sent(list) \in Seq(Nat) /\ Len(Sent(list)) = Len(list) /\ Sent(list)[1] = SentOf(list[1])
  <2>1. Sent(list) \in Seq(Nat) /\ Len(Sent(list)) = Len(list)
    BY SentType
  <2>2. 1 \in DOMAIN list
    BY <1>1
  <2>3. Sent(list)[1] = SentOf(list[1])
    BY <2>2 DEF Sent
  <2> QED BY <2>1, <2>3
<1>4. Left(list) # <<>> /\ Sent(list) # <<>>
  BY <1>1, <1>2, <1>3
<1> HIDE DEF rest
<1>5. Len(rest) \in Nat /\ \A i \in 1 .. Len(rest) : i + 1 \in 1 .. Len(list)
  BY <1>1
<1>6. Bounded(rest)
  BY <1>1, <1>5 DEF Bounded
<1>7. Tail(Left(list)) = Left(rest)
  <2>1. /\ Tail(Left(list)) \in Seq(Nat) /\ Len(Left(list)) = Len(Tail(Left(list))) + 1
        /\ \A i \in 1 .. Len(Tail(Left(list))) : Tail(Left(list))[i] = Left(list)[i + 1]
    BY <1>2, <1>4, HeadTailProperties
  <2>2. Left(rest) \in Seq(Nat) /\ Len(Left(rest)) = Len(rest)
    BY <1>1, LeftType
  <2>3. Len(Tail(Left(list))) \in Nat
    BY <2>1
  <2>4. Len(Tail(Left(list))) = Len(rest)
    BY <1>1, <1>2, <1>5, <2>1, <2>3
  <2>5. ASSUME NEW i \in 1 .. Len(rest) PROVE Tail(Left(list))[i] = Left(rest)[i]
    <3>1. Left(rest)[i] = rest[i].ui /\ Left(list)[i + 1] = list[i + 1].ui
      BY <1>1, <1>5 DEF Left
    <3> QED BY <1>1, <2>1, <2>4, <3>1
  <2> QED BY <2>1, <2>2, <2>4, <2>5, SeqEqual
<1>8. Tail(Sent(list)) = Sent(rest)
  <2>1. /\ Tail(Sent(list)) \in Seq(Nat) /\ Len(Sent(list)) = Len(Tail(Sent(list))) + 1
        /\ \A i \in 1 .. Len(Tail(Sent(list))) : Tail(Sent(list))[i] = Sent(list)[i + 1]
    BY <1>3, <1>4, HeadTailProperties
  <2>2. Sent(rest) \in Seq(Nat) /\ Len(Sent(rest)) = Len(rest)
    BY <1>1, <1>6, SentType
  <2>3. Len(Tail(Sent(list))) \in Nat
    BY <2>1
  <2>4. Len(Tail(Sent(list))) = Len(rest)
    BY <1>1, <1>3, <1>5, <2>1, <2>3
  <2>5. ASSUME NEW i \in 1 .. Len(rest) PROVE Tail(Sent(list))[i] = Sent(rest)[i]
    <3>1. Sent(rest)[i] = SentOf(rest[i]) /\ Sent(list)[i + 1] = SentOf(list[i + 1])
      BY <1>1, <1>5 DEF Sent
    <3> QED BY <1>1, <2>1, <2>4, <3>1
  <2> QED BY <2>1, <2>2, <2>4, <2>5, SeqEqual
<1>9. Head(Left(list)) = list[1].ui /\ Head(Sent(list)) = SentOf(list[1])
  BY <1>2, <1>3, <1>4, HeadTailProperties
<1>10. /\ Total(Left(list)) = Head(Left(list)) + Total(Tail(Left(list)))
       /\ Total(Sent(list)) = Head(Sent(list)) + Total(Tail(Sent(list)))
  BY <1>2, <1>3, <1>4, TotalTail
<1> QED BY <1>1, <1>6, <1>7, <1>8, <1>9, <1>10 DEF rest

\* Appending a packet to the buffer adds its length.
LEMMA AppendLengths ==
  ASSUME NEW buf \in Seq(Packets), NEW p \in Packets
  PROVE  /\ Append(buf, p) \in Seq(Packets)
         /\ Total(Lengths(Append(buf, p))) = Total(Lengths(buf)) + Bits[p]
<1> DEFINE new == Append(buf, p)
           target == Append(Lengths(buf), Bits[p])
<1>1. /\ new \in Seq(Packets) /\ Len(new) = Len(buf) + 1 /\ new[Len(buf) + 1] = p
      /\ \A i \in 1 .. Len(buf) : new[i] = buf[i]
  BY AppendProperties
<1>2. Lengths(buf) \in Seq(Nat) /\ Len(Lengths(buf)) = Len(buf) /\ Bits[p] \in Nat
  BY LengthsType, UICarried
<1>3. /\ target \in Seq(Nat) /\ Len(target) = Len(Lengths(buf)) + 1
      /\ target[Len(Lengths(buf)) + 1] = Bits[p]
      /\ \A i \in 1 .. Len(Lengths(buf)) : target[i] = Lengths(buf)[i]
  BY <1>2, AppendProperties
<1> HIDE DEF new, target
<1>4. Lengths(new) \in Seq(Nat) /\ Len(Lengths(new)) = Len(new) /\ Len(buf) \in Nat
  BY <1>1, LengthsType
<1>5. ASSUME NEW i \in 1 .. Len(new) PROVE Lengths(new)[i] = target[i]
  <2>1. Lengths(new)[i] = Bits[new[i]]
    BY <1>1 DEF Lengths
  <2>2. CASE i = Len(buf) + 1
    BY <1>1, <1>2, <1>3, <2>1, <2>2
  <2>3. CASE i # Len(buf) + 1
    <3>1. i \in 1 .. Len(buf)
      BY <1>1, <1>4, <2>3
    <3>2. Lengths(buf)[i] = Bits[buf[i]]
      BY <3>1 DEF Lengths
    <3> QED BY <1>1, <1>2, <1>3, <2>1, <3>1, <3>2
  <2> QED BY <2>2, <2>3
<1>6. Lengths(new) = target
  BY <1>1, <1>2, <1>3, <1>4, <1>5, SeqEqual
<1>7. Total(target) = Total(Lengths(buf)) + Bits[p]
  BY <1>2, TotalAppend DEF target
<1> QED BY <1>1, <1>6, <1>7 DEF new

\* Delivery moves a complete front entry to the buffer; the notifications it
\* leaves are arbitrary here.
LEMMA DeliverGood ==
  ASSUME NEW q, NEW f, QueueGood(q), FifoGood(q, f), q.list # <<>>,
         Head(q.list).ui = 0, NEW v \in BOOLEAN, NEW w \in BOOLEAN
  PROVE  LET r == [list |-> Tail(q.list), occ |-> q.occ, notified |-> v]
             b == [buf |-> Append(f.buf, Head(q.list).pkt), occ |-> f.occ, notified |-> w]
         IN  QueueGood(r) /\ FifoGood(r, b)
<1> DEFINE rest == Tail(q.list)
           e == Head(q.list)
           r == [list |-> rest, occ |-> q.occ, notified |-> v]
           b == [buf |-> Append(f.buf, e.pkt), occ |-> f.occ, notified |-> w]
<1>1. /\ q.list \in Seq(Entry) /\ q.occ \in Nat
      /\ Bounded(q.list) /\ InOrder(q.list) /\ FreshWhole(q.list) /\ FreshLast(q.list)
      /\ q.occ = Total(Left(q.list))
      /\ f.buf \in Seq(Packets) /\ f.occ \in Nat /\ f.occ <= FMax
      /\ f.occ = Total(Lengths(f.buf)) + Total(Sent(q.list))
  BY FifoType, QueueType DEF FifoGood, QueueGood
<1>2. /\ rest \in Seq(Entry) /\ Len(q.list) = Len(rest) + 1 /\ e \in Entry
      /\ \A i \in 1 .. Len(rest) : rest[i] = q.list[i + 1]
      /\ Bounded(rest)
      /\ Total(Left(q.list)) = e.ui + Total(Left(rest))
      /\ Total(Sent(q.list)) = SentOf(e) + Total(Sent(rest))
  BY <1>1, TailSums
<1>3. e.ui = 0 /\ e.pkt \in Packets
  BY <1>2, EntryType
<1> HIDE DEF rest, e
<1>4. SentOf(e) = Bits[e.pkt] /\ Bits[e.pkt] \in Nat
  BY <1>3, CarriedZero, UICarried DEF SentOf
<1>5. Len(rest) \in Nat /\ \A i \in 1 .. Len(rest) : i + 1 \in 1 .. Len(q.list)
  BY <1>2
<1>6. InOrder(rest)
  <2>1. ASSUME NEW i \in 1 .. Len(rest), NEW j \in 1 .. Len(rest), i < j,
               SentOf(rest[j]) > 0
        PROVE  rest[i].ui = 0
    <3>1. i + 1 \in 1 .. Len(q.list) /\ j + 1 \in 1 .. Len(q.list) /\ i + 1 < j + 1
      BY <1>5, <2>1
    <3>2. rest[i] = q.list[i + 1] /\ rest[j] = q.list[j + 1]
      BY <1>2
    <3> QED BY <1>1, <2>1, <3>1, <3>2 DEF InOrder
  <2> QED BY <1>2, <2>1 DEF InOrder
<1>7. FreshWhole(rest)
  BY <1>1, <1>2, <1>5 DEF FreshWhole
<1>8. FreshLast(rest)
  <2>1. ASSUME NEW i \in 1 .. Len(rest), NEW j \in 1 .. Len(rest), i < j, rest[i].fresh
        PROVE  rest[j].fresh
    <3>1. i + 1 \in 1 .. Len(q.list) /\ j + 1 \in 1 .. Len(q.list) /\ i + 1 < j + 1
      BY <1>5, <2>1
    <3>2. rest[i] = q.list[i + 1] /\ rest[j] = q.list[j + 1]
      BY <1>2
    <3> QED BY <1>1, <2>1, <3>1, <3>2 DEF FreshLast
  <2> QED BY <1>2, <2>1 DEF FreshLast
<1>9. /\ Total(Left(rest)) \in Nat /\ Total(Sent(rest)) \in Nat
      /\ Total(Lengths(f.buf)) \in Nat
  <2>1. Left(rest) \in Seq(Nat) /\ Sent(rest) \in Seq(Nat) /\ Lengths(f.buf) \in Seq(Nat)
    BY <1>1, <1>2, LeftType, SentType, LengthsType
  <2> QED BY <2>1, TotalType
<1>10. QueueGood(r)
  <2>1. r.list = rest /\ r.occ = q.occ /\ r \in Queue
    BY <1>1, <1>2 DEF Queue
  <2>2. r.occ = Total(Left(rest))
    BY <1>1, <1>2, <1>3, <1>9, <2>1
  <2> HIDE DEF r
  <2> QED BY <1>2, <1>6, <1>7, <1>8, <2>1, <2>2 DEF QueueGood
<1>11. FifoGood(r, b)
  <2>1. /\ Append(f.buf, e.pkt) \in Seq(Packets)
        /\ Total(Lengths(Append(f.buf, e.pkt))) = Total(Lengths(f.buf)) + Bits[e.pkt]
    BY <1>1, <1>3, AppendLengths
  <2>2. b \in Fifo /\ b.buf = Append(f.buf, e.pkt) /\ b.occ = f.occ /\ r.list = rest
    BY <1>1, <2>1 DEF Fifo
  <2> HIDE DEF b, r
  <2>3. b.occ = Total(Lengths(b.buf)) + Total(Sent(r.list))
    BY <1>1, <1>2, <1>4, <1>9, <2>1, <2>2
  <2> QED BY <1>1, <2>2, <2>3 DEF FifoGood
<1> QED BY <1>10, <1>11 DEF rest, e

-----------------------------------------------------------------------------
(* hmc_link_queue::clock as a whole. *)

\* The queue and the buffer between the loop and the delivery.
SerialisedQueue(q, s) == [list |-> s.list, occ |-> s.occ, notified |-> q.notified]

SerialisedFifo(f, s) == [buf |-> f.buf, occ |-> s.fifo, notified |-> f.notified]

LEMMA SerialisedGood ==
  ASSUME NEW q, NEW f, QueueGood(q), FifoGood(q, f), NEW s \in LoopInv(q, f)
  PROVE  /\ QueueGood(SerialisedQueue(q, s))
         /\ FifoGood(SerialisedQueue(q, s), SerialisedFifo(f, s))
<1>1. /\ q.list \in Seq(Entry) /\ q.notified \in BOOLEAN
      /\ FreshWhole(q.list) /\ FreshLast(q.list)
      /\ f.buf \in Seq(Packets) /\ f.occ \in Nat /\ f.notified \in BOOLEAN
  BY QueueType, FifoType DEF QueueGood, FifoGood
<1>2. /\ s.list \in Seq(Entry) /\ s.occ \in Int /\ s.fifo \in Int
      /\ SameEntries(q.list, s.list) /\ Bounded(s.list) /\ InOrder(s.list)
      /\ s.occ = Total(Left(s.list))
      /\ s.fifo = Total(Lengths(f.buf)) + Total(Sent(s.list)) /\ s.fifo <= FMax
  BY DEF LoopInv, LoopState, Accounted
<1>3. Left(s.list) \in Seq(Nat) /\ Sent(s.list) \in Seq(Nat) /\ Lengths(f.buf) \in Seq(Nat)
  BY <1>1, <1>2, LeftType, SentType, LengthsType
<1>4. s.occ \in Nat /\ s.fifo \in Nat
  <2>1. Total(Left(s.list)) \in Nat /\ Total(Sent(s.list)) \in Nat /\ Total(Lengths(f.buf)) \in Nat
    BY <1>3, TotalType
  <2> QED BY <1>2, <2>1
<1>5. /\ Len(s.list) = Len(q.list)
      /\ \A i \in 1 .. Len(q.list) :
           /\ s.list[i].pkt = q.list[i].pkt
           /\ s.list[i].fresh = q.list[i].fresh
           /\ q.list[i].fresh => s.list[i].ui = q.list[i].ui
  BY <1>2 DEF SameEntries
<1>6. FreshWhole(s.list)
  BY <1>1, <1>2, <1>5 DEF FreshWhole
<1>7. FreshLast(s.list)
  BY <1>1, <1>2, <1>5 DEF FreshLast
<1> DEFINE r == SerialisedQueue(q, s)
           b == SerialisedFifo(f, s)
<1>8. r \in Queue /\ r.list = s.list /\ r.occ = s.occ
  BY <1>1, <1>2, <1>4 DEF SerialisedQueue, Queue
<1>9. b \in Fifo /\ b.buf = f.buf /\ b.occ = s.fifo
  BY <1>1, <1>4 DEF SerialisedFifo, Fifo
<1> HIDE DEF r, b
<1>10. QueueGood(r)
  BY <1>2, <1>6, <1>7, <1>8 DEF QueueGood
<1>11. FifoGood(r, b)
  BY <1>2, <1>8, <1>9 DEF FifoGood
<1> QED BY <1>10, <1>11 DEF r, b

\* The two cases of the end of clock, field by field.
LEMMA NoDelivery ==
  ASSUME NEW q \in Queue, NEW f \in Fifo, NEW s, ~Arrives(s)
  PROVE  /\ QueueAfter(q, s) = SerialisedQueue(q, s)
         /\ FifoAfter(f, s) = SerialisedFifo(f, s)
BY DEF QueueAfter, FifoAfter, SerialisedQueue, SerialisedFifo, Queue, Fifo

LEMMA Delivery ==
  ASSUME NEW q \in Queue, NEW f \in Fifo, NEW s, Arrives(s)
  PROVE  /\ QueueAfter(q, s) =
              [list |-> Tail(s.list), occ |-> s.occ,
               notified |-> q.notified /\ Len(s.list) # 1]
         /\ FifoAfter(f, s) =
              [buf |-> Append(f.buf, Head(s.list).pkt), occ |-> s.fifo,
               notified |-> f.notified \/ f.buf = <<>>]
BY DEF QueueAfter, FifoAfter, PushBackSetAvail, Queue, Fifo

LEMMA ClockGood ==
  ASSUME NEW q, NEW f, QueueGood(q), FifoGood(q, f), q.list # <<>>
  PROVE  LET s == Serialise(q, f) IN
           /\ QueueGood(QueueAfter(q, s))
           /\ FifoGood(QueueAfter(q, s), FifoAfter(f, s))
<1> DEFINE s == Serialise(q, f)
           q1 == SerialisedQueue(q, s)
           f1 == SerialisedFifo(f, s)
<1>1. s \in LoopInv(q, f)
  BY SerialiseInv
<1>2. q \in Queue /\ f \in Fifo /\ q.notified \in BOOLEAN /\ f.notified \in BOOLEAN
  BY QueueType, FifoType DEF QueueGood, FifoGood
<1> HIDE DEF s
<1>3. QueueGood(q1) /\ FifoGood(q1, f1)
  BY <1>1, SerialisedGood
<1>4. /\ q1.list = s.list /\ q1.occ = s.occ
      /\ f1.buf = f.buf /\ f1.occ = s.fifo
  BY DEF SerialisedQueue, SerialisedFifo
<1>5. s.list # <<>>
  <2>1. Len(s.list) = Len(q.list) /\ s.list \in Seq(Entry) /\ q.list \in Seq(Entry)
    BY <1>1, <1>2 DEF LoopInv, SameEntries, LoopState, Queue
  <2> QED BY <2>1
<1> HIDE DEF q1, f1
<1> DEFINE Good == QueueGood(QueueAfter(q, s)) /\ FifoGood(QueueAfter(q, s), FifoAfter(f, s))
<1>6. ASSUME Arrives(s) PROVE Good
  <2> DEFINE v == q.notified /\ Len(s.list) # 1
             w == f.notified \/ f.buf = <<>>
  <2>1. Head(q1.list).ui = 0 /\ q1.list # <<>>
    BY <1>4, <1>5, <1>6 DEF Arrives
  <2>2. v \in BOOLEAN /\ w \in BOOLEAN
    BY <1>2
  <2>3. /\ QueueAfter(q, s) = [list |-> Tail(q1.list), occ |-> q1.occ, notified |-> v]
        /\ FifoAfter(f, s) = [buf |-> Append(f1.buf, Head(q1.list).pkt), occ |-> f1.occ,
                              notified |-> w]
    BY <1>2, <1>4, <1>6, Delivery
  <2> HIDE DEF v, w
  <2>4. /\ QueueGood([list |-> Tail(q1.list), occ |-> q1.occ, notified |-> v])
        /\ FifoGood([list |-> Tail(q1.list), occ |-> q1.occ, notified |-> v],
                    [buf |-> Append(f1.buf, Head(q1.list).pkt), occ |-> f1.occ, notified |-> w])
    BY <1>3, <2>1, <2>2, DeliverGood
  <2> QED BY <2>3, <2>4
<1>7. ASSUME ~Arrives(s) PROVE Good
  <2>1. QueueAfter(q, s) = q1 /\ FifoAfter(f, s) = f1
    BY <1>2, <1>7, NoDelivery DEF q1, f1
  <2> QED BY <1>3, <2>1
<1> QED BY <1>6, <1>7 DEF s

-----------------------------------------------------------------------------
(* The inductive invariant: both halves are good, the notifications are     *)
(* exact and the queue is overcommitted by its last packet only.            *)

IInv ==
  /\ QueueGood(rx_q)
  /\ FifoGood(rx_q, rx_fifo_out)
  /\ clocked \in BOOLEAN
  /\ NotifyExact
  /\ OvercommitByLast

LEMMA EmptySums ==
  /\ Total(Left(<<>>)) = 0 /\ Total(Sent(<<>>)) = 0 /\ Total(Lengths(<<>>)) = 0
<1>1. <<>> \in Seq(Entry) /\ <<>> \in Seq(Packets) /\ Len(<<>>) = 0
  OBVIOUS
<1>2. Bounded(<<>>)
  BY DEF Bounded
<1>3. /\ Left(<<>>) \in Seq(Nat) /\ Len(Left(<<>>)) = 0
      /\ Sent(<<>>) \in Seq(Nat) /\ Len(Sent(<<>>)) = 0
      /\ Lengths(<<>>) \in Seq(Nat) /\ Len(Lengths(<<>>)) = 0
  BY <1>1, <1>2, LeftType, SentType, LengthsType
<1>4. Left(<<>>) = <<>> /\ Sent(<<>>) = <<>> /\ Lengths(<<>>) = <<>>
  BY <1>3
<1> QED BY <1>4, TotalEmpty

LEMMA InitIInv == Init => IInv
<1> SUFFICES ASSUME Init PROVE IInv
  OBVIOUS
<1>1. /\ rx_q = [list |-> <<>>, occ |-> 0, notified |-> FALSE]
      /\ rx_fifo_out = [buf |-> <<>>, occ |-> 0, notified |-> FALSE]
      /\ clocked = FALSE
  BY DEF Init, EmptyQueue, EmptyFifo
<1>2. /\ rx_q \in Queue /\ rx_q.list = <<>> /\ rx_q.occ = 0 /\ rx_q.notified = FALSE
      /\ rx_fifo_out \in Fifo /\ rx_fifo_out.buf = <<>> /\ rx_fifo_out.occ = 0
      /\ rx_fifo_out.notified = FALSE
  BY <1>1 DEF Queue, Fifo
<1>3. Total(Left(<<>>)) = 0 /\ Total(Sent(<<>>)) = 0 /\ Total(Lengths(<<>>)) = 0
  BY EmptySums
<1>4. QueueGood(rx_q)
  BY <1>2, <1>3 DEF QueueGood, Bounded, InOrder, FreshWhole, FreshLast
<1>5. FifoGood(rx_q, rx_fifo_out)
  <2>1. FMax \in Nat
    BY LinkAssumption
  <2> QED BY <1>2, <1>3, <2>1 DEF FifoGood
<1> QED BY <1>1, <1>2, <1>4, <1>5 DEF IInv, NotifyExact, OvercommitByLast

\* A field of the invariant at a glance.
LEMMA IInvType ==
  ASSUME IInv
  PROVE  /\ QueueGood(rx_q) /\ FifoGood(rx_q, rx_fifo_out)
         /\ rx_q \in Queue /\ rx_fifo_out \in Fifo
         /\ rx_q.list \in Seq(Entry) /\ rx_q.occ \in Nat /\ rx_q.notified \in BOOLEAN
         /\ rx_fifo_out.buf \in Seq(Packets) /\ rx_fifo_out.occ \in Nat
         /\ rx_fifo_out.notified \in BOOLEAN
         /\ clocked \in BOOLEAN
         /\ rx_q.notified <=> rx_q.list # <<>>
         /\ rx_fifo_out.notified <=> rx_fifo_out.buf # <<>>
BY QueueType, FifoType DEF IInv, NotifyExact, QueueGood, FifoGood

LEMMA PushIInv ==
  ASSUME IInv, NEW p \in Packets, Push(p)
  PROVE  IInv'
<1>1. /\ rx_q' = PushBack(rx_q, p) /\ rx_fifo_out' = rx_fifo_out /\ clocked' = clocked
      /\ rx_q.occ < QMax
  BY DEF Push, HasSpace
<1>2. QueueGood(rx_q') /\ FifoGood(rx_q', rx_fifo_out')
  BY <1>1, IInvType, PushBackGood
<1> DEFINE e == [pkt |-> p, ui |-> UI(p), fresh |-> TRUE]
<1>3. UI(p) \in Nat /\ e \in Entry /\ e.ui = UI(p)
  <2>1. UI(p) \in Nat
    BY UICarried
  <2> QED BY <2>1 DEF Entry
<1>4. /\ rx_q'.list = Append(rx_q.list, e)
      /\ rx_q'.occ = rx_q.occ + UI(p)
      /\ rx_q'.notified = (rx_q.notified \/ rx_q.occ = 0)
  BY <1>1 DEF PushBack
<1> HIDE DEF e
<1>5. /\ rx_q'.list \in Seq(Entry) /\ Len(rx_q'.list) = Len(rx_q.list) + 1
      /\ rx_q'.list[Len(rx_q'.list)] = e /\ rx_q'.list # <<>>
  <2>1. rx_q.list \in Seq(Entry)
    BY IInvType
  <2> QED BY <1>3, <1>4, <2>1, AppendProperties
<1>6. rx_q'.notified
  <2>1. CASE rx_q.list = <<>>
    <3>2. rx_q.occ = 0
      BY <2>1, EmptySums DEF IInv, QueueGood
    <3> QED BY <1>4, <3>2
  <2>2. CASE rx_q.list # <<>>
    BY <1>4, <2>2, IInvType
  <2> QED BY <2>1, <2>2
<1>7. NotifyExact'
  BY <1>1, <1>5, <1>6, IInvType DEF NotifyExact
<1>8. OvercommitByLast'
  <2>1. rx_q'.occ - rx_q'.list[Len(rx_q'.list)].ui = rx_q.occ
    <3>1. rx_q.occ \in Nat
      BY IInvType
    <3> QED BY <1>3, <1>4, <1>5, <3>1
  <2> QED BY <1>1, <2>1 DEF OvercommitByLast
<1> QED BY <1>1, <1>2, <1>7, <1>8, IInvType DEF IInv

LEMMA PopIInv ==
  ASSUME IInv, Pop
  PROVE  IInv'
<1>1. rx_fifo_out' = PopFront(rx_fifo_out) /\ rx_q' = rx_q /\ clocked' = clocked
      /\ rx_fifo_out.buf # <<>>
  BY IInvType DEF Pop
<1>2. FifoGood(rx_q', rx_fifo_out')
  BY <1>1, IInvType, PopFrontGood
<1>3. /\ rx_fifo_out'.buf = Tail(rx_fifo_out.buf)
      /\ rx_fifo_out'.notified = (rx_fifo_out.notified /\ Len(rx_fifo_out.buf) # 1)
  BY <1>1 DEF PopFront
<1>4. rx_fifo_out'.buf \in Seq(Packets) /\ Len(rx_fifo_out.buf) = Len(rx_fifo_out'.buf) + 1
  BY <1>1, <1>3, IInvType, HeadTailProperties
<1>5. rx_fifo_out'.notified <=> rx_fifo_out'.buf # <<>>
  <2>1. Len(rx_fifo_out'.buf) = 0 <=> rx_fifo_out'.buf = <<>>
    BY <1>4
  <2>2. Len(rx_fifo_out'.buf) \in Nat
    BY <1>4
  <2>3. rx_fifo_out.notified = TRUE
    BY <1>1, IInvType
  <2>4. Len(rx_fifo_out.buf) # 1 <=> Len(rx_fifo_out'.buf) # 0
    BY <1>4, <2>2
  <2> QED BY <1>3, <2>1, <2>3, <2>4
<1> QED BY <1>1, <1>2, <1>5 DEF IInv, NotifyExact, OvercommitByLast

LEMMA TickIInv ==
  ASSUME IInv, Tick
  PROVE  IInv'
<1>1. rx_q' = NewCycle(rx_q) /\ rx_fifo_out' = rx_fifo_out /\ clocked' = FALSE
  BY DEF Tick
<1>2. /\ QueueGood(rx_q') /\ FifoGood(rx_q', rx_fifo_out')
      /\ Len(rx_q'.list) = Len(rx_q.list)
      /\ \A i \in 1 .. Len(rx_q.list) : rx_q'.list[i].ui = rx_q.list[i].ui
      /\ rx_q'.occ = rx_q.occ /\ rx_q'.notified = rx_q.notified
  BY <1>1, IInvType, NewCycleGood
<1>3. rx_q.list \in Seq(Entry) /\ rx_q'.list \in Seq(Entry)
  BY <1>2, QueueType DEF IInv, QueueGood
<1>4. rx_q'.list = <<>> <=> rx_q.list = <<>>
  BY <1>2, <1>3
<1>5. NotifyExact'
  BY <1>1, <1>2, <1>4 DEF IInv, NotifyExact
<1>6. OvercommitByLast'
  <2>1. CASE rx_q.list = <<>>
    BY <1>4, <2>1 DEF OvercommitByLast
  <2>2. CASE rx_q.list # <<>>
    <3>1. Len(rx_q.list) \in 1 .. Len(rx_q.list)
      BY <1>3, <2>2
    <3>2. rx_q.occ - rx_q.list[Len(rx_q.list)].ui < QMax
      BY <2>2 DEF IInv, OvercommitByLast
    <3>3. rx_q'.list[Len(rx_q'.list)].ui = rx_q.list[Len(rx_q.list)].ui
      BY <1>2, <3>1
    <3>4. rx_q'.occ - rx_q'.list[Len(rx_q'.list)].ui < QMax
      BY <1>2, <3>2, <3>3
    <3> QED BY <3>4 DEF OvercommitByLast
  <2> QED BY <2>1, <2>2
<1> QED BY <1>1, <1>2, <1>5, <1>6 DEF IInv

LEMMA ClockIInv ==
  ASSUME IInv, Clock
  PROVE  IInv'
<1> DEFINE s == Serialise(rx_q, rx_fifo_out)
<1>1. /\ rx_q' = QueueAfter(rx_q, s) /\ rx_fifo_out' = FifoAfter(rx_fifo_out, s)
      /\ clocked' = TRUE /\ rx_q.list # <<>> /\ rx_q.notified = TRUE
  BY IInvType DEF Clock
<1>2. QueueGood(rx_q') /\ FifoGood(rx_q', rx_fifo_out')
  BY <1>1, IInvType, ClockGood
<1>3. s \in LoopInv(rx_q, rx_fifo_out)
  BY IInvType, SerialiseInv
<1> HIDE DEF s
<1>4. /\ s.list \in Seq(Entry) /\ rx_q.list \in Seq(Entry) /\ Len(s.list) = Len(rx_q.list)
      /\ s.occ \in Int /\ LastEntry(rx_q, s)
  BY <1>3, IInvType DEF LoopInv, LoopState, SameEntries
<1>5. s.list # <<>> /\ Len(rx_q.list) \in 1 .. Len(rx_q.list)
  BY <1>1, <1>4
<1>6. s.occ - s.list[Len(s.list)].ui < QMax
  <2>1. rx_q.occ - rx_q.list[Len(rx_q.list)].ui < QMax
    BY <1>1 DEF IInv, OvercommitByLast
  <2>2. s.occ - s.list[Len(rx_q.list)].ui <= rx_q.occ - rx_q.list[Len(rx_q.list)].ui
    BY <1>4, <1>5 DEF LastEntry
  <2>3. /\ s.list[Len(rx_q.list)].ui \in Nat /\ rx_q.list[Len(rx_q.list)].ui \in Nat
        /\ rx_q.occ \in Nat /\ QMax \in Nat
    BY <1>4, <1>5, EntryType, IInvType, LinkAssumption
  <2> QED BY <1>4, <2>1, <2>2, <2>3
<1>7. CASE ~Arrives(s)
  <2>1. rx_q' = SerialisedQueue(rx_q, s) /\ rx_fifo_out' = SerialisedFifo(rx_fifo_out, s)
    BY <1>1, <1>7, IInvType, NoDelivery
  <2>2. /\ rx_q'.list = s.list /\ rx_q'.occ = s.occ /\ rx_q'.notified = rx_q.notified
        /\ rx_fifo_out'.buf = rx_fifo_out.buf /\ rx_fifo_out'.notified = rx_fifo_out.notified
    BY <2>1 DEF SerialisedQueue, SerialisedFifo
  <2>3. NotifyExact' /\ OvercommitByLast'
    BY <1>1, <1>5, <1>6, <2>2, IInvType DEF NotifyExact, OvercommitByLast
  <2> QED BY <1>1, <1>2, <2>3 DEF IInv
<1>8. CASE Arrives(s)
  <2>1. /\ rx_q'.list = Tail(s.list) /\ rx_q'.occ = s.occ
        /\ rx_q'.notified = (rx_q.notified /\ Len(s.list) # 1)
        /\ rx_fifo_out'.buf = Append(rx_fifo_out.buf, Head(s.list).pkt)
        /\ rx_fifo_out'.notified = (rx_fifo_out.notified \/ rx_fifo_out.buf = <<>>)
    <3>1. /\ rx_q' = [list |-> Tail(s.list), occ |-> s.occ,
                      notified |-> rx_q.notified /\ Len(s.list) # 1]
          /\ rx_fifo_out' = [buf |-> Append(rx_fifo_out.buf, Head(s.list).pkt),
                             occ |-> s.fifo,
                             notified |-> rx_fifo_out.notified \/ rx_fifo_out.buf = <<>>]
      <4>1. rx_q \in Queue /\ rx_fifo_out \in Fifo
        BY IInvType
      <4> QED BY <1>1, <1>8, <4>1, Delivery
    <3> QED BY <3>1
  <2>2. /\ rx_q'.list \in Seq(Entry) /\ Len(s.list) = Len(rx_q'.list) + 1
        /\ \A i \in 1 .. Len(rx_q'.list) : rx_q'.list[i] = s.list[i + 1]
        /\ Head(s.list) \in Entry
    <3>1. Head(s.list) = s.list[1] /\ s.list[1] \in Entry
      BY <1>4, <1>5
    <3> QED BY <1>4, <1>5, <2>1, <3>1, HeadTailProperties
  <2>3. rx_fifo_out'.buf # <<>>
    <3>1. Head(s.list).pkt \in Packets /\ rx_fifo_out.buf \in Seq(Packets)
      BY <2>2, EntryType, IInvType
    <3> QED BY <2>1, <3>1, AppendProperties
  <2>4. rx_fifo_out'.notified
    BY <2>1, IInvType
  <2>5. rx_q'.notified <=> rx_q'.list # <<>>
    <3>1. Len(rx_q'.list) = 0 <=> rx_q'.list = <<>>
      BY <2>2
    <3>2. Len(rx_q'.list) \in Nat
      BY <2>2
    <3>3. Len(s.list) # 1 <=> Len(rx_q'.list) # 0
      BY <2>2, <3>2
    <3> QED BY <1>1, <2>1, <3>1, <3>3
  <2>6. OvercommitByLast'
    <3>1. SUFFICES ASSUME rx_q'.list # <<>>
                   PROVE  rx_q'.occ - rx_q'.list[Len(rx_q'.list)].ui < QMax
      BY <1>1 DEF OvercommitByLast
    <3>2. Len(rx_q'.list) \in 1 .. Len(rx_q'.list)
      BY <2>2, <3>1
    <3>3. rx_q'.list[Len(rx_q'.list)] = s.list[Len(s.list)]
      BY <2>2, <3>2
    <3> QED BY <1>6, <2>1, <3>3
  <2> QED BY <1>1, <1>2, <2>3, <2>4, <2>5, <2>6 DEF IInv, NotifyExact
<1> QED BY <1>7, <1>8

\* Every step of the link keeps the invariant.
LEMMA NextIInv == IInv /\ [Next]_vars => IInv'
<1> SUFFICES ASSUME IInv, [Next]_vars PROVE IInv'
  OBVIOUS
<1>1. ASSUME NEW p \in Packets, Push(p) PROVE IInv'
  BY <1>1, PushIInv
<1>2. CASE Clock
  BY <1>2, ClockIInv
<1>3. CASE Pop
  BY <1>3, PopIInv
<1>4. CASE Tick
  BY <1>4, TickIInv
<1>5. CASE UNCHANGED vars
  BY <1>5 DEF vars, IInv, NotifyExact, OvercommitByLast
<1> QED BY <1>1, <1>2, <1>3, <1>4, <1>5 DEF Next

LEMMA InvariantIInv == Safe => []IInv
BY InitIInv, NextIInv, PTL DEF Safe

-----------------------------------------------------------------------------
(* What the invariant gives. *)

\* No counter of the link ever leaves the naturals, so neither unsigned
\* occupation of the code wraps.
THEOREM LinkType == Safe => []TypeOK
<1>1. IInv => TypeOK
  BY IInvType DEF TypeOK, Queue, Fifo
<1> QED BY <1>1, InvariantIInv, PTL

\* The counter of the queue is what is left to send.
THEOREM LinkQueueAccounting == Safe => []QueueAccounting
<1>1. IInv => QueueAccounting
  BY DEF IInv, QueueGood, QueueAccounting
<1> QED BY <1>1, InvariantIInv, PTL

\* The counter of the buffer is what it holds and what is being transferred.
THEOREM LinkFifoAccounting == Safe => []FifoAccounting
<1>1. IInv => FifoAccounting
  BY DEF IInv, FifoGood, FifoAccounting
<1> QED BY <1>1, InvariantIInv, PTL

\* The buffer never holds more than its size, and only the last packet
\* overcommits the queue.
THEOREM LinkStaysBounded == Safe => []LinkBounded
<1>1. IInv => LinkBounded
  BY DEF IInv, FifoGood, FifoBounded, LinkBounded
<1> QED BY <1>1, InvariantIInv, PTL

\* Both notifications are set exactly when there is something to do.
THEOREM LinkNotifyExact == Safe => []NotifyExact
<1>1. IInv => NotifyExact
  BY DEF IInv
<1> QED BY <1>1, InvariantIInv, PTL

\* The lanes carry one packet at a time, and none in the cycle it was pushed.
THEOREM LinkOneAtATime == Safe => []OneAtATime
<1>1. IInv => OneAtATime
  BY DEF IInv, QueueGood, InOrder, FreshWhole, OneAtATime
<1> QED BY <1>1, InvariantIInv, PTL

-----------------------------------------------------------------------------
(* Steps. *)

\* A clock, in terms of where its loop ended.
LEMMA ClockEffect ==
  ASSUME IInv, Clock
  PROVE  \E s \in LoopInv(rx_q, rx_fifo_out) :
           /\ UsedUp(rx_q, s)
           /\ s.list # <<>>
           /\ rx_q'.occ = s.occ
           /\ rx_fifo_out'.occ = s.fifo
           /\ \/ /\ s.list[1].ui = 0
                 /\ Head(s.list) = s.list[1]
                 /\ rx_q'.list = Tail(s.list)
                 /\ rx_fifo_out'.buf = Append(rx_fifo_out.buf, s.list[1].pkt)
              \/ /\ rx_q'.list = s.list
                 /\ rx_fifo_out'.buf = rx_fifo_out.buf
<1> DEFINE s == Serialise(rx_q, rx_fifo_out)
<1>1. /\ rx_q' = QueueAfter(rx_q, s) /\ rx_fifo_out' = FifoAfter(rx_fifo_out, s)
      /\ rx_q.list # <<>> /\ rx_q \in Queue /\ rx_fifo_out \in Fifo
  BY IInvType DEF Clock
<1>2. s \in LoopInv(rx_q, rx_fifo_out) /\ UsedUp(rx_q, s)
  BY IInvType, SerialiseInv
<1> HIDE DEF s
<1>3. s.list # <<>> /\ Head(s.list) = s.list[1]
  <2>1. s.list \in Seq(Entry) /\ rx_q.list \in Seq(Entry) /\ Len(s.list) = Len(rx_q.list)
    BY <1>2, IInvType DEF LoopInv, LoopState, SameEntries
  <2> QED BY <1>1, <2>1
<1>4. CASE Arrives(s)
  <2>1. s.list[1].ui = 0
    BY <1>3, <1>4 DEF Arrives
  <2>2. /\ rx_q' = [list |-> Tail(s.list), occ |-> s.occ,
                    notified |-> rx_q.notified /\ Len(s.list) # 1]
        /\ rx_fifo_out' = [buf |-> Append(rx_fifo_out.buf, Head(s.list).pkt),
                           occ |-> s.fifo,
                           notified |-> rx_fifo_out.notified \/ rx_fifo_out.buf = <<>>]
    BY <1>1, <1>4, Delivery
  <2>3. /\ rx_q'.occ = s.occ /\ rx_q'.list = Tail(s.list) /\ rx_fifo_out'.occ = s.fifo
        /\ rx_fifo_out'.buf = Append(rx_fifo_out.buf, s.list[1].pkt)
    BY <1>3, <2>2
  <2> QED BY <1>2, <1>3, <2>1, <2>3
<1>5. CASE ~Arrives(s)
  <2>1. rx_q' = SerialisedQueue(rx_q, s) /\ rx_fifo_out' = SerialisedFifo(rx_fifo_out, s)
    BY <1>1, <1>5, NoDelivery
  <2>2. /\ rx_q'.occ = s.occ /\ rx_q'.list = s.list
        /\ rx_fifo_out'.occ = s.fifo /\ rx_fifo_out'.buf = rx_fifo_out.buf
    BY <2>1 DEF SerialisedQueue, SerialisedFifo
  <2> QED BY <1>2, <1>3, <2>2
<1> QED BY <1>4, <1>5

\* A pop shortens the buffer and lowers its counter.
LEMMA PopEffect ==
  ASSUME IInv, Pop
  PROVE  /\ rx_fifo_out.buf # <<>> /\ rx_fifo_out'.buf = Tail(rx_fifo_out.buf)
         /\ Len(rx_fifo_out.buf) = Len(rx_fifo_out'.buf) + 1
         /\ rx_fifo_out'.buf \in Seq(Packets)
         /\ rx_fifo_out'.occ <= rx_fifo_out.occ /\ rx_fifo_out'.occ \in Nat
         /\ rx_q' = rx_q
<1>1. rx_fifo_out' = PopFront(rx_fifo_out) /\ rx_q' = rx_q /\ rx_fifo_out.buf # <<>>
  BY IInvType DEF Pop
<1>2. rx_fifo_out'.buf = Tail(rx_fifo_out.buf)
  BY <1>1 DEF PopFront
<1>3. FifoGood(rx_q, rx_fifo_out') /\ rx_fifo_out'.occ <= rx_fifo_out.occ
  BY <1>1, IInvType, PopFrontGood
<1>4. rx_fifo_out'.occ \in Nat
  BY <1>3, FifoType DEF FifoGood
<1>5. rx_fifo_out.buf \in Seq(Packets)
  BY IInvType
<1> QED BY <1>1, <1>2, <1>3, <1>4, <1>5, HeadTailProperties

\* No cycle transfers more than the rate.
THEOREM LinkRate == Safe => RateRespected
<1>1. ASSUME IInv, [Next]_vars
      PROVE  [rx_fifo_out'.occ <= rx_fifo_out.occ + Carried(Rate)]_vars
  <2>1. rx_fifo_out.occ \in Nat /\ Rate \in Nat /\ Carried(Rate) \in Int /\ Carried(Rate) >= 0
    BY <1>1, IInvType, LinkAssumption, CarriedType
  <2>2. CASE rx_fifo_out' = rx_fifo_out
    BY <2>1, <2>2
  <2>3. CASE Clock
    <3>1. PICK s \in LoopInv(rx_q, rx_fifo_out) : rx_fifo_out'.occ = s.fifo
      BY <1>1, <2>3, ClockEffect
    <3>2. /\ s.fifo = rx_fifo_out.occ + Carried(rx_q.occ - s.occ)
          /\ (rx_q.occ - s.occ) + s.budget <= Rate
          /\ s.budget \in Nat /\ s.occ \in Int
      BY DEF LoopInv, LoopState, Spent
    <3>3. rx_q.occ \in Nat
      BY <1>1, IInvType
    <3>4. rx_q.occ - s.occ \in Int /\ rx_q.occ - s.occ <= Rate
      BY <2>1, <3>2, <3>3
    <3>5. /\ Carried(rx_q.occ - s.occ) \in Int
          /\ Carried(rx_q.occ - s.occ) <= Carried(Rate)
      BY <2>1, <3>4, CarriedType, CarriedMonotone
    <3> QED BY <2>1, <3>1, <3>2, <3>5
  <2>4. CASE Pop
    <3>1. rx_fifo_out'.occ <= rx_fifo_out.occ /\ rx_fifo_out'.occ \in Nat
      BY <1>1, <2>4, PopEffect
    <3> QED BY <2>1, <3>1
  <2>5. CASE Tick \/ \E p \in Packets : Push(p)
    BY <2>2, <2>5 DEF Tick, Push
  <2>6. CASE UNCHANGED vars
    BY <2>6
  <2> QED BY <1>1, <2>3, <2>4, <2>5, <2>6 DEF Next
<1> QED BY <1>1, InvariantIInv, PTL DEF Safe, RateRespected

\* A clock uses the rate, or sends all it may, or fills the buffer.
THEOREM LinkWorkConserving == Safe => WorkConserving
<1> DEFINE Done ==
      \/ rx_q.occ - rx_q'.occ = Rate
      \/ \A i \in DOMAIN rx_q'.list : rx_q'.list[i].fresh \/ rx_q'.list[i].ui = 0
      \/ ~Fits(rx_fifo_out'.occ, Carried(Rate))
<1>1. ASSUME IInv, Clock PROVE Done
  <2>1. PICK s \in LoopInv(rx_q, rx_fifo_out) :
          /\ UsedUp(rx_q, s)
          /\ s.list # <<>>
          /\ rx_q'.occ = s.occ /\ rx_fifo_out'.occ = s.fifo
          /\ rx_q'.list = Tail(s.list) \/ rx_q'.list = s.list
    BY <1>1, ClockEffect
  <2>2. s.list \in Seq(Entry) /\ Len(s.list) = Len(rx_q.list)
    BY DEF LoopInv, LoopState, SameEntries
  <2>3. CASE \A i \in 1 .. Len(rx_q.list) : s.list[i].fresh \/ s.list[i].ui = 0
    <3>1. CASE rx_q'.list = s.list
      <4>1. DOMAIN s.list = 1 .. Len(rx_q.list)
        BY <2>2
      <4> QED BY <2>3, <3>1, <4>1
    <3>2. CASE rx_q'.list = Tail(s.list)
      <4>1. /\ rx_q'.list \in Seq(Entry) /\ Len(s.list) = Len(rx_q'.list) + 1
            /\ \A i \in 1 .. Len(rx_q'.list) : rx_q'.list[i] = s.list[i + 1]
        BY <2>1, <2>2, <3>2, HeadTailProperties
      <4>2. DOMAIN rx_q'.list = 1 .. Len(rx_q'.list) /\ Len(rx_q'.list) \in Nat
        BY <4>1
      <4>3. \A i \in 1 .. Len(rx_q'.list) : i + 1 \in 1 .. Len(rx_q.list)
        BY <2>2, <4>1, <4>2
      <4> QED BY <2>3, <4>1, <4>2, <4>3
    <3> QED BY <2>1, <3>1, <3>2
  <2> QED BY <2>1, <2>3 DEF UsedUp
<1>2. ASSUME IInv, [Next]_vars PROVE [Clock => Done]_vars
  BY <1>1, <1>2
<1> QED BY <1>2, InvariantIInv, PTL DEF Safe, WorkConserving

\* A clock that delivers had not started in the cycle of the push.
LEMMA ClockNoFreshArrival ==
  ASSUME IInv, Clock, rx_q.list[1].fresh
  PROVE  rx_fifo_out'.buf = rx_fifo_out.buf
<1>1. PICK s \in LoopInv(rx_q, rx_fifo_out) :
        s.list[1].ui = 0 \/ rx_fifo_out'.buf = rx_fifo_out.buf
  BY ClockEffect
<1>2. rx_q.list \in Seq(Entry) /\ rx_q.list # <<>>
  BY IInvType DEF Clock
<1>3. 1 \in 1 .. Len(rx_q.list) /\ rx_q.list[1] \in Entry
  BY <1>2
<1>4. s.list[1].ui = rx_q.list[1].ui
  BY <1>3 DEF LoopInv, SameEntries
<1>5. rx_q.list[1].ui = UI(rx_q.list[1].pkt)
  BY <1>2, <1>3 DEF IInv, QueueGood, FreshWhole
<1>6. UI(rx_q.list[1].pkt) # 0
  <2>1. rx_q.list[1].pkt \in Packets
    BY <1>3, EntryType
  <2>2. Bits[rx_q.list[1].pkt] = Carried(UI(rx_q.list[1].pkt)) /\ Bits[rx_q.list[1].pkt] # 0
    BY <2>1, UICarried, LinkAssumption
  <2> QED BY <2>2, CarriedZero
<1> QED BY <1>1, <1>4, <1>5, <1>6

\* A packet takes at least a full cycle.
THEOREM LinkLatency == Safe => NoArrivalInPushCycle
<1> DEFINE Old == Len(rx_fifo_out'.buf) > Len(rx_fifo_out.buf) => ~rx_q.list[1].fresh
<1>1. ASSUME IInv, [Next]_vars PROVE [Old]_vars
  <2>1. Len(rx_fifo_out.buf) \in Nat
    BY <1>1, IInvType
  <2>2. CASE rx_fifo_out'.buf = rx_fifo_out.buf
    BY <2>1, <2>2
  <2>3. CASE Clock
    <3>1. CASE rx_q.list[1].fresh
      BY <1>1, <2>2, <2>3, <3>1, ClockNoFreshArrival
    <3> QED BY <3>1
  <2>4. CASE Pop
    <3>1. Len(rx_fifo_out.buf) = Len(rx_fifo_out'.buf) + 1 /\ rx_fifo_out'.buf \in Seq(Packets)
      BY <1>1, <2>4, PopEffect
    <3>2. Len(rx_fifo_out'.buf) \in Nat
      BY <3>1
    <3> QED BY <2>1, <3>1, <3>2
  <2>5. CASE Tick \/ \E p \in Packets : Push(p)
    BY <2>2, <2>5 DEF Tick, Push
  <2>6. CASE UNCHANGED vars
    BY <2>6
  <2> QED BY <1>1, <2>3, <2>4, <2>5, <2>6 DEF Next
<1> QED BY <1>1, InvariantIInv, PTL DEF Safe, NoArrivalInPushCycle

-----------------------------------------------------------------------------
(* Refinement: the link is a channel. *)

LEMMA FlightType ==
  ASSUME NEW list \in Seq(Entry)
  PROVE  /\ Flight(list) \in Seq(Packets) /\ Len(Flight(list)) = Len(list)
         /\ \A i \in 1 .. Len(list) : Flight(list)[i] = list[i].pkt
<1>1. \A i \in 1 .. Len(list) : list[i].pkt \in Packets
  <2>1. \A i \in 1 .. Len(list) : list[i] \in Entry
    OBVIOUS
  <2> QED BY <2>1, EntryType
<1> QED BY <1>1 DEF Flight

LEMMA PushIsAccept ==
  ASSUME IInv, NEW p \in Packets, Push(p)
  PROVE  Channel!Accept(p)
<1> DEFINE e == [pkt |-> p, ui |-> UI(p), fresh |-> TRUE]
           target == Append(Flight(rx_q.list), p)
<1>1. rx_q'.list = Append(rx_q.list, e) /\ rx_fifo_out' = rx_fifo_out
  BY DEF Push, PushBack
<1>2. e \in Entry /\ e.pkt = p /\ rx_q.list \in Seq(Entry)
  <2>1. UI(p) \in Nat
    BY UICarried
  <2> QED BY <2>1, IInvType DEF Entry
<1> HIDE DEF e
<1>3. /\ rx_q'.list \in Seq(Entry) /\ Len(rx_q'.list) = Len(rx_q.list) + 1
      /\ rx_q'.list[Len(rx_q.list) + 1] = e
      /\ \A i \in 1 .. Len(rx_q.list) : rx_q'.list[i] = rx_q.list[i]
  BY <1>1, <1>2, AppendProperties
<1>4. /\ Flight(rx_q.list) \in Seq(Packets) /\ Len(Flight(rx_q.list)) = Len(rx_q.list)
      /\ \A i \in 1 .. Len(rx_q.list) : Flight(rx_q.list)[i] = rx_q.list[i].pkt
  BY <1>2, FlightType
<1>5. /\ Flight(rx_q'.list) \in Seq(Packets) /\ Len(Flight(rx_q'.list)) = Len(rx_q'.list)
      /\ \A i \in 1 .. Len(rx_q'.list) : Flight(rx_q'.list)[i] = rx_q'.list[i].pkt
  BY <1>3, FlightType
<1>6. /\ target \in Seq(Packets) /\ Len(target) = Len(rx_q.list) + 1
      /\ target[Len(rx_q.list) + 1] = p
      /\ \A i \in 1 .. Len(rx_q.list) : target[i] = Flight(rx_q.list)[i]
  BY <1>4, AppendProperties
<1> HIDE DEF target
<1>7. ASSUME NEW i \in 1 .. Len(rx_q'.list) PROVE Flight(rx_q'.list)[i] = target[i]
  <2>1. i \in 1 .. Len(rx_q.list) \/ i = Len(rx_q.list) + 1
    BY <1>2, <1>3
  <2> QED BY <1>2, <1>3, <1>4, <1>5, <1>6, <2>1
<1>8. Flight(rx_q'.list) = target
  BY <1>3, <1>5, <1>6, <1>7, SeqEqual
<1> QED BY <1>1, <1>8 DEF Channel!Accept, target

LEMMA ClockIsArriveOrStutter ==
  ASSUME IInv, Clock
  PROVE  Channel!Arrive \/ UNCHANGED Channel!vars
<1>1. PICK s \in LoopInv(rx_q, rx_fifo_out) :
        /\ s.list # <<>>
        /\ \/ /\ Head(s.list) = s.list[1]
              /\ rx_q'.list = Tail(s.list)
              /\ rx_fifo_out'.buf = Append(rx_fifo_out.buf, s.list[1].pkt)
           \/ /\ rx_q'.list = s.list
              /\ rx_fifo_out'.buf = rx_fifo_out.buf
  BY ClockEffect
<1>2. /\ s.list \in Seq(Entry) /\ rx_q.list \in Seq(Entry) /\ Len(s.list) = Len(rx_q.list)
      /\ \A i \in 1 .. Len(rx_q.list) : s.list[i].pkt = rx_q.list[i].pkt
  BY IInvType DEF LoopInv, LoopState, SameEntries
<1>3. /\ Flight(s.list) \in Seq(Packets) /\ Len(Flight(s.list)) = Len(s.list)
      /\ \A i \in 1 .. Len(s.list) : Flight(s.list)[i] = s.list[i].pkt
  BY <1>2, FlightType
<1>4. /\ Flight(rx_q.list) \in Seq(Packets) /\ Len(Flight(rx_q.list)) = Len(rx_q.list)
      /\ \A i \in 1 .. Len(rx_q.list) : Flight(rx_q.list)[i] = rx_q.list[i].pkt
  BY <1>2, FlightType
<1>5. ASSUME NEW i \in 1 .. Len(rx_q.list) PROVE Flight(s.list)[i] = Flight(rx_q.list)[i]
  BY <1>2, <1>3, <1>4
<1>6. Flight(s.list) = Flight(rx_q.list)
  BY <1>2, <1>3, <1>4, <1>5, SeqEqual
<1>7. CASE rx_q'.list = s.list /\ rx_fifo_out'.buf = rx_fifo_out.buf
  BY <1>6, <1>7 DEF Channel!vars
<1>8. CASE /\ rx_q'.list = Tail(s.list)
           /\ rx_fifo_out'.buf = Append(rx_fifo_out.buf, s.list[1].pkt)
  <2>1. Flight(s.list) # <<>> /\ Head(Flight(s.list)) = s.list[1].pkt
    <3>1. 1 \in 1 .. Len(s.list)
      BY <1>1, <1>2
    <3> QED BY <1>3, <3>1
  <2>2. /\ rx_q'.list \in Seq(Entry) /\ Len(s.list) = Len(rx_q'.list) + 1
        /\ \A i \in 1 .. Len(rx_q'.list) : rx_q'.list[i] = s.list[i + 1]
    BY <1>1, <1>2, <1>8, HeadTailProperties
  <2>3. /\ Flight(rx_q'.list) \in Seq(Packets) /\ Len(Flight(rx_q'.list)) = Len(rx_q'.list)
        /\ \A i \in 1 .. Len(rx_q'.list) : Flight(rx_q'.list)[i] = rx_q'.list[i].pkt
    BY <2>2, FlightType
  <2>4. /\ Tail(Flight(s.list)) \in Seq(Packets)
        /\ Len(Flight(s.list)) = Len(Tail(Flight(s.list))) + 1
        /\ \A i \in 1 .. Len(Tail(Flight(s.list))) :
             Tail(Flight(s.list))[i] = Flight(s.list)[i + 1]
    BY <1>3, <2>1, HeadTailProperties
  <2>5. Len(Tail(Flight(s.list))) \in Nat /\ Len(rx_q'.list) \in Nat
    BY <2>2, <2>4
  <2>6. Len(Tail(Flight(s.list))) = Len(rx_q'.list)
    BY <1>3, <2>2, <2>4, <2>5
  <2>7. ASSUME NEW i \in 1 .. Len(rx_q'.list)
        PROVE  Flight(rx_q'.list)[i] = Tail(Flight(s.list))[i]
    <3>1. i + 1 \in 1 .. Len(s.list)
      BY <2>2, <2>5
    <3>2. Flight(s.list)[i + 1] = s.list[i + 1].pkt
      BY <1>3, <3>1
    <3>3. Tail(Flight(s.list))[i] = Flight(s.list)[i + 1]
      BY <2>4, <2>6
    <3>4. Flight(rx_q'.list)[i] = rx_q'.list[i].pkt /\ rx_q'.list[i] = s.list[i + 1]
      BY <2>2, <2>3
    <3> QED BY <3>2, <3>3, <3>4
  <2>8. Flight(rx_q'.list) = Tail(Flight(s.list))
    BY <2>3, <2>4, <2>6, <2>7, SeqEqual
  <2> QED BY <1>6, <1>8, <2>1, <2>8 DEF Channel!Arrive
<1> QED BY <1>1, <1>7, <1>8

LEMMA TickIsStutter ==
  ASSUME IInv, Tick
  PROVE  UNCHANGED Channel!vars
<1>1. rx_q' = NewCycle(rx_q) /\ rx_fifo_out' = rx_fifo_out
  BY DEF Tick
<1>2. rx_q.list \in Seq(Entry) /\ rx_q \in Queue
  BY IInvType
<1>3. rx_q'.list = [i \in DOMAIN rx_q.list |-> Aged(rx_q.list[i])]
  BY <1>1, <1>2 DEF NewCycle, Queue
<1>4. Flight(rx_q'.list) = Flight(rx_q.list)
  BY <1>3 DEF Flight, Aged
<1> QED BY <1>1, <1>4 DEF Channel!vars

\* Every behaviour of the link is one of the channel: each accepted packet
\* arrives at most once, in order, and nothing else arrives.
THEOREM LinkIsChannel == Safe => Channel!Safe
<1>1. Init => Channel!Init
  <2> SUFFICES ASSUME Init PROVE Channel!Init
    OBVIOUS
  <2>1. rx_q.list = <<>> /\ rx_fifo_out.buf = <<>>
    BY DEF Init, EmptyQueue, EmptyFifo
  <2>2. Flight(<<>>) = <<>>
    <3>1. <<>> \in Seq(Entry) /\ Len(<<>>) = 0
      OBVIOUS
    <3>2. Flight(<<>>) \in Seq(Packets) /\ Len(Flight(<<>>)) = 0
      BY <3>1, FlightType
    <3> QED BY <3>2
  <2> QED BY <2>1, <2>2 DEF Channel!Init
<1>2. IInv /\ [Next]_vars => [Channel!Next]_(Channel!vars)
  <2> SUFFICES ASSUME IInv, [Next]_vars PROVE [Channel!Next]_(Channel!vars)
    OBVIOUS
  <2>1. ASSUME NEW p \in Packets, Push(p) PROVE Channel!Next
    BY <2>1, PushIsAccept DEF Channel!Next
  <2>2. CASE Clock
    BY <2>2, ClockIsArriveOrStutter DEF Channel!Next
  <2>3. CASE Pop
    <3>1. /\ rx_fifo_out.buf # <<>> /\ rx_fifo_out'.buf = Tail(rx_fifo_out.buf)
          /\ rx_q' = rx_q
      BY <2>3, PopEffect
    <3> QED BY <3>1 DEF Channel!Next, Channel!Take
  <2>4. CASE Tick
    BY <2>4, TickIsStutter
  <2>5. CASE UNCHANGED vars
    BY <2>5 DEF vars, Channel!vars
  <2> QED BY <2>1, <2>2, <2>3, <2>4, <2>5 DEF Next
<1> QED BY <1>1, <1>2, InvariantIInv, PTL DEF Safe, Channel!Safe
=============================================================================
