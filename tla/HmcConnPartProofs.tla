-------------------------- MODULE HmcConnPartProofs --------------------------
(***************************************************************************)
(* The switch of a quad, for every number of slots and links.              *)
(***************************************************************************)
EXTENDS HmcConnPart, HmcRecursionProofs

\* A set of natural numbers that is not empty has a least element.
LEMMA LeastNatural ==
  ASSUME NEW S \in SUBSET Nat, S # {}
  PROVE  Min(S) \in S /\ \A y \in S : Min(S) <= y
BY LeastExists DEF Min

Slots == 0..(Links - 1)

\* The rotated mask holds the distances of the notified links.
LEMMA RotatedIsDistances ==
  ASSUME NEW mask \in SUBSET Slots, NEW rr \in Slots
  PROVE  Rotated(mask, rr) = {Distance(i, rr) : i \in mask}
<1>1. Links \in Nat
  BY PartAssumption
<1>2. ASSUME NEW d, d \in Rotated(mask, rr) PROVE \E i \in mask : d = Distance(i, rr)
  <2>1. CASE d \in ShiftedLeft(LowBits(mask, rr), Links - rr)
    <3>1. PICK b \in mask : b < rr /\ d = b + (Links - rr)
      BY <2>1 DEF ShiftedLeft, LowBits
    <3> QED BY <1>1, <3>1 DEF Slots, Distance
  <2>2. CASE d \in ShiftedRight(mask, rr)
    <3>1. PICK b \in mask : b >= rr /\ d = b - rr
      BY <2>2 DEF ShiftedRight
    <3> QED BY <1>1, <3>1 DEF Slots, Distance
  <2> QED BY <1>2, <2>1, <2>2 DEF Rotated
<1>3. ASSUME NEW i \in mask PROVE Distance(i, rr) \in Rotated(mask, rr)
  <2>1. CASE i >= rr
    BY <2>1 DEF Distance, Rotated, ShiftedRight
  <2>2. CASE i < rr
    <3>1. i + Links - rr = i + (Links - rr)
      BY <1>1 DEF Slots
    <3>2. Distance(i, rr) = i + (Links - rr)
      BY <2>2, <3>1 DEF Slots, Distance
    <3>3. i \in LowBits(mask, rr)
      BY <2>2 DEF LowBits
    <3> QED BY <3>2, <3>3 DEF Rotated, ShiftedLeft
  <2> QED BY <2>1, <2>2 DEF Slots
<1> QED BY <1>2, <1>3

LEMMA DistanceFacts ==
  ASSUME NEW i \in Slots, NEW rr \in Slots
  PROVE  Distance(i, rr) \in Nat /\ Wrapped(Distance(i, rr) + rr) = i
BY PartAssumption DEF Slots, Distance, Wrapped

\* The shifting, the masking and the wrapping pick the nearest notified link.
LEMMA PickNearest ==
  ASSUME NEW mask \in SUBSET Slots, NEW rr \in Slots, mask # {}
  PROVE  /\ Pick(mask, rr) \in mask
         /\ \A i \in mask : Distance(Pick(mask, rr), rr) <= Distance(i, rr)
<1> DEFINE D == {Distance(i, rr) : i \in mask}
<1>1. Rotated(mask, rr) = D
  BY RotatedIsDistances
<1>2. D \in SUBSET Nat /\ D # {}
  BY DistanceFacts
<1>3. Min(D) \in D /\ \A y \in D : Min(D) <= y
  <2> HIDE DEF D
  <2> QED BY <1>2, LeastNatural
<1>4. PICK i \in mask : Min(D) = Distance(i, rr)
  BY <1>3
<1>5. Pick(mask, rr) = i
  BY <1>1, <1>4, DistanceFacts DEF Pick
<1> QED BY <1>3, <1>4, <1>5

\* Behind the link that had its turn every other link has come nearer.
LEMMA OthersComeNearer ==
  ASSUME NEW i \in Slots, NEW j \in Slots, NEW rr \in Slots, i # j,
         Distance(j, rr) <= Distance(i, rr)
  PROVE  Distance(i, After(j)) < Distance(i, rr)
BY PartAssumption DEF Slots, Distance, After

LEMMA AfterIsSlot ==
  ASSUME NEW i \in Slots
  PROVE  After(i) \in Slots
BY PartAssumption DEF Slots, After

-----------------------------------------------------------------------------
(* The steps. *)

LEMMA SlotsConnected == Connected \in SUBSET Slots /\ 0 \in Slots
BY PartAssumption DEF Slots

\* A link that receives keeps what it has, in particular its front packet.
LEMMA ReceivedFacts ==
  ASSUME TypeOK, NEW got \in SUBSET Receiving
  PROVE  /\ Received(got) \in [Connected -> Seq(Packets)]
         /\ \A i \in Connected : rx[i] # <<>> =>
              Received(got)[i] # <<>> /\ Head(Received(got)[i]) = Head(rx[i])
<1>1. ASSUME NEW i \in Connected
      PROVE  /\ Received(got)[i] \in Seq(Packets)
             /\ rx[i] # <<>> => Received(got)[i] # <<>> /\ Head(Received(got)[i]) = Head(rx[i])
  <2>1. rx[i] \in Seq(Packets) /\ flight[i] \in Seq(Packets)
    BY DEF TypeOK
  <2>2. CASE i \in got
    <3>1. Received(got)[i] = Append(rx[i], Head(flight[i]))
      BY <2>2 DEF Received
    <3>2. Head(flight[i]) \in Packets
      BY <2>1, <2>2 DEF Receiving
    <3> QED BY <2>1, <3>1, <3>2
  <2>3. CASE i \notin got
    BY <2>1, <2>3 DEF Received
  <2> QED BY <2>2, <2>3
<1>2. Received(got) = [i \in Connected |-> Received(got)[i]]
  BY DEF Received
<1> QED BY <1>1, <1>2

\* What a clock does to the buffers, the queues and the schedule.
LEMMA ChooseType ==
  ASSUME TypeOK, NEW buf \in [Connected -> Seq(Packets)], NEW i \in Connected,
         Choose(buf, i)
  PROVE  /\ rx' \in [Connected -> Seq(Packets)]
         /\ tx' \in [Connected -> Seq(Entry)]
         /\ roundRobinSchedule' \in 0..(Links - 1)
<1>1. roundRobinSchedule' \in 0..(Links - 1)
  BY SlotsConnected, AfterIsSlot DEF Choose, Slots
<1>2. Offered(buf) \in SUBSET Slots /\ Offered(buf) # {} /\ roundRobinSchedule \in Slots
  BY SlotsConnected DEF Choose, Offered, Slots, TypeOK
<1>3. i \in Offered(buf)
  BY <1>2, PickNearest DEF Choose
<1>4. buf[i] \in Seq(Packets) /\ buf[i] # <<>>
  BY <1>3 DEF Offered
<1>5. Head(buf[i]) \in Packets /\ Tail(buf[i]) \in Seq(Packets)
  BY <1>4
<1>6. CASE Forward(buf, i)
  <2> DEFINE o == Route[Head(buf[i])]
             e == [pkt |-> Head(buf[i]), from |-> i]
  <2>1. o \in Connected /\ e \in Entry
    BY <1>5, PartAssumption DEF Entry
  <2>2. tx[o] \in Seq(Entry)
    BY <2>1 DEF TypeOK
  <2>3. Append(tx[o], e) \in Seq(Entry)
    BY <2>1, <2>2
  <2>4. tx' = [tx EXCEPT ![o] = Append(@, e)] /\ rx' = [buf EXCEPT ![i] = Tail(@)]
    BY <1>6 DEF Forward
  <2> HIDE DEF o, e
  <2>5. tx' \in [Connected -> Seq(Entry)]
    BY <2>3, <2>4 DEF TypeOK
  <2> QED BY <1>1, <1>5, <2>4, <2>5
<1>7. CASE Refuse(buf, i)
  BY <1>1, <1>7 DEF Refuse, TypeOK
<1> QED BY <1>6, <1>7 DEF Choose

LEMMA NextType == TypeOK /\ [Next]_vars => TypeOK'
<1> SUFFICES ASSUME TypeOK, [Next]_vars PROVE TypeOK'
  OBVIOUS
<1>1. CASE UNCHANGED vars
  BY <1>1 DEF vars, TypeOK
<1>2. ASSUME NEW i \in Connected, NEW p \in Packets, Send(i, p) PROVE TypeOK'
  BY <1>2 DEF Send, TypeOK
<1>3. ASSUME NEW got \in SUBSET Connected, Clock(got) PROVE TypeOK'
  <2>1. Received(got) \in [Connected -> Seq(Packets)] /\ got \in SUBSET Receiving
    BY <1>3, ReceivedFacts DEF Clock
  <2>2. flight' \in [Connected -> Seq(Packets)]
    <3>1. \A i \in got : Tail(flight[i]) \in Seq(Packets)
      BY <2>1 DEF Receiving, TypeOK
    <3> QED BY <1>3, <3>1 DEF Clock, TypeOK
  <2>3. CASE Nothing(Received(got))
    <3>1. roundRobinSchedule' \in 0..(Links - 1)
      BY <2>3, AfterIsSlot DEF Nothing, TypeOK, Slots
    <3> QED BY <2>1, <2>2, <2>3, <3>1 DEF Nothing, TypeOK
  <2>4. CASE \E i \in Connected : Choose(Received(got), i)
    BY <2>1, <2>2, <2>4, ChooseType DEF TypeOK
  <2> QED BY <1>3, <2>3, <2>4 DEF Clock
<1>4. ASSUME NEW o \in Connected, Drain(o) PROVE TypeOK'
  <2>1. Tail(tx[o]) \in Seq(Entry)
    BY <1>4 DEF Drain, TypeOK
  <2> QED BY <1>4, <2>1 DEF Drain, TypeOK
<1> QED BY <1>1, <1>2, <1>3, <1>4 DEF Next

\* The switch keeps its types; the schedule of the round robin is always a
\* slot, so the shifts by it are defined.
THEOREM PartType == Safe => []TypeOK
<1>1. Init => TypeOK
  BY PartAssumption DEF Init, TypeOK
<1> QED BY <1>1, NextType, PTL DEF Safe

\* In every state the bits are searched as intended: the nearest notified
\* link behind the schedule is chosen.
THEOREM PartPick == Safe => []PickIsNearest
<1>1. TypeOK => PickIsNearest
  <2> SUFFICES ASSUME TypeOK, Offered(rx) # {}
               PROVE  /\ Pick(Offered(rx), roundRobinSchedule) \in Offered(rx)
                      /\ \A i \in Offered(rx) :
                           Distance(Pick(Offered(rx), roundRobinSchedule), roundRobinSchedule)
                             <= Distance(i, roundRobinSchedule)
    BY DEF PickIsNearest
  <2>1. Offered(rx) \in SUBSET Slots /\ roundRobinSchedule \in Slots
    BY SlotsConnected DEF Offered, TypeOK, Slots
  <2> QED BY <2>1, PickNearest
<1> QED BY <1>1, PartType, PTL

\* One clock, seen from a waiting link.
Turn(i) ==
  \/ Distance(i, roundRobinSchedule') < Distance(i, roundRobinSchedule)
  \/ roundRobinSchedule' = After(i)
     /\ (~HasSpace(FrontRoute(i)) \/ tx'[FrontRoute(i)] # tx[FrontRoute(i)])

LEMMA ClockTurn ==
  ASSUME TypeOK, NEW got \in SUBSET Connected, Clock(got),
         NEW i \in Connected, rx[i] # <<>>
  PROVE  Turn(i)
<1> DEFINE buf == Received(got)
<1>1. got \in SUBSET Receiving
  BY DEF Clock
<1>2. /\ buf \in [Connected -> Seq(Packets)]
      /\ buf[i] # <<>> /\ Head(buf[i]) = Head(rx[i])
  BY <1>1, ReceivedFacts
<1>3. Clock(got) => Nothing(buf) \/ \E j \in Connected : Choose(buf, j)
  BY DEF Clock
<1> HIDE DEF buf
<1>4. Offered(buf) \in SUBSET Slots /\ i \in Offered(buf)
  BY <1>2, SlotsConnected DEF Offered
<1>5. PICK j \in Connected : Choose(buf, j)
  BY <1>3, <1>4 DEF Nothing
<1>6. roundRobinSchedule \in Slots /\ i \in Slots /\ j \in Slots
  BY SlotsConnected DEF TypeOK, Slots
<1>7. Distance(j, roundRobinSchedule) <= Distance(i, roundRobinSchedule)
  BY <1>4, <1>5, <1>6, PickNearest DEF Choose
<1>8. roundRobinSchedule' = After(j)
  BY <1>5 DEF Choose
<1>9. CASE i # j
  BY <1>6, <1>7, <1>8, <1>9, OthersComeNearer DEF Turn
<1>10. CASE i = j
  <2>1. Head(rx[i]) \in Packets
    BY DEF TypeOK
  <2>2. FrontRoute(i) \in Connected /\ FrontRoute(i) = Route[Head(buf[i])]
    BY <1>2, <2>1, PartAssumption DEF FrontRoute
  <2>3. CASE Refuse(buf, i)
    BY <1>8, <1>10, <2>2, <2>3 DEF Refuse, Turn
  <2>4. CASE Forward(buf, i)
    <3> DEFINE e == [pkt |-> Head(buf[i]), from |-> i]
    <3>1. tx' = [tx EXCEPT ![FrontRoute(i)] = Append(@, e)]
      BY <2>2, <2>4 DEF Forward
    <3> HIDE DEF e
    <3>2. tx \in [Connected -> Seq(Entry)] /\ tx[FrontRoute(i)] \in Seq(Entry)
      BY <2>2 DEF TypeOK
    <3>3. tx'[FrontRoute(i)] = Append(tx[FrontRoute(i)], e)
      BY <2>2, <3>1, <3>2
    <3>4. \A s \in Seq(Entry) : Append(s, e) # s
      <4>1. ASSUME NEW s \in Seq(Entry) PROVE Append(s, e) # s
        <5>1. Len(Append(s, e)) = Len(s) + 1 /\ Len(s) \in Nat
          OBVIOUS
        <5> QED BY <5>1
      <4> QED BY <4>1
    <3> QED BY <1>8, <1>10, <3>2, <3>3, <3>4 DEF Turn
  <2> QED BY <1>5, <1>10, <2>3, <2>4 DEF Choose
<1> QED BY <1>9, <1>10

\* No packet at the front of a buffer is passed over for more than Links
\* clocks, whatever the other links do.
THEOREM PartTurn == Safe => TurnComes
<1>1. TypeOK /\ [Next]_vars =>
        [Clocked => \A i \in Connected : rx[i] # <<>> => Turn(i)]_vars
  BY ClockTurn DEF Clocked
<1>2. TypeOK /\ [Next]_vars =>
        [Clocked =>
           \A i \in Connected : rx[i] # <<>> =>
             \/ Distance(i, roundRobinSchedule') < Distance(i, roundRobinSchedule)
             \/ roundRobinSchedule' = After(i)
                /\ (~HasSpace(FrontRoute(i)) \/ tx'[FrontRoute(i)] # tx[FrontRoute(i)])]_vars
  BY <1>1 DEF Turn
<1> QED BY <1>2, PartType, PTL DEF Safe, TurnComes

-----------------------------------------------------------------------------
(* The flows through the switch. *)

\* One member moved from the front of b to the end of a.
LEMMA MoveOver ==
  ASSUME NEW U, NEW a \in Seq(U), NEW b \in Seq(U), b # <<>>
  PROVE  Append(a, Head(b)) \o Tail(b) = a \o b
<1>1. Head(b) \in U /\ Tail(b) \in Seq(U) /\ b = <<Head(b)>> \o Tail(b)
      /\ <<Head(b)>> \in Seq(U)
  OBVIOUS
<1>2. Append(a, Head(b)) = a \o <<Head(b)>>
  BY <1>1
<1>3. ASSUME NEW c \in Seq(U), NEW d \in Seq(U) PROVE (a \o c) \o d = a \o (c \o d)
  OBVIOUS
<1>4. (a \o <<Head(b)>>) \o Tail(b) = a \o (<<Head(b)>> \o Tail(b))
  BY <1>1, <1>3, Zenon
<1> QED BY <1>1, <1>2, <1>4, Zenon

LEMMA ConcatAppend ==
  ASSUME NEW U, NEW a \in Seq(U), NEW b \in Seq(U), NEW e \in U
  PROVE  a \o Append(b, e) = Append(a \o b, e)
OBVIOUS

LEMMA ConcatHead ==
  ASSUME NEW U, NEW a \in Seq(U), NEW b \in Seq(U), a # <<>>
  PROVE  /\ a \o b \in Seq(U) /\ a \o b # <<>>
         /\ Head(a \o b) = Head(a) /\ Tail(a \o b) = Tail(a) \o b
<1> DEFINE c == a \o b
<1>1. /\ c \in Seq(U) /\ Len(c) = Len(a) + Len(b) /\ Len(a) \in Nat \ {0} /\ Len(b) \in Nat
      /\ \A n \in 1 .. Len(a) : c[n] = a[n]
      /\ \A n \in Len(a) + 1 .. Len(a) + Len(b) : c[n] = b[n - Len(a)]
  OBVIOUS
<1>2. c # <<>>
  BY <1>1
<1>3. Head(c) = Head(a)
  BY <1>1
<1>4. Tail(c) = Tail(a) \o b
  <2> DEFINE d == Tail(a) \o b
             e == Tail(c)
  <2>1. /\ Tail(a) \in Seq(U) /\ Len(Tail(a)) = Len(a) - 1
        /\ \A n \in 1 .. Len(a) - 1 : Tail(a)[n] = a[n + 1]
    OBVIOUS
  <2>2. /\ d \in Seq(U) /\ Len(d) = Len(a) - 1 + Len(b)
        /\ \A n \in 1 .. Len(a) - 1 : d[n] = a[n + 1]
        /\ \A n \in Len(a) .. Len(a) - 1 + Len(b) : d[n] = b[n - (Len(a) - 1)]
    BY <1>1, <2>1
  <2>3. /\ e \in Seq(U) /\ Len(e) = Len(a) + Len(b) - 1
        /\ \A n \in 1 .. Len(a) + Len(b) - 1 : e[n] = c[n + 1]
    BY <1>1, <1>2
  <2> HIDE DEF c, d, e
  <2>4. \A n \in 1 .. Len(e) : e[n] = d[n]
    <3>1. ASSUME NEW n \in 1 .. Len(e) PROVE e[n] = d[n]
      <4>1. CASE n + 1 \in 1 .. Len(a)
        BY <1>1, <2>2, <2>3, <4>1
      <4>2. CASE n + 1 \notin 1 .. Len(a)
        <5>1. n + 1 \in Len(a) + 1 .. Len(a) + Len(b) /\ n \in Len(a) .. Len(a) - 1 + Len(b)
              /\ (n + 1) - Len(a) = n - (Len(a) - 1)
          BY <1>1, <2>3, <4>2
        <5> QED BY <1>1, <2>2, <2>3, <5>1
      <4> QED BY <4>1, <4>2
    <3> QED BY <3>1
  <2>5. Len(e) = Len(d)
    BY <1>1, <2>2, <2>3
  <2>6. e = d
    BY <2>2, <2>3, <2>4, <2>5, SeqEqual
  <2> QED BY <2>6 DEF d, e
<1> QED BY <1>1, <1>2, <1>3, <1>4

\* The packets of the entries of a queue.
Pkts(s) == [n \in DOMAIN s |-> s[n].pkt]

LEMMA PktsFacts ==
  ASSUME NEW s \in Seq(Entry)
  PROVE  /\ \A e \in Entry : Pkts(s \o <<e>>) = Append(Pkts(s), e.pkt)
         /\ \A e \in Entry : Pkts(<<e>> \o s) # <<>> /\ Tail(Pkts(<<e>> \o s)) = Pkts(s)
<1>1. ASSUME NEW u \in Seq(Entry)
      PROVE  /\ Pkts(u) \in Seq(Packets) /\ Len(Pkts(u)) = Len(u)
             /\ \A n \in 1 .. Len(u) : Pkts(u)[n] = u[n].pkt
  <2>1. DOMAIN u = 1 .. Len(u) /\ Len(u) \in Nat /\ \A n \in 1 .. Len(u) : u[n] \in Entry
    OBVIOUS
  <2>2. \A n \in 1 .. Len(u) : u[n].pkt \in Packets
    BY <2>1 DEF Entry
  <2> QED BY <2>1, <2>2 DEF Pkts
<1>2. ASSUME NEW e \in Entry PROVE Pkts(s \o <<e>>) = Append(Pkts(s), e.pkt)
  <2> DEFINE u == s \o <<e>>
             p == Pkts(u)
             q == Append(Pkts(s), e.pkt)
  <2>1. /\ u \in Seq(Entry) /\ Len(u) = Len(s) + 1 /\ Len(s) \in Nat /\ u[Len(s) + 1] = e
        /\ \A n \in 1 .. Len(s) : u[n] = s[n]
    OBVIOUS
  <2>2. e.pkt \in Packets
    BY DEF Entry
  <2>3. /\ q \in Seq(Packets) /\ Len(q) = Len(s) + 1 /\ q[Len(s) + 1] = e.pkt
        /\ \A n \in 1 .. Len(s) : q[n] = s[n].pkt
    BY <1>1, <2>2
  <2> HIDE DEF u
  <2>4. /\ p \in Seq(Packets) /\ Len(p) = Len(s) + 1
        /\ \A n \in 1 .. Len(s) + 1 : p[n] = u[n].pkt
    BY <1>1, <2>1
  <2> HIDE DEF p, q
  <2>5. \A n \in 1 .. Len(p) : p[n] = q[n]
    BY <2>1, <2>3, <2>4
  <2>6. p = q
    BY <2>3, <2>4, <2>5, SeqEqual
  <2> QED BY <2>6 DEF p, q, u
<1>3. ASSUME NEW e \in Entry PROVE Pkts(<<e>> \o s) # <<>> /\ Tail(Pkts(<<e>> \o s)) = Pkts(s)
  <2> DEFINE u == <<e>> \o s
             p == Pkts(u)
             q == Pkts(s)
             t == Tail(p)
  <2>1. /\ u \in Seq(Entry) /\ Len(u) = Len(s) + 1 /\ Len(s) \in Nat
        /\ \A n \in 1 .. Len(s) : u[n + 1] = s[n]
    OBVIOUS
  <2>2. /\ q \in Seq(Packets) /\ Len(q) = Len(s) /\ \A n \in 1 .. Len(s) : q[n] = s[n].pkt
    BY <1>1
  <2> HIDE DEF u
  <2>3. /\ p \in Seq(Packets) /\ Len(p) = Len(s) + 1
        /\ \A n \in 1 .. Len(s) + 1 : p[n] = u[n].pkt
    BY <1>1, <2>1
  <2> HIDE DEF p, q
  <2>4. /\ p # <<>> /\ t \in Seq(Packets) /\ Len(t) = Len(s)
        /\ \A n \in 1 .. Len(s) : t[n] = p[n + 1]
    BY <2>1, <2>3
  <2> HIDE DEF t
  <2>5. \A n \in 1 .. Len(t) : t[n] = q[n]
    BY <2>1, <2>2, <2>3, <2>4
  <2>6. t = q
    BY <2>2, <2>4, <2>5, SeqEqual
  <2> QED BY <2>4, <2>6 DEF p, q, t, u
<1> QED BY <1>2, <1>3

LEMMA ToLinkFacts ==
  ASSUME NEW s \in Seq(Packets), NEW o
  PROVE  /\ ToLink(s, o) \in Seq(Packets)
         /\ \A p \in Packets :
              ToLink(Append(s, p), o) = IF Route[p] = o THEN Append(ToLink(s, o), p)
                                        ELSE ToLink(s, o)
         /\ s # <<>> =>
              ToLink(s, o) = IF Route[Head(s)] = o THEN <<Head(s)>> \o ToLink(Tail(s), o)
                             ELSE ToLink(Tail(s), o)
<1> DEFINE T == {p \in Packets : Route[p] = o}
<1>1. Selected(s, T) \in Seq(Packets)
  BY SelectedIn
<1>2. ASSUME NEW p \in Packets
      PROVE  Selected(Append(s, p), T) = IF p \in T THEN Append(Selected(s, T), p)
                                         ELSE Selected(s, T)
  BY SelectedAppend
<1>3. s # <<>> =>
        Selected(s, T) = IF Head(s) \in T THEN <<Head(s)>> \o Selected(Tail(s), T)
                         ELSE Selected(Tail(s), T)
  BY SelectedHead
<1>4. s # <<>> => Head(s) \in Packets
  OBVIOUS
<1>5. \A p \in Packets : p \in T <=> Route[p] = o
  OBVIOUS
<1> HIDE DEF T
<1>6. \A u : ToLink(u, o) = Selected(u, T)
  BY DEF ToLink, T
<1> QED BY <1>1, <1>2, <1>3, <1>4, <1>5, <1>6, Zenon

LEMMA FromLinkFacts ==
  ASSUME NEW s \in Seq(Entry), NEW i
  PROVE  /\ FromLink(s, i) \in Seq(Entry)
         /\ \A e \in Entry :
              FromLink(Append(s, e), i) = IF e.from = i THEN Append(FromLink(s, i), e)
                                          ELSE FromLink(s, i)
         /\ s # <<>> =>
              FromLink(s, i) = IF Head(s).from = i THEN <<Head(s)>> \o FromLink(Tail(s), i)
                               ELSE FromLink(Tail(s), i)
<1> DEFINE T == {e \in Entry : e.from = i}
<1>1. Selected(s, T) \in Seq(Entry)
  BY SelectedIn
<1>2. ASSUME NEW e \in Entry
      PROVE  Selected(Append(s, e), T) = IF e \in T THEN Append(Selected(s, T), e)
                                         ELSE Selected(s, T)
  BY SelectedAppend
<1>3. s # <<>> =>
        Selected(s, T) = IF Head(s) \in T THEN <<Head(s)>> \o Selected(Tail(s), T)
                         ELSE Selected(Tail(s), T)
  BY SelectedHead
<1>4. s # <<>> => Head(s) \in Entry
  OBVIOUS
<1>5. \A e \in Entry : e \in T <=> e.from = i
  OBVIOUS
<1> HIDE DEF T
<1>6. \A u : FromLink(u, i) = Selected(u, T)
  BY DEF FromLink, T
<1> QED BY <1>1, <1>2, <1>3, <1>4, <1>5, <1>6, Zenon

\* The flow from link i to link o.
FlowFlight(i, o) == ToLink(rx[i] \o flight[i], o)

FlowArrived(i, o) == Pkts(FromLink(tx[o], i))

LEMMA FlowSteps ==
  ASSUME NEW i \in Connected, NEW o \in Connected
  PROVE  /\ (\E p \in Packets : FlowFlight(i, o)' = Append(FlowFlight(i, o), p))
              /\ FlowArrived(i, o)' = FlowArrived(i, o)
            => Flow(i, o)!Next
         /\ FlowFlight(i, o) # <<>>
              /\ FlowArrived(i, o)' = Append(FlowArrived(i, o), Head(FlowFlight(i, o)))
              /\ FlowFlight(i, o)' = Tail(FlowFlight(i, o))
            => Flow(i, o)!Next
         /\ FlowArrived(i, o) # <<>> /\ FlowArrived(i, o)' = Tail(FlowArrived(i, o))
              /\ FlowFlight(i, o)' = FlowFlight(i, o)
            => Flow(i, o)!Next
         /\ FlowFlight(i, o)' = FlowFlight(i, o) /\ FlowArrived(i, o)' = FlowArrived(i, o)
            => UNCHANGED Flow(i, o)!vars
<1>1. /\ FlowFlight(i, o) = ToLink(rx[i] \o flight[i], o)
      /\ FlowArrived(i, o) = [n \in DOMAIN FromLink(tx[o], i) |-> FromLink(tx[o], i)[n].pkt]
  BY DEF FlowFlight, FlowArrived, Pkts
<1> QED
  BY DEF Flow!Next, Flow!Accept, Flow!Arrive, Flow!Take, Flow!vars, FlowFlight, FlowArrived, Pkts

FlowStep(i, o) == [Flow(i, o)!Next]_(Flow(i, o)!vars)

LEMMA FlowPrimed ==
  ASSUME NEW i \in Connected, NEW o \in Connected
  PROVE  /\ FlowFlight(i, o)' = ToLink(rx'[i] \o flight'[i], o)
         /\ FlowArrived(i, o)' = Pkts(FromLink(tx'[o], i))
BY DEF FlowFlight, FlowArrived, ToLink, FromLink, Pkts

\* A packet sent to link i is accepted by the flow to the link it leaves by.
LEMMA SendFlow ==
  ASSUME TypeOK, NEW j \in Connected, NEW p \in Packets, Send(j, p),
         NEW i \in Connected, NEW o \in Connected
  PROVE  FlowStep(i, o)
<1>1. rx[i] \in Seq(Packets) /\ flight[i] \in Seq(Packets)
  BY DEF TypeOK
<1>2. rx' = rx /\ tx' = tx
  BY DEF Send
<1>3. FlowArrived(i, o)' = FlowArrived(i, o)
  BY <1>2, FlowPrimed DEF FlowArrived
<1>4. CASE i # j
  <2>1. flight'[i] = flight[i]
    BY <1>4 DEF Send, TypeOK
  <2>2. FlowFlight(i, o)' = FlowFlight(i, o)
    BY <1>2, <2>1, FlowPrimed DEF FlowFlight
  <2> QED BY <1>3, <2>2, FlowSteps DEF FlowStep
<1>5. CASE i = j
  <2> DEFINE w == rx[i] \o flight[i]
  <2>1. flight'[i] = Append(flight[i], p)
    BY <1>5 DEF Send, TypeOK
  <2>2. rx[i] \o Append(flight[i], p) = Append(w, p)
    <3>1. ASSUME NEW a \in Seq(Packets), NEW b \in Seq(Packets)
          PROVE  a \o Append(b, p) = Append(a \o b, p)
      BY ConcatAppend
    <3> QED BY <1>1, <3>1, Zenon
  <2>3. w \in Seq(Packets)
    BY <1>1
  <2>4. FlowFlight(i, o) = ToLink(w, o)
    BY DEF FlowFlight
  <2> HIDE DEF w
  <2>5. FlowFlight(i, o)' = ToLink(Append(w, p), o)
    BY <1>2, <2>1, <2>2, FlowPrimed
  <2>6. FlowFlight(i, o)' = IF Route[p] = o THEN Append(FlowFlight(i, o), p)
                            ELSE FlowFlight(i, o)
    <3>1. ToLink(Append(w, p), o) = IF Route[p] = o THEN Append(ToLink(w, o), p)
                                    ELSE ToLink(w, o)
      BY <2>3, ToLinkFacts, Zenon
    <3> QED BY <2>4, <2>5, <3>1, Zenon
  <2> QED BY <1>3, <2>6, FlowSteps DEF FlowStep
<1> QED BY <1>4, <1>5

\* Receiving moves a packet within a flow.
LEMMA ReceivedFlow ==
  ASSUME TypeOK, NEW got \in SUBSET Receiving,
         flight' = [i \in Connected |-> IF i \in got THEN Tail(flight[i]) ELSE flight[i]],
         NEW i \in Connected
  PROVE  /\ flight'[i] \in Seq(Packets)
         /\ Received(got)[i] \o flight'[i] = rx[i] \o flight[i]
<1>1. rx[i] \in Seq(Packets) /\ flight[i] \in Seq(Packets)
  BY DEF TypeOK
<1>2. CASE i \in got
  <2>1. Received(got)[i] = Append(rx[i], Head(flight[i])) /\ flight'[i] = Tail(flight[i])
    BY <1>2 DEF Received
  <2>2. flight[i] # <<>>
    BY <1>2 DEF Receiving
  <2>3. Append(rx[i], Head(flight[i])) \o Tail(flight[i]) = rx[i] \o flight[i]
    BY <1>1, <2>2, MoveOver
  <2>4. Tail(flight[i]) \in Seq(Packets)
    BY <1>1, <2>2
  <2> QED BY <2>1, <2>3, <2>4, Zenon
<1>3. CASE i \notin got
  BY <1>1, <1>3 DEF Received
<1> QED BY <1>2, <1>3

\* Forwarding lets the front packet of one flow arrive; the flows of the other
\* links, and of this link to the other queues, stay as they are.
LEMMA ForwardFlow ==
  ASSUME TypeOK, NEW buf \in [Connected -> Seq(Packets)],
         NEW j \in Connected, buf[j] # <<>>, Forward(buf, j),
         NEW i \in Connected, NEW o \in Connected,
         flight'[i] \in Seq(Packets), buf[i] \o flight'[i] = rx[i] \o flight[i]
  PROVE  FlowStep(i, o)
<1> DEFINE h == Head(buf[j])
           e == [pkt |-> h, from |-> j]
           w == buf[i] \o flight'[i]
<1>1. h \in Packets /\ Tail(buf[j]) \in Seq(Packets) /\ Route[h] \in Connected
  BY PartAssumption
<1>2. e \in Entry /\ e.pkt = h /\ e.from = j
  BY <1>1 DEF Entry
<1>3. tx' = [tx EXCEPT ![Route[h]] = Append(@, e)] /\ rx' = [buf EXCEPT ![j] = Tail(@)]
  BY DEF Forward
<1>4. w \in Seq(Packets) /\ FlowFlight(i, o) = ToLink(w, o)
  <2>1. w \in Seq(Packets)
    <3>1. ASSUME NEW a \in Seq(Packets), NEW b \in Seq(Packets)
          PROVE  a \o b \in Seq(Packets)
      OBVIOUS
    <3>2. buf[i] \in Seq(Packets)
      OBVIOUS
    <3> QED BY <3>1, <3>2, Zenon
  <2> QED BY <2>1, Zenon DEF FlowFlight
<1>5. FlowFlight(i, o)' = ToLink(rx'[i] \o flight'[i], o)
  BY FlowPrimed
<1>6. tx[o] \in Seq(Entry)
  BY DEF TypeOK
<1> HIDE DEF e
<1>7. FlowArrived(i, o)' = IF i = j /\ o = Route[h] THEN Append(FlowArrived(i, o), h)
                           ELSE FlowArrived(i, o)
  <2> DEFINE s == FromLink(tx[o], i)
  <2>1. s \in Seq(Entry)
    BY <1>6, FromLinkFacts
  <2>2. FlowArrived(i, o) = Pkts(s) /\ FlowArrived(i, o)' = Pkts(FromLink(tx'[o], i))
    BY FlowPrimed DEF FlowArrived
  <2>3. FromLink(Append(tx[o], e), i) = IF j = i THEN Append(s, e) ELSE s
    BY <1>2, <1>6, FromLinkFacts
  <2> HIDE DEF s, h
  <2>4. CASE o = Route[h]
    <3>1. tx'[o] = Append(tx[o], e)
      BY <1>3, <2>4 DEF TypeOK
    <3>2. CASE i = j
      <4>1. Append(s, e) = s \o <<e>>
        BY <1>2, <2>1
      <4>2. Pkts(s \o <<e>>) = Append(Pkts(s), h)
        BY <1>2, <2>1, PktsFacts
      <4> QED BY <2>2, <2>3, <2>4, <3>1, <3>2, <4>1, <4>2
    <3>3. CASE i # j
      BY <2>2, <2>3, <3>1, <3>3
    <3> QED BY <3>2, <3>3
  <2>5. CASE o # Route[h]
    <3>1. tx'[o] = tx[o]
      BY <1>3, <2>5 DEF TypeOK
    <3> QED BY <2>2, <2>5, <3>1 DEF s
  <2> QED BY <2>4, <2>5
<1>8. CASE i # j
  <2>1. rx'[i] = buf[i]
    BY <1>3, <1>8
  <2> QED BY <1>4, <1>5, <1>7, <1>8, <2>1, FlowSteps DEF FlowStep
<1>9. CASE i = j
  <2>1. rx'[i] = Tail(buf[i])
    BY <1>3, <1>9
  <2>2. w # <<>> /\ Head(w) = h /\ Tail(w) = Tail(buf[i]) \o flight'[i]
    <3>1. ASSUME NEW a \in Seq(Packets), NEW b \in Seq(Packets), a # <<>>
          PROVE  a \o b # <<>> /\ Head(a \o b) = Head(a) /\ Tail(a \o b) = Tail(a) \o b
      BY <3>1, ConcatHead
    <3>2. buf[i] \in Seq(Packets) /\ buf[i] # <<>>
      BY <1>9
    <3>3. w # <<>> /\ Head(w) = Head(buf[i]) /\ Tail(w) = Tail(buf[i]) \o flight'[i]
      BY <3>1, <3>2, Zenon
    <3> QED BY <1>9, <3>3, Zenon
  <2>3. Tail(w) \in Seq(Packets)
    BY <1>4, <2>2
  <2>4. FlowFlight(i, o)' = ToLink(Tail(w), o)
    BY <1>5, <2>1, <2>2
  <2> HIDE DEF w, h
  <2>5. FlowFlight(i, o) = IF Route[h] = o THEN <<h>> \o FlowFlight(i, o)'
                           ELSE FlowFlight(i, o)'
    BY <1>4, <2>2, <2>4, ToLinkFacts
  <2>6. CASE Route[h] = o
    <3> DEFINE f == FlowFlight(i, o)
               g == FlowFlight(i, o)'
    <3>1. f = <<h>> \o g
      BY <2>5, <2>6
    <3>2. g \in Seq(Packets)
      BY <2>3, <2>4, ToLinkFacts
    <3>3. ASSUME NEW u \in Seq(Packets)
          PROVE  <<h>> \o u # <<>> /\ Head(<<h>> \o u) = h /\ Tail(<<h>> \o u) = u
      BY <1>1
    <3>4. FlowArrived(i, o)' = Append(FlowArrived(i, o), h)
      BY <1>7, <1>9, <2>6
    <3> HIDE DEF f, g
    <3>5. f # <<>> /\ Head(f) = h /\ Tail(f) = g
      BY <3>1, <3>2, <3>3
    <3> QED BY <3>4, <3>5, FlowSteps DEF FlowStep, f, g
  <2>7. CASE Route[h] # o
    BY <1>7, <2>5, <2>7, FlowSteps DEF FlowStep
  <2> QED BY <2>6, <2>7
<1> QED BY <1>8, <1>9

\* A clock, whatever it receives and whatever it then does.
LEMMA ClockFlow ==
  ASSUME TypeOK, NEW got \in SUBSET Connected, Clock(got),
         NEW i \in Connected, NEW o \in Connected
  PROVE  FlowStep(i, o)
<1> DEFINE buf == Received(got)
<1>1. got \in SUBSET Receiving
      /\ flight' = [k \in Connected |-> IF k \in got THEN Tail(flight[k]) ELSE flight[k]]
  BY DEF Clock
<1>2. buf \in [Connected -> Seq(Packets)]
  BY <1>1, ReceivedFacts
<1>3. flight'[i] \in Seq(Packets) /\ buf[i] \o flight'[i] = rx[i] \o flight[i]
  BY <1>1, ReceivedFlow
<1>4. Nothing(buf) \/ \E j \in Connected : Choose(buf, j)
  BY DEF Clock
<1> HIDE DEF buf
<1>5. ASSUME rx' = buf, tx' = tx PROVE FlowStep(i, o)
  <2>1. FlowFlight(i, o)' = FlowFlight(i, o) /\ FlowArrived(i, o)' = FlowArrived(i, o)
    BY <1>3, <1>5, FlowPrimed DEF FlowFlight, FlowArrived
  <2> QED BY <2>1, FlowSteps DEF FlowStep
<1>6. CASE Nothing(buf)
  BY <1>5, <1>6 DEF Nothing
<1>7. ASSUME NEW j \in Connected, Choose(buf, j) PROVE FlowStep(i, o)
  <2>1. Offered(buf) \in SUBSET Slots /\ Offered(buf) # {} /\ roundRobinSchedule \in Slots
    BY <1>7, SlotsConnected DEF Choose, Offered, Slots, TypeOK
  <2>2. buf[j] # <<>>
    BY <1>7, <2>1, PickNearest DEF Choose, Offered
  <2>3. CASE Forward(buf, j)
    BY <1>2, <1>3, <2>2, <2>3, ForwardFlow
  <2>4. CASE Refuse(buf, j)
    BY <1>5, <2>4 DEF Refuse
  <2> QED BY <1>7, <2>3, <2>4 DEF Choose
<1> QED BY <1>4, <1>6, <1>7

\* The packet at the front of a queue is taken from the flow it came by.
LEMMA DrainFlow ==
  ASSUME TypeOK, NEW q \in Connected, Drain(q),
         NEW i \in Connected, NEW o \in Connected
  PROVE  FlowStep(i, o)
<1>1. FlowFlight(i, o)' = FlowFlight(i, o)
  BY FlowPrimed DEF FlowFlight, Drain
<1>2. tx[o] \in Seq(Entry)
  BY DEF TypeOK
<1>3. FlowArrived(i, o) = Pkts(FromLink(tx[o], i))
      /\ FlowArrived(i, o)' = Pkts(FromLink(tx'[o], i))
  BY FlowPrimed DEF FlowArrived
<1>4. CASE o # q
  <2>1. tx'[o] = tx[o]
    BY <1>4 DEF Drain, TypeOK
  <2> QED BY <1>1, <1>3, <2>1, FlowSteps DEF FlowStep
<1>5. CASE o = q
  <2> DEFINE e == Head(tx[o])
             s == FromLink(Tail(tx[o]), i)
  <2>1. tx[o] # <<>> /\ tx'[o] = Tail(tx[o])
    BY <1>5 DEF Drain, TypeOK
  <2>2. e \in Entry /\ Tail(tx[o]) \in Seq(Entry)
    BY <1>2, <2>1
  <2>3. s \in Seq(Entry)
    BY <2>2, FromLinkFacts
  <2>4. FromLink(tx[o], i) = IF e.from = i THEN <<e>> \o s ELSE s
    BY <1>2, <2>1, FromLinkFacts
  <2>5. FlowArrived(i, o)' = Pkts(s)
    BY <1>3, <2>1
  <2> HIDE DEF e, s
  <2>6. CASE e.from = i
    <3>1. FlowArrived(i, o) # <<>> /\ FlowArrived(i, o)' = Tail(FlowArrived(i, o))
      BY <1>3, <2>2, <2>3, <2>4, <2>5, <2>6, PktsFacts
    <3> QED BY <1>1, <3>1, FlowSteps DEF FlowStep
  <2>7. CASE e.from # i
    BY <1>1, <1>3, <2>4, <2>5, <2>7, FlowSteps DEF FlowStep
  <2> QED BY <2>6, <2>7
<1> QED BY <1>4, <1>5

LEMMA FlowInit ==
  ASSUME Init, NEW i \in Connected, NEW o \in Connected
  PROVE  Flow(i, o)!Init
<1>1. rx[i] = <<>> /\ flight[i] = <<>> /\ tx[o] = <<>>
  BY DEF Init
<1>2. rx[i] \o flight[i] = <<>>
  BY <1>1
<1>3. ToLink(rx[i] \o flight[i], o) = <<>> /\ FromLink(tx[o], i) = <<>>
  BY <1>1, <1>2, SelectedEmpty DEF ToLink, FromLink
<1>4. Pkts(<<>>) = <<>>
  BY DEF Pkts
<1> QED BY <1>3, <1>4 DEF Flow!Init, Pkts

\* From any link to any link the switch is a channel: for every number of
\* links and every table of routes no packet is lost, doubled or overtaken by
\* what the clock receives, forwards, refuses or leaves waiting.
THEOREM PartFlows == Safe => FlowsAreChannels
<1>1. Init => \A i, o \in Connected : Flow(i, o)!Init
  BY FlowInit
<1>2. TypeOK /\ [Next]_vars => \A i, o \in Connected : FlowStep(i, o)
  <2> SUFFICES ASSUME TypeOK, [Next]_vars, NEW i \in Connected, NEW o \in Connected
               PROVE  FlowStep(i, o)
    OBVIOUS
  <2>1. CASE UNCHANGED vars
    <3>1. FlowFlight(i, o)' = FlowFlight(i, o) /\ FlowArrived(i, o)' = FlowArrived(i, o)
      BY <2>1, FlowPrimed DEF FlowFlight, FlowArrived, vars
    <3> QED BY <3>1, FlowSteps DEF FlowStep
  <2>2. CASE Next
    BY <2>2, SendFlow, ClockFlow, DrainFlow DEF Next
  <2> QED BY <2>1, <2>2
<1>3. TypeOK /\ [Next]_vars =>
        [\A i, o \in Connected : [Flow(i, o)!Next]_(Flow(i, o)!vars)]_vars
  BY <1>2 DEF FlowStep
<1> QED BY <1>1, <1>3, PartType, PTL DEF Safe, FlowsAreChannels

-----------------------------------------------------------------------------
(* The loop over the bits of a mask. *)

LEMMA Shifted ==
  ASSUME NEW mask \in SUBSET Nat, NEW n \in Nat
  PROVE  /\ ShiftedRight(mask, n) \in SUBSET Nat
         /\ \A b \in Int : b \in ShiftedRight(mask, n) <=> b >= 0 /\ b + n \in mask
<1>1. ASSUME NEW b \in Int, b >= 0, b + n \in mask PROVE b \in ShiftedRight(mask, n)
  <2>1. b + n \in {x \in mask : x >= n} /\ b = (b + n) - n
    BY <1>1
  <2> QED BY <2>1 DEF ShiftedRight
<1>2. ASSUME NEW b \in ShiftedRight(mask, n) PROVE b \in Nat /\ b + n \in mask
  <2>1. PICK x \in mask : x >= n /\ b = x - n
    BY DEF ShiftedRight
  <2> QED BY <2>1
<1> QED BY <1>1, <1>2

\* When the bits of a mask are shifted out up to its lowest, bit 0 is set.
LEMMA ShiftedToLowest ==
  ASSUME NEW mask \in SUBSET Nat, NEW ofZero \in Nat
  PROVE  LET zeros == TrailingZeros(mask, ofZero)
             shifted == ShiftedRight(mask, zeros)
         IN  /\ zeros \in Nat
             /\ shifted \in SUBSET Nat
             /\ \A b \in Int : b \in shifted <=> b >= 0 /\ b + zeros \in mask
             /\ mask = {} => shifted = {}
             /\ mask # {} => 0 \in shifted /\ \A b \in mask : b >= zeros
<1> DEFINE zeros == TrailingZeros(mask, ofZero)
           shifted == ShiftedRight(mask, zeros)
<1>1. zeros \in Nat
  BY LeastNatural DEF TrailingZeros
<1>2. mask # {} => zeros \in mask /\ \A b \in mask : b >= zeros
  <2>1. ASSUME mask # {} PROVE Min(mask) \in mask /\ \A b \in mask : Min(mask) <= b
    BY <2>1, LeastNatural
  <2>2. ASSUME mask # {} PROVE zeros = Min(mask)
    BY <2>2 DEF TrailingZeros
  <2> QED BY <2>1, <2>2, <1>1
<1> HIDE DEF zeros
<1>3. /\ shifted \in SUBSET Nat
      /\ \A b \in Int : b \in shifted <=> b >= 0 /\ b + zeros \in mask
  BY <1>1, Shifted
<1> HIDE DEF shifted
<1>4. mask = {} => shifted = {}
  BY <1>3
<1>5. mask # {} => 0 \in shifted
  BY <1>1, <1>2, <1>3
<1> QED BY <1>1, <1>2, <1>3, <1>4, <1>5 DEF shifted, zeros

\* Bit b is among the visits.
Visited(visits, b) == \E k \in DOMAIN visits : visits[k] = b

Ascending(visits) ==
  \A m, n \in DOMAIN visits : m < n => visits[m] < visits[n]

\* Bits below i were visited in their order, and the others are left in rest,
\* which starts at bit i.
Halfway(mask, rest, i, visits) ==
  /\ 0 \in rest
  /\ \A b \in Int : b \in rest <=> b >= 0 /\ b + i \in mask
  /\ \A b \in Int : Visited(visits, b) <=> b \in mask /\ b < i

\* What the loop has done after n iterations.
LoopInvariant(mask, n, s) ==
  LET rest == ShiftedRight(s.map, s.lid)
  IN  /\ s \in MaskLoop
      /\ Ascending(s.visits)
      /\ \/ s.i >= n /\ Halfway(mask, rest, s.i, s.visits)
         \/ rest = {} /\ \A b \in Int : Visited(s.visits, b) <=> b \in mask

\* A bit higher than those visited may be visited next.
LEMMA VisitAppended ==
  ASSUME NEW visits \in Seq(Nat), NEW i \in Nat, Ascending(visits),
         \A b \in Int : Visited(visits, b) => b < i
  PROVE  /\ Append(visits, i) \in Seq(Nat)
         /\ Ascending(Append(visits, i))
         /\ \A b \in Int : Visited(Append(visits, i), b) <=> Visited(visits, b) \/ b = i
<1> DEFINE w == Append(visits, i)
           l == Len(visits)
<1>1. /\ w \in Seq(Nat) /\ l \in Nat /\ DOMAIN visits = 1 .. l /\ DOMAIN w = 1 .. (l + 1)
      /\ \A k \in 1 .. l : w[k] = visits[k] /\ visits[k] \in Nat
      /\ w[l + 1] = i
  OBVIOUS
<1> HIDE DEF w, l
<1>2. \A k \in 1 .. l : visits[k] < i
  BY <1>1 DEF Visited
<1>3. Ascending(w)
  BY <1>1, <1>2 DEF Ascending
<1>4. ASSUME NEW b \in Int PROVE Visited(w, b) <=> Visited(visits, b) \/ b = i
  <2>1. ASSUME Visited(w, b) PROVE Visited(visits, b) \/ b = i
    BY <2>1, <1>1 DEF Visited
  <2>2. ASSUME Visited(visits, b) PROVE Visited(w, b)
    BY <2>2, <1>1 DEF Visited
  <2>3. l + 1 \in DOMAIN w
    BY <1>1
  <2>4. Visited(w, i)
    BY <2>3, <1>1 DEF Visited
  <2> QED BY <2>1, <2>2, <2>4
<1> QED BY <1>1, <1>3, <1>4 DEF w

LEMMA LoopStarts ==
  ASSUME NEW mask \in SUBSET Nat, NEW ofZero \in Nat
  PROVE  LoopInvariant(mask, 0, LoopStart(mask, ofZero))
<1> DEFINE zeros == TrailingZeros(mask, ofZero)
           rest == ShiftedRight(mask, zeros)
           s == LoopStart(mask, ofZero)
<1>1. /\ zeros \in Nat
      /\ rest \in SUBSET Nat
      /\ \A b \in Int : b \in rest <=> b >= 0 /\ b + zeros \in mask
      /\ mask = {} => rest = {}
      /\ mask # {} => 0 \in rest /\ \A b \in mask : b >= zeros
  BY ShiftedToLowest, Zenon
<1>2. s.map = mask /\ s.lid = zeros /\ s.i = zeros /\ s.visits = <<>>
  BY DEF LoopStart
<1>3. s \in MaskLoop
  <2> HIDE DEF zeros
  <2> QED BY <1>1 DEF LoopStart, MaskLoop, zeros
<1> HIDE DEF s, zeros
<1>4. Ascending(<<>>) /\ \A b : ~Visited(<<>>, b)
  BY DEF Ascending, Visited
<1> HIDE DEF rest
<1>5. ASSUME mask = {} PROVE LoopInvariant(mask, 0, s)
  <2>1. rest = {} /\ \A b \in Int : Visited(<<>>, b) <=> b \in mask
    BY <1>1, <1>4, <1>5
  <2> QED BY <1>2, <1>3, <1>4, <2>1 DEF LoopInvariant, rest
<1>6. ASSUME mask # {} PROVE LoopInvariant(mask, 0, s)
  <2>1. Halfway(mask, rest, zeros, <<>>)
    BY <1>1, <1>4, <1>6 DEF Halfway
  <2>2. zeros >= 0
    BY <1>1
  <2> QED BY <1>2, <1>3, <1>4, <2>1, <2>2 DEF LoopInvariant, rest
<1> QED BY <1>5, <1>6 DEF s

LEMMA LoopKeeps ==
  ASSUME NEW mask \in SUBSET Nat, NEW ofZero \in Nat, NEW n \in Nat, NEW s,
         LoopInvariant(mask, n, s)
  PROVE  LoopInvariant(mask, n + 1, Iterate(ofZero)[s])
<1> DEFINE m == ShiftedRight(s.map, s.lid)
           rest == ShiftedRight(m, 1)
           zeros == TrailingZeros(rest, ofZero)
           left == ShiftedRight(rest, zeros)
           w == Append(s.visits, s.i)
           t == Iterate(ofZero)[s]
<1>1. /\ s \in MaskLoop /\ s.map \in SUBSET Nat /\ s.lid \in Nat /\ s.i \in Nat
      /\ s.visits \in Seq(Nat) /\ Ascending(s.visits)
  BY DEF LoopInvariant, MaskLoop
<1>2. t = IF m = {} THEN s
          ELSE [map |-> rest, lid |-> zeros, i |-> s.i + zeros + 1, visits |-> w]
  BY <1>1 DEF Iterate
<1>3. CASE m = {}
  <2>1. t = s
    BY <1>2, <1>3
  <2>2. \A b \in Int : Visited(s.visits, b) <=> b \in mask
    BY <1>3 DEF LoopInvariant, Halfway
  <2> HIDE DEF t
  <2>3. LoopInvariant(mask, n + 1, t)
    BY <1>1, <1>3, <2>1, <2>2 DEF LoopInvariant
  <2> QED BY <2>3 DEF t
<1>4. CASE m # {}
  <2>1. s.i >= n /\ Halfway(mask, m, s.i, s.visits)
    BY <1>4 DEF LoopInvariant
  <2>2. m \in SUBSET Nat
    BY <1>1, Shifted
  <2> HIDE DEF m
  <2>3. rest \in SUBSET Nat /\ \A b \in Int : b \in rest <=> b >= 0 /\ b + 1 \in m
    <3>1. 1 \in Nat
      OBVIOUS
    <3>2. PICK one \in Nat : one = 1
      BY <3>1
    <3>3. /\ ShiftedRight(m, one) \in SUBSET Nat
          /\ \A b \in Int : b \in ShiftedRight(m, one) <=> b >= 0 /\ b + one \in m
      BY <2>2, Shifted, Zenon
    <3> QED BY <3>2, <3>3
  <2> HIDE DEF rest
  <2>4. /\ zeros \in Nat
        /\ left \in SUBSET Nat
        /\ \A b \in Int : b \in left <=> b >= 0 /\ b + zeros \in rest
        /\ rest = {} => left = {}
        /\ rest # {} => 0 \in left /\ \A b \in rest : b >= zeros
    BY <2>3, ShiftedToLowest, Zenon
  <2> HIDE DEF zeros
  <2> HIDE DEF left
  <2>5. /\ w \in Seq(Nat) /\ Ascending(w)
        /\ \A b \in Int : Visited(w, b) <=> Visited(s.visits, b) \/ b = s.i
    <3>1. \A b \in Int : Visited(s.visits, b) => b < s.i
      BY <2>1 DEF Halfway
    <3> QED BY <1>1, <3>1, VisitAppended
  <2> HIDE DEF w
  <2>6. t = [map |-> rest, lid |-> zeros, i |-> s.i + zeros + 1, visits |-> w]
    BY <1>2, <1>4
  <2> HIDE DEF t
  <2>7. /\ t \in MaskLoop /\ t.map = rest /\ t.lid = zeros
        /\ t.i = s.i + zeros + 1 /\ t.visits = w
    <3>1. s.i + zeros + 1 \in Nat
      <4>1. s.i \in Nat /\ zeros \in Nat
        BY <1>1, <2>4
      <4> QED BY <4>1
    <3> DEFINE j == s.i + zeros + 1
    <3>2. t = [map |-> rest, lid |-> zeros, i |-> j, visits |-> w] /\ j \in Nat
      BY <2>6, <3>1
    <3> HIDE DEF j
    <3>3. /\ t \in MaskLoop /\ t.map = rest /\ t.lid = zeros /\ t.i = j /\ t.visits = w
      BY <3>2, <2>3, <2>4, <2>5 DEF MaskLoop
    <3> QED BY <3>3 DEF j
  <2> DEFINE j == t.i
  <2> DEFINE i == s.i
  <2>8. i \in Nat /\ j \in Nat /\ j = i + zeros + 1 /\ zeros \in Nat
    BY <1>1, <2>4, <2>7
  <2> HIDE DEF i, j
  <2>9. /\ i >= n /\ Halfway(mask, m, i, s.visits)
         /\ Ascending(w) /\ \A b \in Int : Visited(w, b) <=> Visited(s.visits, b) \/ b = i
    BY <2>1, <2>5 DEF i
  <2>10. \A b \in Int : b \in mask /\ b > i <=> b - (i + 1) \in rest
    <3>1. ASSUME NEW b \in Int
          PROVE  b \in mask /\ b > i <=> b - (i + 1) \in rest
      <4>1. /\ b - (i + 1) \in Int /\ (b - (i + 1)) + 1 = b - i
            /\ b - i \in Int /\ (b - i) + i = b
            /\ b - (i + 1) >= 0 <=> b > i
        BY <2>8
      <4>2. b - i \in m <=> b - i >= 0 /\ b \in mask
        BY <4>1, <2>9 DEF Halfway
      <4>3. b - (i + 1) \in rest <=> b - (i + 1) >= 0 /\ b - i \in m
        BY <4>1, <2>3
      <4> QED BY <2>8, <4>1, <4>2, <4>3
    <3> QED BY <3>1
  <2>11. i \in mask
    <3>1. 0 + i \in mask
      BY <2>9 DEF Halfway
    <3> QED BY <3>1, <2>8
  <2>12. \A b \in Int : Visited(w, b) <=> b \in mask /\ b <= i
    BY <2>8, <2>9, <2>11 DEF Halfway
  <2>13. ASSUME rest = {} PROVE LoopInvariant(mask, n + 1, t)
    <3>1. left = {}
      BY <2>4, <2>13
    <3>2. \A b \in Int : b \in mask => b <= i
      BY <2>8, <2>10, <2>13
    <3>3. \A b \in Int : Visited(w, b) <=> b \in mask
      BY <2>12, <3>2
    <3> QED BY <2>7, <2>9, <3>1, <3>3 DEF LoopInvariant, left
  <2>14. ASSUME rest # {} PROVE LoopInvariant(mask, n + 1, t)
    <3>1. \A b \in Int : b \in left <=> b >= 0 /\ b + j \in mask
      <4>1. ASSUME NEW b \in Int
            PROVE  b \in left <=> b >= 0 /\ b + j \in mask
        <5>1. /\ b + j \in Int /\ (b + j) - (i + 1) = b + zeros
              /\ b >= 0 => b + j > i
          BY <2>8
        <5>2. b + j \in mask /\ b + j > i <=> b + zeros \in rest
          BY <5>1, <2>10
        <5>3. b \in left <=> b >= 0 /\ b + zeros \in rest
          BY <2>4
        <5> QED BY <5>1, <5>2, <5>3
      <4> QED BY <4>1
    <3>2. \A b \in Int : Visited(w, b) <=> b \in mask /\ b < j
      <4>1. ASSUME NEW b \in Int, b \in mask, b > i PROVE b >= j
        <5>1. b - (i + 1) \in rest
          BY <4>1, <2>10
        <5>2. b - (i + 1) >= zeros
          BY <5>1, <2>4, <2>14
        <5> QED BY <2>8, <5>2
      <4>2. j > i
        BY <2>8
      <4> QED BY <2>8, <2>12, <4>1, <4>2
    <3>3. Halfway(mask, left, j, w)
      BY <2>4, <2>14, <3>1, <3>2 DEF Halfway
    <3>4. j >= n + 1
      BY <2>8, <2>9
    <3> QED BY <2>7, <2>9, <3>3, <3>4 DEF LoopInvariant, left, j
  <2>15. LoopInvariant(mask, n + 1, t)
    BY <2>13, <2>14
  <2> QED BY <2>15 DEF t
<1> QED BY <1>3, <1>4

\* The loop visits each bit of a mask once, in ascending order.
LEMMA VisitsMask ==
  ASSUME NEW mask \in SUBSET Slots, NEW ofZero \in Nat
  PROVE  /\ {Visits(mask, ofZero)[n] : n \in DOMAIN Visits(mask, ofZero)} = mask
         /\ Ascending(Visits(mask, ofZero))
<1> DEFINE F == Iterate(ofZero)
           x == LoopStart(mask, ofZero)
           r == Iterated(F, x)
           T == {n \in Nat : LoopInvariant(mask, n, r[n])}
<1>1. Links \in Nat /\ mask \in SUBSET Nat /\ \A b \in mask : b < Links
  BY PartAssumption DEF Slots
<1>2. LoopInvariant(mask, 0, x)
  BY <1>1, LoopStarts
<1>3. F \in [MaskLoop -> MaskLoop]
  <2>1. ASSUME NEW s \in MaskLoop PROVE F[s] \in MaskLoop
    <3> DEFINE m == ShiftedRight(s.map, s.lid)
               rest == ShiftedRight(m, 1)
               zeros == TrailingZeros(rest, ofZero)
               w == Append(s.visits, s.i)
    <3>1. F[s] = IF m = {} THEN s
                 ELSE [map |-> rest, lid |-> zeros, i |-> s.i + zeros + 1, visits |-> w]
      BY DEF Iterate
    <3>2. /\ s.map \in SUBSET Nat /\ s.lid \in Nat /\ s.i \in Nat /\ w \in Seq(Nat)
      BY DEF MaskLoop
    <3>3. m \in SUBSET Nat
      BY <3>2, Shifted
    <3> HIDE DEF m
    <3>4. rest \in SUBSET Nat
      <4>1. PICK one \in Nat : one = 1
        OBVIOUS
      <4>2. ShiftedRight(m, one) \in SUBSET Nat
        BY <3>3, Shifted
      <4> QED BY <4>1, <4>2
    <3> HIDE DEF rest
    <3>5. zeros \in Nat
      BY <3>4, ShiftedToLowest
    <3> HIDE DEF zeros, w, F
    <3>6. s.i + zeros + 1 \in Nat
      BY <3>2, <3>5
    <3> QED BY <3>1, <3>2, <3>4, <3>5, <3>6 DEF MaskLoop
  <2>2. F = [s \in MaskLoop |-> F[s]]
    BY DEF Iterate
  <2> HIDE DEF F
  <2> QED BY <2>1, <2>2
<1>4. x \in MaskLoop
  BY <1>2 DEF LoopInvariant
<1> HIDE DEF x
<1>5. r[0] = x /\ \A n \in Nat : r[n + 1] = F[r[n]]
  <2>1. Iterates(r, MaskLoop, F, x)
    BY <1>3, <1>4, IteratedRecursion
  <2> QED BY <2>1 DEF Iterates
<1> HIDE DEF r
<1>6. 0 \in T
  BY <1>2, <1>5
<1>7. ASSUME NEW n \in Nat, n \in T PROVE n + 1 \in T
  <2>1. LoopInvariant(mask, n, r[n])
    BY <1>7
  <2>2. LoopInvariant(mask, n + 1, Iterate(ofZero)[r[n]])
    BY <1>1, <2>1, LoopKeeps
  <2> QED BY <1>5, <2>2
<1> HIDE DEF T
<1>8. \A n \in Nat : n \in T
  BY <1>6, <1>7, SetInduction
<1> DEFINE s == r[Links]
           v == s.visits
<1>9. LoopInvariant(mask, Links, s)
  BY <1>1, <1>8 DEF T
<1>10. v = Visits(mask, ofZero)
  BY DEF Visits, r, x
<1> HIDE DEF s
<1>11. s.i \in Nat /\ v \in Seq(Nat) /\ Ascending(v)
  BY <1>9 DEF LoopInvariant, MaskLoop
<1>12. \A b \in Int : Visited(v, b) <=> b \in mask
  <2>1. ASSUME s.i >= Links,
               Halfway(mask, ShiftedRight(s.map, s.lid), s.i, v)
        PROVE  FALSE
    <3>1. 0 + s.i \in mask
      BY <2>1 DEF Halfway
    <3> QED BY <1>1, <1>11, <2>1, <3>1
  <2> QED BY <1>9, <2>1 DEF LoopInvariant
<1> HIDE DEF v
<1>13. \A n \in DOMAIN v : v[n] \in Nat
  BY <1>11
<1>14. {v[n] : n \in DOMAIN v} = mask
  <2>1. ASSUME NEW b \in mask PROVE b \in {v[n] : n \in DOMAIN v}
    <3>1. b \in Int
      BY <1>1
    <3> QED BY <1>12, <3>1 DEF Visited
  <2>2. ASSUME NEW n \in DOMAIN v PROVE v[n] \in mask
    <3>1. v[n] \in Int /\ Visited(v, v[n])
      BY <1>13 DEF Visited
    <3> QED BY <1>12, <3>1
  <2> QED BY <2>1, <2>2
<1> QED BY <1>10, <1>11, <1>14

\* However many slots there are and whichever links have something on their
\* way, the loop that clocks the links visits each of them once.
THEOREM PartVisits == Safe => []VisitsEach
<1>1. VisitsEach
  <2> SUFFICES ASSUME NEW ofZero \in 0 .. Links
               PROVE  LET notified == Offered(flight)
                          visits   == Visits(notified, ofZero)
                      IN  /\ {visits[n] : n \in DOMAIN visits} = notified
                          /\ \A m, n \in DOMAIN visits : m < n => visits[m] < visits[n]
    BY DEF VisitsEach
  <2>1. Offered(flight) \in SUBSET Slots /\ ofZero \in Nat
    <3>1. Offered(flight) \subseteq Connected
      BY DEF Offered
    <3>2. ofZero \in Nat
      BY PartAssumption
    <3> QED BY <3>1, <3>2, SlotsConnected
  <2>2. /\ {Visits(Offered(flight), ofZero)[n] : n \in DOMAIN Visits(Offered(flight), ofZero)}
             = Offered(flight)
        /\ Ascending(Visits(Offered(flight), ofZero))
    BY <2>1, VisitsMask
  <2> QED BY <2>2 DEF Ascending
<1> QED BY <1>1, PTL

=============================================================================
