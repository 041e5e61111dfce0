--------------------------- MODULE HmcBobsimProofs ---------------------------
(***************************************************************************)
(* The bridge to the DRAM simulator: no notification is deleted while a    *)
(* countdown runs, work is forgotten only after a request without          *)
(* response, reads are answered in the order they were sent, and every     *)
(* step of the bridge is one of the memory it implements.                  *)
(***************************************************************************)
EXTENDS HmcBobsim, HmcRecursionProofs, FiniteSetTheorems

-----------------------------------------------------------------------------
(* Commands. *)

LEMMA CommandFacts ==
  ASSUME NEW c \in Executable
  PROVE  /\ TransactionType(c) = "DATA_READ" => HasResponse(c)
         /\ RqstFlits(c) - 1 \in Nat
<1>1. ASSUME TransactionType(c) = "DATA_READ" PROVE HasResponse(c)
  BY <1>1 DEF TransactionType, HasResponse
<1>2. ASSUME c \in Writes \union PostedWrites PROVE Bytes[c] \in Nat
  <2> DEFINE P(i) == c \in {Read[i], Write[i], PostedWrite[i]}
  <2>1. \E i \in 1 .. 9 : P(i)
    <3>1. c \in Writes => \E i \in 1 .. 9 : c = Write[i]
      BY DEF Writes, Write, ToSet
    <3>2. c \in PostedWrites => \E i \in 1 .. 9 : c = PostedWrite[i]
      BY DEF PostedWrites, PostedWrite, ToSet
    <3> QED BY <1>2, <3>1, <3>2
  <2>2. DOMAIN Sizes = 1 .. 9 /\ \A i \in 1 .. 9 : Sizes[i] \in Nat
    BY DEF Sizes
  <2>3. Bytes[c] = Sizes[CHOOSE i \in DOMAIN Sizes : P(i)]
    BY <1>2 DEF Bytes
  <2> HIDE DEF P
  <2>4. (CHOOSE i \in 1 .. 9 : P(i)) \in 1 .. 9
    BY <2>1
  <2> QED BY <2>2, <2>3, <2>4
<1>3. RqstFlits(c) - 1 \in Nat
  <2>1. CASE c \in Reads \union Flow \union {"MD_RD", "INC8", "P_INC8"}
             /\ c \notin (Writes \union PostedWrites)
    BY <2>1 DEF RqstFlits
  <2>2. CASE c \in Writes \union PostedWrites
    <3>1. Bytes[c] \div 16 \in Nat
      BY <1>2, <2>2
    <3>2. RqstFlits(c) \in {1, 1 + Bytes[c] \div 16}
      BY <2>2 DEF RqstFlits
    <3> QED BY <3>1, <3>2
  <2>3. CASE c \notin (Reads \union Flow \union {"MD_RD", "INC8", "P_INC8"})
             /\ c \notin (Writes \union PostedWrites)
    BY <2>3 DEF RqstFlits
  <2> QED BY <2>1, <2>2, <2>3
<1> QED BY <1>1, <1>3

LEMMA RequestFacts ==
  ASSUME NEW r \in Requests
  PROVE  /\ IsRead(r) => Responds(r)
         /\ PortCycles(r) \in Nat
<1>1. Cmd[r] \in Executable
  BY BobsimAssumption
<1>2. IsRead(r) => Responds(r)
  BY <1>1, CommandFacts DEF IsRead, Responds
<1>3. RqstFlits(Cmd[r]) - 1 \in Nat
  BY <1>1, CommandFacts
<1> QED BY <1>2, <1>3 DEF PortCycles

-----------------------------------------------------------------------------
(* One callback. *)

\* The state that bob_feedback changes has its type, only responses are cached
\* or sent, and the link's queue is not overrun.
Good(f) ==
  /\ f \in FeedbackState
  /\ \A r \in Range(f.cache) \union Range(f.tx) : Responds(r)
  /\ Len(f.tx) <= TxMax

\* What never gets worse for the notification from f to g.
CountersKept(f, g) ==
  /\ g.ctr = 0 \/ f.ctr > 0
  /\ (f.ctr > 0 => f.notified) => (g.ctr > 0 => g.notified)
  /\ f.ctr = 0 => g.notified = f.notified

\* The responses of f in order of completion, and as a set.
Order(f) == Joined(f.firsts, f.cache)

Done(f) == Range(f.firsts) \union Range(f.cache)

LEMMA FieldTypes ==
  ASSUME NEW f \in FeedbackState
  PROVE  /\ f.tx \in Seq(Requests) /\ f.cache \in Seq(Requests) /\ f.firsts \in Seq(Requests)
         /\ f.ctr \in 0 .. CtrMax /\ f.notified \in BOOLEAN /\ f.again \in SUBSET Requests
         /\ f.ctr \in Nat /\ Len(f.tx) \in Nat /\ Len(f.cache) \in Nat /\ Len(f.firsts) \in Nat
<1>1. CtrMax \in Nat
  BY BobsimAssumption
<1> QED BY <1>1 DEF FeedbackState

LEMMA CachedFields ==
  ASSUME NEW f \in FeedbackState, NEW r \in Requests
  PROVE  /\ Cached(f, r) \in FeedbackState
         /\ Cached(f, r).cache = Append(f.cache, r)
         /\ Cached(f, r).tx = f.tx /\ Cached(f, r).firsts = f.firsts
         /\ Cached(f, r).ctr = f.ctr /\ Cached(f, r).notified = f.notified
<1>1. Append(f.cache, r) \in Seq(Requests)
  BY FieldTypes
<1> QED BY <1>1 DEF Cached, FeedbackState

LEMMA ProcessedFields ==
  ASSUME NEW f \in FeedbackState, NEW r \in Requests
  PROVE  /\ Processed(f, r) \in FeedbackState
         /\ Processed(f, r).cache = f.cache
         /\ Processed(f, r).tx = IF Responds(r) THEN Append(f.tx, r) ELSE f.tx
         /\ Processed(f, r).firsts =
              IF Responds(r) /\ r \notin Range(f.firsts) THEN Append(f.firsts, r) ELSE f.firsts
         /\ Processed(f, r).ctr = Counted(f)
         /\ Processed(f, r).notified = StillNotified(f)
<1>1. Counted(f) \in 0 .. CtrMax
  <2>1. f.ctr \in 0 .. CtrMax /\ CtrMax \in Nat
    BY FieldTypes, BobsimAssumption
  <2> QED BY <2>1 DEF Counted
<1>2. StillNotified(f) \in BOOLEAN
  BY FieldTypes DEF StillNotified
<1>3. /\ (IF Responds(r) THEN Append(f.tx, r) ELSE f.tx) \in Seq(Requests)
      /\ (IF Responds(r) /\ ~Answered(f, r) THEN Append(f.firsts, r) ELSE f.firsts)
           \in Seq(Requests)
  BY FieldTypes
<1>4. (IF Answered(f, r) THEN f.again \union {r} ELSE f.again) \in SUBSET Requests
  BY FieldTypes
<1> DEFINE tx == IF Responds(r) THEN Append(f.tx, r) ELSE f.tx
           fi == IF Responds(r) /\ ~Answered(f, r) THEN Append(f.firsts, r) ELSE f.firsts
           ag == IF Answered(f, r) THEN f.again \union {r} ELSE f.again
           ct == Counted(f)
           no == StillNotified(f)
<1>5. Processed(f, r) = [f EXCEPT !.tx = tx, !.ctr = ct, !.notified = no,
                                  !.firsts = fi, !.again = ag]
  BY DEF Processed
<1>6. tx \in Seq(Requests) /\ fi \in Seq(Requests) /\ ag \in SUBSET Requests
      /\ ct \in 0 .. CtrMax /\ no \in BOOLEAN
  BY <1>1, <1>2, <1>3, <1>4
<1> HIDE DEF tx, fi, ag, ct, no
<1>7. /\ Processed(f, r) \in FeedbackState
      /\ Processed(f, r).cache = f.cache
      /\ Processed(f, r).tx = tx /\ Processed(f, r).firsts = fi
      /\ Processed(f, r).ctr = ct /\ Processed(f, r).notified = no
  BY <1>5, <1>6 DEF FeedbackState
<1> QED BY <1>7 DEF tx, fi, ct, no, Answered

\* Every callback keeps the type, caches and sends responses only, and never
\* overruns the link's queue; a countdown keeps the notification.
LEMMA FeedbackGood ==
  ASSUME NEW f, Good(f), NEW r \in Requests
  PROVE  Good(Feedback(f, r)) /\ CountersKept(f, Feedback(f, r))
<1>1. f \in FeedbackState /\ Len(f.tx) <= TxMax /\ TxMax \in Nat
      /\ \A q \in Range(f.cache) \union Range(f.tx) : Responds(q)
  BY BobsimAssumption DEF Good
<1>2. /\ f.tx \in Seq(Requests) /\ f.cache \in Seq(Requests) /\ Len(f.tx) \in Nat
      /\ f.ctr \in Nat /\ f.notified \in BOOLEAN
  BY <1>1, FieldTypes
<1>3. CASE Refused(f, r)
  <2> DEFINE g == Cached(f, r)
  <2>1. Feedback(f, r) = g /\ Responds(r)
    BY <1>3 DEF Feedback, Refused, Stalls, Responds
  <2>2. /\ g \in FeedbackState /\ g.cache = Append(f.cache, r)
        /\ g.tx = f.tx /\ g.ctr = f.ctr /\ g.notified = f.notified
    BY <1>1, CachedFields
  <2>3. Range(g.cache) = Range(f.cache) \union {r}
    BY <1>2, <2>2, RangeFacts
  <2> HIDE DEF g
  <2>4. Good(g)
    BY <1>1, <2>1, <2>2, <2>3 DEF Good
  <2>5. CountersKept(f, g)
    BY <1>2, <2>2 DEF CountersKept
  <2> QED BY <2>1, <2>4, <2>5
<1>4. CASE ~Refused(f, r)
  <2> DEFINE g == Processed(f, r)
  <2>1. Feedback(f, r) = g /\ (Responds(r) => Len(f.tx) < TxMax)
    BY <1>4 DEF Feedback, Refused, Stalls, Responds
  <2>2. /\ g \in FeedbackState /\ g.cache = f.cache
        /\ g.tx = IF Responds(r) THEN Append(f.tx, r) ELSE f.tx
        /\ g.ctr = Counted(f) /\ g.notified = StillNotified(f)
    BY <1>1, ProcessedFields
  <2> HIDE DEF g
  <2>3. Len(g.tx) <= TxMax
    <3>1. Len(Append(f.tx, r)) = Len(f.tx) + 1
      BY <1>2
    <3> QED BY <1>1, <1>2, <2>1, <2>2, <3>1
  <2>4. \A q \in Range(g.tx) : Responds(q)
    <3>1. Range(Append(f.tx, r)) = Range(f.tx) \union {r}
      BY <1>2, RangeFacts
    <3> QED BY <1>1, <2>2, <3>1
  <2>5. Good(g)
    BY <1>1, <2>2, <2>3, <2>4 DEF Good
  <2>6. CountersKept(f, g)
    BY <1>2, <2>2 DEF CountersKept, Counted, StillNotified
  <2> QED BY <2>1, <2>5, <2>6
<1> QED BY <1>3, <1>4

LEMMA CountersTransitive ==
  ASSUME NEW f \in FeedbackState, NEW g \in FeedbackState, NEW h \in FeedbackState,
         CountersKept(f, g), CountersKept(g, h)
  PROVE  CountersKept(f, h)
<1>1. f.ctr \in Nat /\ g.ctr \in Nat /\ h.ctr \in Nat
  BY FieldTypes
<1> QED BY <1>1 DEF CountersKept

LEMMA ClockCountedGood ==
  ASSUME NEW f, Good(f)
  PROVE  /\ Good(ClockCounted(f)) /\ CountersKept(f, ClockCounted(f))
         /\ ClockCounted(f).firsts = f.firsts /\ ClockCounted(f).cache = f.cache
<1>1. f \in FeedbackState /\ f.ctr \in 0 .. CtrMax /\ CtrMax \in Nat /\ f.ctr \in Nat
  BY FieldTypes, BobsimAssumption DEF Good
<1>2. CASE f.notified
  <2>1. ClockCounted(f) = f
    BY <1>2 DEF ClockCounted
  <2>2. CountersKept(f, f)
    BY <1>1 DEF CountersKept
  <2> QED BY <2>1, <2>2
<1>3. CASE ~f.notified
  <2> DEFINE ct == Counted(f)
             g == [f EXCEPT !.ctr = ct]
  <2>1. ct \in 0 .. CtrMax /\ (ct = 0 \/ f.ctr > 0)
    BY <1>1 DEF Counted
  <2>2. ClockCounted(f) = g
    BY <1>3 DEF ClockCounted
  <2> HIDE DEF ct
  <2>3. /\ g \in FeedbackState /\ g.tx = f.tx /\ g.cache = f.cache
        /\ g.firsts = f.firsts /\ g.ctr = ct /\ g.notified = f.notified
    BY <1>1, <2>1 DEF FeedbackState
  <2> HIDE DEF g
  <2>4. Good(g)
    BY <2>3 DEF Good
  <2>5. CountersKept(f, g)
    <3>1. ct \in Nat
      BY <1>1, <2>1
    <3> QED BY <1>1, <1>3, <2>1, <2>3, <3>1 DEF CountersKept
  <2> QED BY <2>2, <2>3, <2>4, <2>5
<1> QED BY <1>2, <1>3

-----------------------------------------------------------------------------
(* The loop over the cache. *)

\* What holds after n turns of the loop that started with f: the responses
\* keep their order of completion, and either one was refused again or the
\* first n of the cache have been answered.
Loop(f, n, g) ==
  /\ Good(g)
  /\ Order(g) = Order(f)
  /\ Range(g.cache) = Range(f.cache)
  /\ Range(f.firsts) \subseteq Range(g.firsts)
  /\ Range(g.firsts) \subseteq Done(f)
  /\ Len(g.firsts) >= Len(f.firsts)
  /\ CountersKept(f, g)
  /\ \/ Grew(f, g)
     \/ g.cache = f.cache /\ \A i \in 1 .. n : f.cache[i] \in Range(g.firsts)

LEMMA OrderAppend ==
  \A a, s \in Seq(Requests), e \in Requests :
    Joined(a, Append(s, e)) =
      IF e \in Range(Joined(a, s)) THEN Joined(a, s) ELSE Append(Joined(a, s), e)
<1> TAKE a, s \in Seq(Requests), e \in Requests
<1> QED BY JoinedAppend

LEMMA LoopTurn ==
  ASSUME NEW f, Good(f), NEW n \in 1 .. Len(f.cache), NEW a, Loop(f, n - 1, a), ~Grew(f, a)
  PROVE  Loop(f, n, Feedback(a, f.cache[n]))
<1> DEFINE e == f.cache[n]
           g == Feedback(a, e)
<1>1. /\ f \in FeedbackState /\ f.cache \in Seq(Requests) /\ f.firsts \in Seq(Requests)
      /\ Len(f.cache) \in Nat /\ Len(f.firsts) \in Nat
  BY FieldTypes DEF Good
<1>2. /\ a \in FeedbackState /\ a.firsts \in Seq(Requests) /\ a.cache = f.cache
      /\ Len(a.firsts) \in Nat
  BY FieldTypes DEF Loop, Good
<1>3. e \in Requests /\ e \in Range(f.cache)
  <2>1. n \in DOMAIN f.cache
    BY <1>1
  <2> QED BY <1>1, <2>1 DEF Range
<1>4. Responds(e)
  BY <1>3 DEF Good
<1>5. Good(g) /\ CountersKept(f, g)
  <2> HIDE DEF e
  <2>1. Good(g) /\ CountersKept(a, g)
    BY <1>3, FeedbackGood DEF Loop
  <2>2. g \in FeedbackState /\ CountersKept(f, a)
    BY <2>1 DEF Good, Loop
  <2> QED BY <1>1, <1>2, <2>1, <2>2, CountersTransitive
<1>6. /\ Order(a) = Order(f) /\ Range(f.firsts) \subseteq Range(a.firsts)
      /\ Range(a.firsts) \subseteq Done(f) /\ Len(a.firsts) >= Len(f.firsts)
      /\ \A i \in 1 .. n - 1 : f.cache[i] \in Range(a.firsts)
  BY DEF Loop
<1>7. e \in Done(f)
  BY <1>3 DEF Done
<1>8. CASE Refused(a, e)
  <2>1. g = Cached(a, e)
    BY <1>8 DEF Feedback
  <2> HIDE DEF e
  <2>2. g.cache = Append(f.cache, e) /\ g.firsts = a.firsts
    BY <1>2, <1>3, <2>1, CachedFields
  <2> HIDE DEF g
  <2>3. Range(g.cache) = Range(f.cache)
    <3>1. Range(Append(f.cache, e)) = Range(f.cache) \union {e}
      BY <1>1, <1>3, RangeFacts
    <3> QED BY <1>3, <2>2, <3>1
  <2>4. Order(g) = Order(a)
    <3>1. Joined(a.firsts, Append(f.cache, e)) =
            IF e \in Range(Joined(a.firsts, f.cache)) THEN Joined(a.firsts, f.cache)
            ELSE Append(Joined(a.firsts, f.cache), e)
      BY <1>1, <1>2, <1>3, OrderAppend, Zenon
    <3>2. Range(Joined(a.firsts, f.cache)) = Range(a.firsts) \union Range(f.cache)
      BY <1>1, <1>2, JoinedFacts
    <3> QED BY <1>2, <1>3, <2>2, <3>1, <3>2 DEF Order
  <2>5. Grew(f, g)
    <3>1. Len(Append(f.cache, e)) = Len(f.cache) + 1
      BY <1>1, <1>3
    <3> QED BY <1>1, <2>2, <3>1 DEF Grew
  <2>6. Loop(f, n, g)
    BY <1>5, <1>6, <2>2, <2>3, <2>4, <2>5 DEF Loop
  <2> QED BY <2>6 DEF g, e
<1>9. CASE ~Refused(a, e)
  <2>1. g = Processed(a, e)
    BY <1>9 DEF Feedback
  <2>2. /\ g.cache = f.cache
        /\ g.firsts = IF e \notin Range(a.firsts) THEN Append(a.firsts, e) ELSE a.firsts
    <3> HIDE DEF e
    <3> QED BY <1>2, <1>3, <1>4, <2>1, ProcessedFields
  <2>3. Order(g) = Order(a)
    <3>1. CASE e \in Range(a.firsts)
      BY <1>2, <2>2, <3>1 DEF Order
    <3>2. CASE e \notin Range(a.firsts)
      <4>1. Joined(Append(a.firsts, e), f.cache) = Joined(a.firsts, f.cache)
        BY <1>1, <1>2, <1>6, <3>2, JoinedAhead
      <4> QED BY <1>2, <2>2, <3>2, <4>1 DEF Order
    <3> QED BY <3>1, <3>2
  <2> DEFINE b == a.firsts
  <2>4. Range(g.firsts) = Range(b) \union {e} /\ Len(g.firsts) >= Len(b)
    <3> HIDE DEF e, g
    <3>1. Range(Append(b, e)) = Range(b) \union {e} /\ Len(Append(b, e)) = Len(b) + 1
      BY <1>2, <1>3, RangeFacts
    <3>2. Len(b) \in Nat
      BY <1>2
    <3> HIDE DEF b
    <3>3. CASE e \in Range(b)
      BY <2>2, <3>2, <3>3 DEF b
    <3>4. CASE e \notin Range(b)
      BY <2>2, <3>1, <3>2, <3>4 DEF b
    <3> QED BY <3>3, <3>4
  <2>5. Len(g.firsts) >= Len(f.firsts)
    <3>1. Len(g.firsts) \in Nat
      <4>1. g \in FeedbackState
        BY <1>5 DEF Good
      <4> HIDE DEF g
      <4> QED BY <4>1, FieldTypes
    <3> QED BY <1>1, <1>2, <1>6, <2>4, <3>1
  <2>6. \A i \in 1 .. n : f.cache[i] \in Range(g.firsts)
    <3>1. \A i \in 1 .. n : i = n \/ i \in 1 .. n - 1
      OBVIOUS
    <3> QED BY <1>6, <2>4, <3>1
  <2>7. /\ Range(f.firsts) \subseteq Range(g.firsts)
        /\ Range(g.firsts) \subseteq Done(f)
    BY <1>6, <1>7, <2>4
  <2> HIDE DEF g
  <2>8. Loop(f, n, g)
    BY <1>5, <1>6, <2>2, <2>3, <2>5, <2>6, <2>7 DEF Loop
  <2> QED BY <2>8 DEF g, e
<1> QED BY <1>8, <1>9

\* The loop ends with what it keeps.
LEMMA ResentLoop ==
  ASSUME NEW f, Good(f)
  PROVE  Loop(f, Len(f.cache), Resent(f))
<1> DEFINE F == Resend(f)
           I == {z \in Nat \X FeedbackState : Loop(f, z[1], z[2])}
<1>1. /\ f \in FeedbackState /\ f.cache \in Seq(Requests)
      /\ Len(f.cache) \in Nat /\ Len(f.firsts) \in Nat /\ f.ctr \in Nat
  BY FieldTypes DEF Good
<1>2. Steps(F, FeedbackState, Requests)
  <2>1. ASSUME NEW z \in FeedbackState \X Requests
        PROVE  (IF Grew(f, z[1]) THEN z[1] ELSE Feedback(z[1], z[2])) \in FeedbackState
    <3>1. ASSUME NEW a \in FeedbackState, NEW r \in Requests
          PROVE  Feedback(a, r) \in FeedbackState
      BY CachedFields, ProcessedFields DEF Feedback
    <3> QED BY <3>1
  <2> QED BY <2>1 DEF Resend, Steps
<1>3. \A a \in FeedbackState, r \in Requests :
         F[<<a, r>>] = IF Grew(f, a) THEN a ELSE Feedback(a, r)
  BY DEF Resend
<1>4. <<0, f>> \in I
  <2>1. CountersKept(f, f)
    BY <1>1 DEF CountersKept
  <2>2. Loop(f, 0, f)
    BY <1>1, <2>1 DEF Loop, Done
  <2> QED BY <1>1, <2>2
<1>5. \A n \in 1 .. Len(f.cache) : \A a \in FeedbackState :
         <<n - 1, a>> \in I => <<n, F[<<a, f.cache[n]>>]>> \in I
  <2>1. SUFFICES ASSUME NEW n \in 1 .. Len(f.cache), NEW a \in FeedbackState,
                        Loop(f, n - 1, a)
                 PROVE  <<n, F[<<a, f.cache[n]>>]>> \in I
    OBVIOUS
  <2>2. f.cache[n] \in Requests /\ n \in Nat
    BY <1>1
  <2>3. CASE Grew(f, a)
    <3>1. F[<<a, f.cache[n]>>] = a
      BY <1>3, <2>2, <2>3
    <3>2. Loop(f, n, a)
      BY <2>1, <2>3 DEF Loop
    <3> QED BY <2>2, <3>1, <3>2
  <2>4. CASE ~Grew(f, a)
    <3>1. F[<<a, f.cache[n]>>] = Feedback(a, f.cache[n])
      BY <1>3, <2>2, <2>4
    <3>2. Loop(f, n, Feedback(a, f.cache[n]))
      BY <2>1, <2>4, LoopTurn
    <3>3. Feedback(a, f.cache[n]) \in FeedbackState
      BY <3>2 DEF Loop, Good
    <3> QED BY <2>2, <3>1, <3>2, <3>3
  <2> QED BY <2>3, <2>4
<1> HIDE DEF F, I
<1>6. <<Len(f.cache), Fold(F, f, f.cache)>> \in I
  BY <1>1, <1>2, <1>4, <1>5, FoldInvariant
<1> QED BY <1>6 DEF I, F, Resent

-----------------------------------------------------------------------------
(* Sequences without repetition, and their first member. *)

NoRepeat(s) == \A i, j \in 1 .. Len(s) : s[i] = s[j] => i = j

LEMMA NoRepeatAppend ==
  ASSUME NEW U, NEW s \in Seq(U), NEW e \in U, NoRepeat(s), e \notin Range(s)
  PROVE  NoRepeat(Append(s, e))
<1> DEFINE t == Append(s, e)
<1>1. /\ Len(t) = Len(s) + 1 /\ Len(s) \in Nat /\ t[Len(s) + 1] = e
      /\ \A i \in 1 .. Len(s) : t[i] = s[i] /\ s[i] # e
  BY DEF Range
<1> HIDE DEF t
<1>2. ASSUME NEW i \in 1 .. Len(t), NEW j \in 1 .. Len(t), t[i] = t[j] PROVE i = j
  <2>1. CASE i \in 1 .. Len(s) /\ j \in 1 .. Len(s)
    BY <1>1, <1>2, <2>1 DEF NoRepeat
  <2>2. CASE i = Len(s) + 1 \/ j = Len(s) + 1
    BY <1>1, <1>2, <2>2
  <2> QED BY <1>1, <2>1, <2>2
<1> QED BY <1>2 DEF NoRepeat, t

LEMMA FirstAndRest ==
  ASSUME NEW U, NEW s \in Seq(U), s # <<>>
  PROVE  /\ Head(s) \in U /\ Tail(s) \in Seq(U)
         /\ Range(s) = {Head(s)} \union Range(Tail(s))
         /\ NoRepeat(s) => NoRepeat(Tail(s)) /\ Head(s) \notin Range(Tail(s))
<1> DEFINE t == Tail(s)
<1>1. /\ Head(s) \in U /\ t \in Seq(U) /\ Len(s) \in Nat \ {0} /\ Len(t) = Len(s) - 1
      /\ Head(s) = s[1] /\ \A i \in 1 .. Len(t) : t[i] = s[i + 1]
  OBVIOUS
<1>2. DOMAIN s = 1 .. Len(s) /\ DOMAIN t = 1 .. Len(t)
  BY <1>1
<1> HIDE DEF t
<1>3. Range(s) \subseteq {Head(s)} \union Range(t)
  <2>1. ASSUME NEW i \in 1 .. Len(s) PROVE s[i] \in {Head(s)} \union Range(t)
    <3>1. CASE i = 1
      BY <1>1, <3>1
    <3>2. CASE i # 1
      <4>1. i - 1 \in 1 .. Len(t) /\ (i - 1) + 1 = i
        BY <1>1, <3>2
      <4>2. t[i - 1] = s[i]
        BY <1>1, <4>1
      <4> QED BY <1>2, <4>1, <4>2 DEF Range
    <3> QED BY <3>1, <3>2
  <2> QED BY <1>2, <2>1 DEF Range
<1>4. {Head(s)} \union Range(t) \subseteq Range(s)
  <2>1. \A i \in 1 .. Len(t) : i + 1 \in 1 .. Len(s) /\ 1 \in 1 .. Len(s)
    BY <1>1
  <2>2. \A i \in 1 .. Len(t) : t[i] \in Range(s)
    BY <1>1, <1>2, <2>1 DEF Range
  <2>3. s[1] \in Range(s)
    BY <1>1, <1>2 DEF Range
  <2> QED BY <1>1, <1>2, <2>2, <2>3 DEF Range
<1>5. ASSUME NoRepeat(s) PROVE NoRepeat(t) /\ Head(s) \notin Range(t)
  <2>1. \A i, j \in 1 .. Len(t) : t[i] = t[j] => i = j
    <3>1. \A i \in 1 .. Len(t) : i + 1 \in 1 .. Len(s)
      BY <1>1
    <3>2. \A i, j \in 1 .. Len(t) : t[i] = t[j] => i + 1 = j + 1
      BY <1>1, <1>5, <3>1 DEF NoRepeat
    <3> QED BY <1>1, <3>2
  <2>2. \A i \in 1 .. Len(t) : t[i] # s[1]
    <3>1. \A i \in 1 .. Len(t) : i + 1 \in 1 .. Len(s) /\ i + 1 # 1 /\ 1 \in 1 .. Len(s)
      BY <1>1
    <3> QED BY <1>1, <1>5, <3>1 DEF NoRepeat
  <2> QED BY <1>1, <1>2, <2>1, <2>2 DEF NoRepeat, Range
<1> QED BY <1>1, <1>3, <1>4, <1>5 DEF t

LEMMA ConcatRange ==
  ASSUME NEW U, NEW s \in Seq(U), NEW t \in Seq(U)
  PROVE  s \o t \in Seq(U) /\ Range(s \o t) = Range(s) \union Range(t)
BY RangeConcatenation

-----------------------------------------------------------------------------
(* What a clock completes. *)

\* Whatever is cached has been answered before, or there is no space to answer
\* anything else.
Settled(f) == Range(f.cache) \subseteq Range(f.firsts) \/ Len(f.tx) >= TxMax

\* From f to g the requests of o have been completed in this order.
Took(f, g, o) ==
  /\ Good(g)
  /\ Order(g) = Order(f) \o o
  /\ Done(g) = Done(f) \union Range(o)
  /\ Len(g.firsts) >= Len(f.firsts)
  /\ CountersKept(f, g)

ResponseOf(r) == IF Responds(r) THEN <<r>> ELSE <<>>

LEMMA OrderType ==
  ASSUME NEW f \in FeedbackState
  PROVE  /\ Order(f) \in Seq(Requests)
         /\ Range(Order(f)) = Done(f)
         /\ Len(f.firsts) <= Len(Order(f))
         /\ Range(f.cache) \subseteq Range(f.firsts) => Order(f) = f.firsts
<1>1. f.firsts \in Seq(Requests) /\ f.cache \in Seq(Requests)
  BY FieldTypes
<1>2. Joined(f.firsts, f.cache) \in Seq(Requests)
  BY <1>1, JoinedIn
<1>3. /\ Range(Joined(f.firsts, f.cache)) = Range(f.firsts) \union Range(f.cache)
      /\ Len(Joined(f.firsts, f.cache)) >= Len(f.firsts)
      /\ Range(f.cache) \subseteq Range(f.firsts) => Joined(f.firsts, f.cache) = f.firsts
  BY <1>1, JoinedFacts
<1>4. Len(f.firsts) \in Nat /\ Len(Order(f)) \in Nat
  BY <1>1, <1>2 DEF Order
<1> QED BY <1>2, <1>3, <1>4 DEF Order, Done

LEMMA TookTransitive ==
  ASSUME NEW f, NEW g, NEW h, NEW o \in Seq(Requests), NEW p \in Seq(Requests),
         Good(f), Took(f, g, o), Took(g, h, p)
  PROVE  Took(f, h, o \o p)
<1>1. f \in FeedbackState /\ g \in FeedbackState /\ h \in FeedbackState
  BY DEF Good, Took
<1>2. CountersKept(f, h)
  BY <1>1, CountersTransitive DEF Took
<1>3. Len(f.firsts) \in Nat /\ Len(g.firsts) \in Nat /\ Len(h.firsts) \in Nat
  BY <1>1, FieldTypes
<1>4. Len(h.firsts) >= Len(f.firsts)
  BY <1>3 DEF Took
<1>5. Order(f) \in Seq(Requests)
  BY <1>1, OrderType
<1>6. (Order(f) \o o) \o p = Order(f) \o (o \o p)
  BY <1>5, ConcatAssociative
<1>7. Range(o \o p) = Range(o) \union Range(p)
  BY ConcatRange
<1> QED BY <1>2, <1>4, <1>6, <1>7 DEF Took

\* A request that was not completed before is completed last.
LEMMA FeedbackNew ==
  ASSUME NEW f, Good(f), Settled(f), NEW r \in Requests, r \notin Done(f)
  PROVE  Took(f, Feedback(f, r), ResponseOf(r)) /\ Settled(Feedback(f, r))
<1> DEFINE g == Feedback(f, r)
           o == ResponseOf(r)
<1>1. /\ f \in FeedbackState /\ f.cache \in Seq(Requests) /\ f.firsts \in Seq(Requests)
      /\ f.tx \in Seq(Requests) /\ Len(f.firsts) \in Nat /\ Order(f) \in Seq(Requests)
      /\ Range(Order(f)) = Done(f)
  BY FieldTypes, OrderType DEF Good
<1>2. Good(g) /\ CountersKept(f, g) /\ g \in FeedbackState
  BY FeedbackGood DEF Good
<1>3. Len(f.tx) \in Nat /\ TxMax \in Nat
  BY <1>1, BobsimAssumption
<1>4. /\ Order(f) \o <<>> = Order(f)
      /\ Order(f) \o <<r>> = Append(Order(f), r)
      /\ Range(<<r>>) = {r} /\ Range(<<>>) = {}
  BY <1>1 DEF Range
<1>5. r \notin Range(f.firsts)
  BY DEF Done
<1>6. CASE Refused(f, r)
  <2>1. g = Cached(f, r) /\ o = <<r>> /\ Len(f.tx) >= TxMax
    BY <1>3, <1>6 DEF Feedback, ResponseOf, Refused, Stalls, Responds
  <2> HIDE DEF g, o
  <2>2. g.cache = Append(f.cache, r) /\ g.firsts = f.firsts /\ g.tx = f.tx
    BY <1>1, <2>1, CachedFields
  <2>3. Order(g) = Append(Order(f), r)
    <3>1. Joined(f.firsts, Append(f.cache, r)) =
            IF r \in Range(Joined(f.firsts, f.cache)) THEN Joined(f.firsts, f.cache)
            ELSE Append(Joined(f.firsts, f.cache), r)
      BY <1>1, OrderAppend, Zenon
    <3> QED BY <1>1, <2>2, <3>1 DEF Order
  <2>4. Done(g) = Done(f) \union {r}
    <3>1. Range(g.cache) = Range(f.cache) \union {r}
      BY <1>1, <2>2, RangeFacts
    <3> QED BY <2>2, <3>1 DEF Done
  <2>5. Took(f, g, o)
    <3>1. Order(g) = Order(f) \o o /\ Range(o) = {r}
      BY <1>4, <2>1, <2>3, Zenon
    <3>2. Len(g.firsts) >= Len(f.firsts)
      BY <1>1, <2>2
    <3> QED BY <1>2, <2>4, <3>1, <3>2 DEF Took
  <2>6. Settled(g)
    BY <2>1, <2>2 DEF Settled
  <2> QED BY <2>5, <2>6 DEF g, o
<1>7. CASE ~Refused(f, r) /\ Responds(r)
  <2>1. g = Processed(f, r) /\ o = <<r>> /\ ~(Len(f.tx) >= TxMax)
    BY <1>3, <1>7 DEF Feedback, ResponseOf, Refused, Stalls, Responds
  <2> HIDE DEF g, o
  <2>2. g.cache = f.cache /\ g.firsts = Append(f.firsts, r)
    BY <1>1, <1>5, <1>7, <2>1, ProcessedFields
  <2>3. Range(f.cache) \subseteq Range(f.firsts)
    BY <2>1 DEF Settled
  <2>4. Range(g.firsts) = Range(f.firsts) \union {r} /\ Len(g.firsts) = Len(f.firsts) + 1
    BY <1>1, <2>2, RangeFacts
  <2>5. Order(g) = Append(Order(f), r)
    <3>1. Order(f) = f.firsts
      BY <1>1, <2>3, OrderType
    <3>2. Order(g) = g.firsts
      BY <1>2, <2>2, <2>3, <2>4, OrderType
    <3> QED BY <2>2, <3>1, <3>2
  <2>6. Done(g) = Done(f) \union {r}
    BY <2>2, <2>4 DEF Done
  <2>7. Took(f, g, o)
    BY <1>1, <1>2, <1>4, <2>1, <2>4, <2>5, <2>6 DEF Took
  <2>8. Settled(g)
    BY <2>2, <2>3, <2>4 DEF Settled
  <2> QED BY <2>7, <2>8 DEF g, o
<1>8. CASE ~Responds(r)
  <2>1. g = Processed(f, r) /\ o = <<>>
    BY <1>8 DEF Feedback, ResponseOf, Refused, Stalls, Responds
  <2> HIDE DEF g, o
  <2>2. g.cache = f.cache /\ g.firsts = f.firsts /\ g.tx = f.tx
    BY <1>1, <1>8, <2>1, ProcessedFields
  <2>3. Took(f, g, o)
    BY <1>1, <1>2, <1>4, <2>1, <2>2 DEF Took, Order, Done
  <2>4. Settled(g)
    BY <2>2 DEF Settled
  <2> QED BY <2>3, <2>4 DEF g, o
<1> QED BY <1>6, <1>7, <1>8

\* Sending the cache again completes nothing.
LEMMA ResentTook ==
  ASSUME NEW f, Good(f)
  PROVE  Took(f, Resent(f), <<>>) /\ (~Grew(f, Resent(f)) => Settled(Resent(f)))
<1> DEFINE g == Resent(f)
<1>1. Loop(f, Len(f.cache), g)
  BY ResentLoop
<1> HIDE DEF g
<1>2. Order(f) \in Seq(Requests) /\ f.cache \in Seq(Requests)
  BY OrderType, FieldTypes DEF Good
<1>3. Order(f) \o <<>> = Order(f) /\ Range(<<>>) = {}
  BY <1>2 DEF Range
<1>4. Done(g) = Done(f)
  BY <1>1 DEF Loop, Done
<1>5. Took(f, g, <<>>)
  BY <1>1, <1>3, <1>4 DEF Loop, Took
<1>6. ASSUME ~Grew(f, g) PROVE Settled(g)
  <2>1. g.cache = f.cache /\ \A i \in 1 .. Len(f.cache) : f.cache[i] \in Range(g.firsts)
    BY <1>1, <1>6 DEF Loop
  <2>2. \A i \in DOMAIN f.cache : f.cache[i] \in Range(g.firsts)
    BY <1>2, <2>1
  <2>3. Range(f.cache) \subseteq Range(g.firsts)
    BY <2>2 DEF Range
  <2> QED BY <2>1, <2>3 DEF Settled
<1> QED BY <1>5, <1>6 DEF g

LEMMA ClockCountedTook ==
  ASSUME NEW f, Good(f)
  PROVE  Took(f, ClockCounted(f), <<>>)
<1> DEFINE g == ClockCounted(f)
<1>1. Good(g) /\ CountersKept(f, g) /\ g.firsts = f.firsts /\ g.cache = f.cache
  BY ClockCountedGood
<1> HIDE DEF g
<1>2. Order(f) \in Seq(Requests) /\ Len(f.firsts) \in Nat
  BY OrderType, FieldTypes DEF Good
<1>3. Order(f) \o <<>> = Order(f) /\ Range(<<>>) = {}
  BY <1>2 DEF Range
<1>4. Took(f, g, <<>>)
  BY <1>1, <1>2, <1>3 DEF Took, Order, Done
<1> QED BY <1>4 DEF g

\* The responses of what one Update completes, in their order.
Completing(w, returned) ==
  (IF w = {} THEN <<>> ELSE ResponseOf(CHOOSE r \in w : TRUE))
    \o (IF returned THEN <<Head(reads)>> ELSE <<>>)

-----------------------------------------------------------------------------
(* The inductive invariant. *)

\* A request is in one place only, and reads are not among the writes.
Placed ==
  /\ NoRepeat(rx) /\ NoRepeat(reads)
  /\ Range(rx) \subseteq Range(sent)
  /\ Inside \subseteq Range(sent)
  /\ Done(fb) \subseteq Range(sent)
  /\ Range(rx) \intersect Inside = {}
  /\ Range(rx) \intersect Done(fb) = {}
  /\ Inside \intersect Done(fb) = {}
  /\ \A r \in Range(reads) : IsRead(r)
  /\ \A r \in writes : ~IsRead(r)

Posted == \E r \in Range(sent) : ~Responds(r)

\* A countdown is only ever started by a request without response.
CountdownPosted == fb.ctr > 0 => Posted

IInv ==
  /\ TypeOK
  /\ Placed
  /\ CountdownNotified
  /\ CountdownPosted
  /\ NothingForgotten
  /\ ReadsInOrder

-----------------------------------------------------------------------------
(* A clock. *)

LEMMA CalledBackTook ==
  ASSUME TypeOK, Placed, NEW f, Good(f), Settled(f), Done(f) = Done(fb),
         NEW w \in Completions, NEW returned \in BOOLEAN, returned => reads # <<>>
  PROVE  Took(f, CalledBack(f, w, returned), Completing(w, returned))
<1> DEFINE q == CHOOSE r \in w : TRUE
           g == IF w = {} THEN f ELSE Feedback(f, q)
           o == IF w = {} THEN <<>> ELSE ResponseOf(q)
           p == IF returned THEN <<Head(reads)>> ELSE <<>>
           h == IF returned THEN Feedback(g, Head(reads)) ELSE g
<1>1. CalledBack(f, w, returned) = h
  BY DEF CalledBack
<1>2. Completing(w, returned) = o \o p
  BY DEF Completing
<1>3. Order(f) \in Seq(Requests) /\ Len(f.firsts) \in Nat /\ f.ctr \in Nat
  BY OrderType, FieldTypes DEF Good
<1>4. CountersKept(f, f)
  BY <1>3 DEF CountersKept
<1>5. Took(f, f, <<>>)
  <2>1. Order(f) \o <<>> = Order(f) /\ Range(<<>>) = {}
    BY <1>3 DEF Range
  <2> QED BY <1>3, <1>4, <2>1 DEF Took
<1>6. /\ Took(f, g, o) /\ Settled(g) /\ o \in Seq(Requests)
      /\ Done(g) \subseteq Done(f) \union writes
  <2>1. CASE w = {}
    <3>1. g = f /\ o = <<>>
      BY <2>1
    <3> HIDE DEF g, o
    <3> QED BY <1>5, <3>1
  <2>2. CASE w # {}
    <3>1. q \in writes /\ g = Feedback(f, q) /\ o = ResponseOf(q)
      BY <2>2 DEF Completions
    <3>2. q \in Requests /\ q \notin Done(f)
      BY <3>1 DEF TypeOK, Placed, Inside
    <3> HIDE DEF g, o, q
    <3>3. Took(f, Feedback(f, q), ResponseOf(q)) /\ Settled(Feedback(f, q))
      BY <3>2, FeedbackNew
    <3>4. ResponseOf(q) \in Seq(Requests) /\ Range(ResponseOf(q)) \subseteq {q}
      BY <3>2 DEF ResponseOf, Range
    <3>5. Done(Feedback(f, q)) = Done(f) \union Range(ResponseOf(q))
      BY <3>3 DEF Took
    <3> QED BY <3>1, <3>3, <3>4, <3>5
  <2> QED BY <2>1, <2>2
<1>7. Took(g, h, p) /\ p \in Seq(Requests)
  <2>1. CASE returned
    <3> DEFINE r == Head(reads)
    <3>1. reads \in Seq(Requests) /\ reads # <<>>
      BY <2>1 DEF TypeOK
    <3>2. r \in Requests /\ r \in Range(reads)
      BY <3>1, FirstAndRest
    <3>3. IsRead(r) /\ r \notin writes /\ r \notin Done(f)
      BY <3>2 DEF Placed, Inside
    <3>4. Responds(r)
      BY <3>2, <3>3, RequestFacts
    <3>5. h = Feedback(g, r) /\ p = <<r>> /\ ResponseOf(r) = <<r>>
      BY <2>1, <3>4 DEF ResponseOf
    <3> HIDE DEF g, h, o, p, r
    <3>6. Good(g)
      BY <1>6 DEF Took
    <3>7. Took(g, Feedback(g, r), ResponseOf(r))
      BY <1>6, <3>2, <3>3, <3>6, FeedbackNew
    <3> QED BY <3>2, <3>5, <3>7
  <2>2. CASE ~returned
    <3>1. h = g /\ p = <<>>
      BY <2>2
    <3> HIDE DEF g, h, o, p
    <3>2. Good(g)
      BY <1>6 DEF Took
    <3>3. Order(g) \in Seq(Requests) /\ Len(g.firsts) \in Nat /\ g.ctr \in Nat
      BY <3>2, OrderType, FieldTypes DEF Good
    <3>4. CountersKept(g, g)
      BY <3>3 DEF CountersKept
    <3>5. Order(g) \o <<>> = Order(g) /\ Range(<<>>) = {}
      BY <3>3 DEF Range
    <3>6. Took(g, g, <<>>)
      BY <3>2, <3>3, <3>4, <3>5 DEF Took
    <3> QED BY <3>1, <3>6
  <2> QED BY <2>1, <2>2
<1> HIDE DEF g, h, o, p
<1>8. Took(f, h, o \o p)
  BY <1>6, <1>7, TookTransitive
<1> QED BY <1>1, <1>2, <1>8

\* The inputs of a clock: what the guards of Clock say of them.
Clocked(w, returned) ==
  /\ w \in Completions /\ returned \in BOOLEAN
  /\ w # {} \/ returned => Runs
  /\ returned => reads # <<>>

LEMMA ClockTook ==
  ASSUME TypeOK, Placed, NEW w, NEW returned, Clocked(w, returned)
  PROVE  /\ Took(fb, FeedbackAfter(w, returned), Completing(w, returned))
         /\ Completing(w, returned) \in Seq(Requests)
<1> DEFINE a == Resent(fb)
           o == Completing(w, returned)
<1>1. Good(fb) /\ w \in Completions /\ returned \in BOOLEAN
  BY DEF TypeOK, Good, Clocked
<1>2. Took(fb, a, <<>>) /\ (~Grew(fb, a) => Settled(a))
  BY <1>1, ResentTook
<1>3. Good(a) /\ Done(a) = Done(fb)
  BY <1>2 DEF Took, Range
<1>4. o \in Seq(Requests)
  <2>1. returned => Head(reads) \in Requests
    <3>1. reads \in Seq(Requests)
      BY DEF TypeOK
    <3> QED BY <3>1 DEF Clocked
  <2>2. w # {} => (CHOOSE r \in w : TRUE) \in Requests
    BY <1>1 DEF Completions, TypeOK
  <2>3. (IF w = {} THEN <<>> ELSE ResponseOf(CHOOSE r \in w : TRUE)) \in Seq(Requests)
    BY <2>2 DEF ResponseOf
  <2>4. (IF returned THEN <<Head(reads)>> ELSE <<>>) \in Seq(Requests)
    BY <2>1
  <2> QED BY <2>3, <2>4 DEF Completing
<1>5. <<>> \in Seq(Requests) /\ o \o <<>> = o /\ <<>> \o o = o /\ <<>> \o <<>> = <<>>
  BY <1>4
<1>6. ASSUME ~Runs PROVE o = <<>>
  <2>1. w = {} /\ ~returned
    BY <1>6 DEF Clocked
  <2> QED BY <2>1 DEF Completing
<1> DEFINE g == FeedbackAfter(w, returned)
<1>7. CASE Idle
  <2>1. g = fb /\ o = <<>>
    BY <1>6, <1>7 DEF FeedbackAfter, Runs
  <2> HIDE DEF g, o
  <2>2. Order(fb) \in Seq(Requests) /\ Len(fb.firsts) \in Nat /\ fb.ctr \in Nat
    BY <1>1, OrderType, FieldTypes DEF Good
  <2>3. CountersKept(fb, fb)
    BY <2>2 DEF CountersKept
  <2>4. Order(fb) \o <<>> = Order(fb) /\ Range(<<>>) = {}
    BY <2>2 DEF Range
  <2>5. Took(fb, fb, <<>>)
    BY <1>1, <2>2, <2>3, <2>4 DEF Took
  <2> QED BY <1>4, <2>1, <2>5 DEF g, o
<1>8. CASE ~Idle /\ Runs
  <2> DEFINE c == CalledBack(a, w, returned)
  <2>1. g = ClockCounted(c)
    BY <1>8 DEF FeedbackAfter
  <2>2. Settled(a)
    BY <1>2, <1>8 DEF Runs
  <2> HIDE DEF a, o
  <2>3. Took(a, c, o)
    BY <1>1, <1>3, <2>2, CalledBackTook DEF Clocked, o
  <2> HIDE DEF c, g
  <2>4. Took(c, ClockCounted(c), <<>>)
    BY <2>3, ClockCountedTook DEF Took
  <2>5. Took(fb, c, o)
    <3>1. Took(fb, c, <<>> \o o)
      BY <1>1, <1>2, <1>4, <1>5, <2>3, TookTransitive
    <3> QED BY <1>5, <3>1
  <2>6. Took(fb, ClockCounted(c), o)
    <3>1. Took(fb, ClockCounted(c), o \o <<>>)
      BY <1>1, <1>4, <1>5, <2>4, <2>5, TookTransitive
    <3> QED BY <1>5, <3>1
  <2> QED BY <1>4, <2>1, <2>6 DEF g, o
<1>9. CASE ~Idle /\ ~Runs
  <2>1. g = ClockCounted(a) /\ o = <<>>
    BY <1>6, <1>9 DEF FeedbackAfter
  <2> HIDE DEF a, g, o
  <2>2. Took(a, ClockCounted(a), <<>>)
    BY <1>3, ClockCountedTook
  <2>3. Took(fb, ClockCounted(a), <<>>)
    <3>1. Took(fb, ClockCounted(a), <<>> \o <<>>)
      BY <1>1, <1>2, <1>5, <2>2, TookTransitive
    <3> QED BY <1>5, <3>1
  <2> QED BY <1>4, <2>1, <2>3 DEF g, o
<1> QED BY <1>7, <1>8, <1>9

\* The requests inside the DRAM simulator that leave it in a clock, and the
\* reads that stay.
Leaving(w, returned) == w \union (IF returned THEN {Head(reads)} ELSE {})

Staying(returned) == IF returned THEN Tail(reads) ELSE reads

LEMMA LeavingFacts ==
  ASSUME TypeOK, Placed, NEW w, NEW returned, Clocked(w, returned)
  PROVE  /\ Leaving(w, returned) \subseteq Inside
         /\ Staying(returned) \in Seq(Requests) /\ NoRepeat(Staying(returned))
         /\ Range(Staying(returned)) \subseteq Range(reads)
         /\ Range(Staying(returned)) \union (writes \ w) = Inside \ Leaving(w, returned)
         /\ Range(Completing(w, returned)) = {r \in Leaving(w, returned) : Responds(r)}
<1> DEFINE q == CHOOSE r \in w : TRUE
           o == IF w = {} THEN <<>> ELSE ResponseOf(q)
           p == IF returned THEN <<Head(reads)>> ELSE <<>>
           lr == IF returned THEN {Head(reads)} ELSE {}
           rs == Staying(returned)
<1>1. /\ reads \in Seq(Requests) /\ writes \subseteq Requests /\ NoRepeat(reads)
      /\ w \in Completions /\ returned \in BOOLEAN /\ (returned => reads # <<>>)
      /\ \A r \in Range(reads) : IsRead(r) /\ r \in Requests
      /\ \A r \in writes : ~IsRead(r)
  <2>1. Range(reads) \subseteq Requests
    BY RangeFacts DEF TypeOK
  <2> QED BY <2>1 DEF TypeOK, Placed, Clocked
<1>2. /\ o \in Seq(Requests) /\ w \subseteq writes
      /\ Range(o) = {r \in w : Responds(r)}
  <2>1. CASE w = {}
    <3>1. o = <<>> /\ Range(<<>>) = {}
      BY <2>1 DEF Range
    <3> QED BY <2>1, <3>1
  <2>2. CASE w # {}
    <3>1. w = {q} /\ q \in writes /\ o = ResponseOf(q)
      BY <1>1, <2>2 DEF Completions
    <3> HIDE DEF q, o
    <3>2. q \in Requests
      BY <1>1, <3>1
    <3>3. ResponseOf(q) \in Seq(Requests)
      BY <3>2 DEF ResponseOf
    <3>4. Range(ResponseOf(q)) = IF Responds(q) THEN {q} ELSE {}
      BY <3>2 DEF ResponseOf, Range
    <3> QED BY <3>1, <3>3, <3>4
  <2> QED BY <2>1, <2>2
<1>3. /\ p \in Seq(Requests) /\ rs \in Seq(Requests) /\ NoRepeat(rs)
      /\ Range(p) = lr /\ lr \subseteq Range(reads)
      /\ Range(rs) = Range(reads) \ lr
  <2>1. CASE returned
    <3>1. /\ Head(reads) \in Requests /\ Tail(reads) \in Seq(Requests)
          /\ Range(reads) = {Head(reads)} \union Range(Tail(reads))
          /\ NoRepeat(Tail(reads)) /\ Head(reads) \notin Range(Tail(reads))
      BY <1>1, <2>1, FirstAndRest
    <3>2. p = <<Head(reads)>> /\ rs = Tail(reads) /\ lr = {Head(reads)}
      BY <2>1 DEF Staying
    <3> HIDE DEF p, rs, lr
    <3>3. p \in Seq(Requests) /\ Range(p) = lr
      BY <3>1, <3>2 DEF Range
    <3> QED BY <3>1, <3>2, <3>3
  <2>2. CASE ~returned
    <3>1. p = <<>> /\ rs = reads /\ lr = {} /\ Range(<<>>) = {}
      BY <2>2 DEF Staying, Range
    <3> HIDE DEF p, rs, lr
    <3> QED BY <1>1, <3>1
  <2> QED BY <1>1, <2>1, <2>2
<1>4. Completing(w, returned) = o \o p /\ Leaving(w, returned) = w \union lr
  BY DEF Completing, Leaving
<1> HIDE DEF o, p, rs, lr
<1>5. Range(o \o p) = Range(o) \union Range(p)
  BY <1>2, <1>3, ConcatRange
<1>6. \A r \in lr : Responds(r)
  BY <1>1, <1>3, RequestFacts
<1>7. Range(o \o p) = {r \in w \union lr : Responds(r)}
  BY <1>2, <1>3, <1>5, <1>6
<1>8. Range(rs) \union (writes \ w) = Inside \ (w \union lr)
  BY <1>1, <1>2, <1>3 DEF Inside
<1> QED BY <1>2, <1>3, <1>4, <1>7, <1>8 DEF Inside, rs

\* What a request taken from the buffer of the link changes.
Taken(g, rs, ws) ==
  /\ rx # <<>> /\ rx' = Tail(rx)
  /\ reads' = IF IsRead(Head(rx)) THEN Append(rs, Head(rx)) ELSE rs
  /\ writes' = IF IsRead(Head(rx)) THEN ws ELSE ws \union {Head(rx)}
  /\ fb'.notified = TRUE /\ fb'.ctr = Countdown(g, Head(rx))

NotTaken(g, rs, ws) == rx' = rx /\ reads' = rs /\ writes' = ws /\ fb' = g

LEMMA ClockEffects ==
  ASSUME TypeOK, Placed, NEW w, NEW returned, Clocked(w, returned), Clock(w, returned)
  PROVE  /\ sent' = sent /\ port' \in Nat
         /\ Good(fb')
         /\ Order(fb') = Order(fb) \o Completing(w, returned)
         /\ Done(fb') = Done(fb) \union Range(Completing(w, returned))
         /\ Len(fb'.firsts) >= Len(fb.firsts)
         /\ \/ Taken(FeedbackAfter(w, returned), Staying(returned), writes \ w)
            \/ NotTaken(FeedbackAfter(w, returned), Staying(returned), writes \ w)
<1> DEFINE g == FeedbackAfter(w, returned)
           rs == Staying(returned)
           ws == writes \ w
<1>1. Took(fb, g, Completing(w, returned))
  BY ClockTook
<1>2. sent' = sent /\ (Accept(g, rs, ws) \/ NoAccept(g, rs, ws))
  BY DEF Clock, Staying
<1>3. port \in Nat /\ rx \in Seq(Requests)
  BY DEF TypeOK
<1>4. PortAfter \in Nat
  BY <1>3 DEF PortAfter
<1> HIDE DEF g, rs, ws
<1>5. CASE Accept(g, rs, ws)
  <2> DEFINE h == Head(rx)
             ct == Countdown(g, h)
  <2>1. h \in Requests
    BY <1>3, <1>5 DEF Accept
  <2>2. port' \in Nat
    BY <1>5, <2>1, RequestFacts DEF Accept
  <2>3. g \in FeedbackState /\ g.ctr \in 0 .. CtrMax /\ CtrMax \in Nat
    BY <1>1, FieldTypes, BobsimAssumption DEF Took, Good
  <2>4. ct \in 0 .. CtrMax
    BY <2>3 DEF Countdown
  <2>5. fb' = [g EXCEPT !.notified = TRUE, !.ctr = ct]
    BY <1>5 DEF Accept
  <2> HIDE DEF ct, h
  <2>6. /\ fb' \in FeedbackState /\ fb'.tx = g.tx /\ fb'.cache = g.cache
        /\ fb'.firsts = g.firsts /\ fb'.ctr = ct /\ fb'.notified = TRUE
    BY <2>3, <2>4, <2>5 DEF FeedbackState
  <2>7. Good(fb')
    BY <1>1, <2>6 DEF Took, Good
  <2>8. Order(fb') = Order(g) /\ Done(fb') = Done(g)
    BY <2>6 DEF Order, Done
  <2>9. Taken(g, rs, ws)
    BY <1>5, <2>6 DEF Accept, Taken, ct, h
  <2> QED BY <1>1, <1>2, <2>2, <2>6, <2>7, <2>8, <2>9 DEF Took, g, rs, ws
<1>6. CASE NoAccept(g, rs, ws)
  <2>1. fb' = g /\ port' \in Nat /\ NotTaken(g, rs, ws)
    BY <1>4, <1>6 DEF NoAccept, NotTaken
  <2> QED BY <1>1, <1>2, <2>1 DEF Took, g, rs, ws
<1> QED BY <1>2, <1>5, <1>6

\* The first of the receive buffer.
LEMMA NextRequest ==
  ASSUME TypeOK, Placed, rx # <<>>
  PROVE  /\ Head(rx) \in Requests /\ Tail(rx) \in Seq(Requests)
         /\ Range(rx) = {Head(rx)} \union Range(Tail(rx))
         /\ NoRepeat(Tail(rx)) /\ Head(rx) \notin Range(Tail(rx))
<1>1. rx \in Seq(Requests) /\ NoRepeat(rx)
  BY DEF TypeOK, Placed
<1> QED BY <1>1, FirstAndRest

LEMMA ClockTypeOK ==
  ASSUME TypeOK, Placed, NEW w, NEW returned, Clocked(w, returned), Clock(w, returned)
  PROVE  TypeOK'
<1> DEFINE rs == Staying(returned)
           ws == writes \ w
<1>1. /\ sent' \in Seq(Requests) /\ port' \in Nat /\ Good(fb')
  BY ClockEffects DEF TypeOK
<1>2. rs \in Seq(Requests) /\ ws \subseteq Requests
  BY LeavingFacts DEF TypeOK
<1>3. \/ Taken(FeedbackAfter(w, returned), rs, ws)
      \/ NotTaken(FeedbackAfter(w, returned), rs, ws)
  BY ClockEffects
<1>4. rx \in Seq(Requests)
  BY DEF TypeOK
<1> HIDE DEF rs, ws
<1>5. rx' \in Seq(Requests) /\ reads' \in Seq(Requests) /\ writes' \subseteq Requests
  <2>1. CASE Taken(FeedbackAfter(w, returned), rs, ws)
    <3>1. Head(rx) \in Requests /\ Tail(rx) \in Seq(Requests)
      BY <2>1, NextRequest DEF Taken
    <3> QED BY <1>2, <2>1, <3>1 DEF Taken
  <2>2. CASE NotTaken(FeedbackAfter(w, returned), rs, ws)
    BY <1>2, <1>4, <2>2 DEF NotTaken
  <2> QED BY <1>3, <2>1, <2>2
<1> QED BY <1>1, <1>5 DEF TypeOK, Good

LEMMA ClockPlaced ==
  ASSUME TypeOK, Placed, NEW w, NEW returned, Clocked(w, returned), Clock(w, returned)
  PROVE  Placed'
<1> DEFINE rs == Staying(returned)
           ws == writes \ w
           l == Leaving(w, returned)
           o == Completing(w, returned)
<1>1. sent' = sent /\ Done(fb') = Done(fb) \union Range(o)
  BY ClockEffects
<1>2. /\ l \subseteq Inside /\ rs \in Seq(Requests) /\ NoRepeat(rs)
      /\ Range(rs) \subseteq Range(reads) /\ Range(rs) \union ws = Inside \ l
      /\ Range(o) \subseteq l
  BY LeavingFacts
<1>3. \/ Taken(FeedbackAfter(w, returned), rs, ws)
      \/ NotTaken(FeedbackAfter(w, returned), rs, ws)
  BY ClockEffects
<1>4. ws \subseteq writes
  OBVIOUS
<1> HIDE DEF rs, ws, l, o
<1>5. /\ NoRepeat(rx) /\ Range(rx) \subseteq Range(sent) /\ Inside \subseteq Range(sent)
      /\ Done(fb) \subseteq Range(sent)
      /\ Range(rx) \intersect Inside = {} /\ Range(rx) \intersect Done(fb) = {}
      /\ Inside \intersect Done(fb) = {}
      /\ \A r \in Range(reads) : IsRead(r)
      /\ \A r \in writes : ~IsRead(r)
  BY DEF Placed
<1>6. Inside' = Range(reads') \union writes'
  BY DEF Inside
<1>7. CASE Taken(FeedbackAfter(w, returned), rs, ws)
  <2> DEFINE h == Head(rx)
             t == Tail(rx)
  <2>1. /\ h \in Requests /\ Range(rx) = {h} \union Range(t)
        /\ NoRepeat(t) /\ h \notin Range(t)
    BY <1>7, NextRequest DEF Taken
  <2>2. rx' = t
    BY <1>7 DEF Taken
  <2>3. /\ reads' = IF IsRead(h) THEN Append(rs, h) ELSE rs
        /\ writes' = IF IsRead(h) THEN ws ELSE ws \union {h}
    BY <1>7 DEF Taken
  <2> HIDE DEF h, t
  <2>4. h \notin Range(rs)
    BY <1>2, <1>5, <2>1 DEF Inside
  <2>5. NoRepeat(Append(rs, h)) /\ Range(Append(rs, h)) = Range(rs) \union {h}
    BY <1>2, <2>1, <2>4, NoRepeatAppend, RangeFacts
  <2>6. NoRepeat(reads')
    BY <1>2, <2>3, <2>5
  <2>7. \A r \in Range(reads') : IsRead(r)
    BY <1>2, <1>5, <2>3, <2>5
  <2>8. \A r \in writes' : ~IsRead(r)
    BY <1>4, <1>5, <2>3
  <2>9. Inside' = (Inside \ l) \union {h}
    BY <1>2, <1>6, <2>3, <2>5
  <2>10. /\ Range(rx') \subseteq Range(sent') /\ Inside' \subseteq Range(sent')
         /\ Done(fb') \subseteq Range(sent')
    BY <1>1, <1>2, <1>5, <2>1, <2>2, <2>9
  <2>11. /\ Range(rx') \intersect Inside' = {} /\ Range(rx') \intersect Done(fb') = {}
         /\ Inside' \intersect Done(fb') = {}
    BY <1>1, <1>2, <1>5, <2>1, <2>2, <2>9
  <2> QED BY <2>1, <2>2, <2>6, <2>7, <2>8, <2>10, <2>11 DEF Placed
<1>8. CASE NotTaken(FeedbackAfter(w, returned), rs, ws)
  <2>1. rx' = rx /\ reads' = rs /\ writes' = ws
    BY <1>8 DEF NotTaken
  <2>2. Inside' = Inside \ l
    BY <1>2, <1>6, <2>1
  <2>3. /\ Range(rx') \subseteq Range(sent') /\ Inside' \subseteq Range(sent')
        /\ Done(fb') \subseteq Range(sent')
    BY <1>1, <1>2, <1>5, <2>1, <2>2
  <2>4. /\ Range(rx') \intersect Inside' = {} /\ Range(rx') \intersect Done(fb') = {}
        /\ Inside' \intersect Done(fb') = {}
    BY <1>1, <1>2, <1>5, <2>1, <2>2
  <2>5. /\ \A r \in Range(reads') : IsRead(r)
        /\ \A r \in writes' : ~IsRead(r)
    BY <1>2, <1>4, <1>5, <2>1
  <2> QED BY <1>2, <1>5, <2>1, <2>3, <2>4, <2>5 DEF Placed
<1> QED BY <1>3, <1>7, <1>8

\* The countdown and the notification after a clock.
LEMMA ClockCounters ==
  ASSUME IInv, NEW w, NEW returned, Clocked(w, returned), Clock(w, returned)
  PROVE  CountdownNotified' /\ CountdownPosted' /\ NothingForgotten'
<1> DEFINE g == FeedbackAfter(w, returned)
           rs == Staying(returned)
           ws == writes \ w
<1>1. TypeOK /\ Placed /\ CountdownNotified /\ CountdownPosted /\ NothingForgotten
  BY DEF IInv
<1>2. /\ sent' = sent /\ fb' \in FeedbackState
      /\ Taken(g, rs, ws) \/ NotTaken(g, rs, ws)
  BY <1>1, ClockEffects DEF Good
<1>3. CountersKept(fb, g) /\ g \in FeedbackState /\ fb \in FeedbackState
  BY <1>1, ClockTook DEF Took, Good, TypeOK
<1>4. /\ fb.ctr \in Nat /\ g.ctr \in Nat /\ fb'.ctr \in Nat
      /\ fb.notified \in BOOLEAN /\ g.notified \in BOOLEAN /\ fb'.notified \in BOOLEAN
  BY <1>2, <1>3, FieldTypes
<1>5. CASE Taken(g, rs, ws)
  <2>1. fb'.notified /\ fb'.ctr = Countdown(g, Head(rx)) /\ rx # <<>>
    BY <1>5 DEF Taken
  <2>2. Head(rx) \in Range(sent)
    BY <1>1, <2>1, NextRequest DEF Placed
  <2>3. g.ctr > 0 => Posted
    BY <1>1, <1>3, <1>4 DEF CountersKept, CountdownPosted
  <2>4. fb'.ctr > 0 => Posted'
    BY <1>2, <2>1, <2>2, <2>3 DEF Countdown, Posted
  <2> QED BY <2>1, <2>4 DEF CountdownNotified, CountdownPosted, NothingForgotten
<1>6. CASE NotTaken(g, rs, ws)
  <2>1. fb' = g /\ reads' = rs /\ writes' = ws
    BY <1>6 DEF NotTaken
  <2>2. g.ctr > 0 => g.notified
    BY <1>1, <1>3 DEF CountdownNotified, CountersKept
  <2>3. g.ctr > 0 => Posted
    BY <1>1, <1>3, <1>4 DEF CountersKept, CountdownPosted
  <2>4. ASSUME ~Posted PROVE g.notified \/ (Inside' = {} /\ g.cache = <<>>)
    <3>1. fb.ctr = 0 /\ g.notified = fb.notified
      BY <1>1, <1>3, <1>4, <2>4 DEF CountdownPosted, CountersKept
    <3>2. CASE fb.notified
      BY <3>1, <3>2
    <3>3. CASE ~fb.notified
      <4>1. Inside = {} /\ fb.cache = <<>>
        BY <1>1, <2>4, <3>3 DEF NothingForgotten, Posted
      <4>2. Idle /\ ~Runs
        BY <3>1, <3>3 DEF Idle, Runs
      <4>3. g = fb /\ w = {} /\ ~returned
        BY <4>2 DEF FeedbackAfter, Clocked
      <4>4. reads' = reads /\ writes' = writes
        BY <2>1, <4>3 DEF Staying
      <4> QED BY <4>1, <4>3, <4>4 DEF Inside
    <3> QED BY <3>2, <3>3
  <2>5. Posted' <=> Posted
    BY <1>2 DEF Posted
  <2> QED BY <2>1, <2>2, <2>3, <2>4, <2>5
          DEF CountdownNotified, CountdownPosted, NothingForgotten, Posted
<1> QED BY <1>2, <1>5, <1>6

-----------------------------------------------------------------------------
(* The reads of a sequence. *)

Sel(s) == Selected(s, ReadRequests)

LEMMA SelFacts ==
  /\ \A s \in Seq(Requests) : Sel(s) \in Seq(Requests)
  /\ \A s, t \in Seq(Requests) : Sel(s \o t) = Sel(s) \o Sel(t)
  /\ \A s \in Seq(Requests), r \in Requests :
       Sel(Append(s, r)) = IF IsRead(r) THEN Sel(s) \o <<r>> ELSE Sel(s)
  /\ \A s \in Seq(Requests) : s # <<>> =>
       Sel(s) = IF IsRead(Head(s)) THEN <<Head(s)>> \o Sel(Tail(s)) ELSE Sel(Tail(s))
  /\ Sel(<<>>) = <<>>
<1>1. \A s \in Seq(Requests) : Selected(s, ReadRequests) \in Seq(Requests)
  BY SelectedIn
<1>2. ASSUME NEW s \in Seq(Requests), NEW t \in Seq(Requests)
      PROVE  Sel(s \o t) = Sel(s) \o Sel(t)
  BY SelectedConcat DEF Sel
<1>3. ASSUME NEW s \in Seq(Requests), NEW r \in Requests
      PROVE  Sel(Append(s, r)) = IF IsRead(r) THEN Sel(s) \o <<r>> ELSE Sel(s)
  <2>1. Selected(Append(s, r), ReadRequests) =
          IF r \in ReadRequests THEN Append(Selected(s, ReadRequests), r)
          ELSE Selected(s, ReadRequests)
    BY SelectedAppend
  <2>2. r \in ReadRequests <=> IsRead(r)
    BY DEF ReadRequests
  <2>3. Append(Selected(s, ReadRequests), r) = Selected(s, ReadRequests) \o <<r>>
    BY <1>1
  <2> QED BY <2>1, <2>2, <2>3, Zenon DEF Sel
<1>4. ASSUME NEW s \in Seq(Requests), s # <<>>
      PROVE  Sel(s) = IF IsRead(Head(s)) THEN <<Head(s)>> \o Sel(Tail(s)) ELSE Sel(Tail(s))
  <2>1. Selected(s, ReadRequests) =
          IF Head(s) \in ReadRequests THEN <<Head(s)>> \o Selected(Tail(s), ReadRequests)
          ELSE Selected(Tail(s), ReadRequests)
    BY <1>4, SelectedHead
  <2>2. Head(s) \in Requests
    BY <1>4
  <2>3. Head(s) \in ReadRequests <=> IsRead(Head(s))
    BY <2>2 DEF ReadRequests
  <2> QED BY <2>1, <2>3, Zenon DEF Sel
<1>5. Sel(<<>>) = <<>>
  BY SelectedEmpty DEF Sel
<1> QED BY <1>1, <1>2, <1>3, <1>4, <1>5 DEF Sel

\* What the DRAM simulator completes, and then the reads that stay.
LEMMA LeavingReads ==
  ASSUME TypeOK, Placed, NEW w, NEW returned, Clocked(w, returned)
  PROVE  Sel(Completing(w, returned)) \o Sel(Staying(returned)) = Sel(reads)
<1> DEFINE q == CHOOSE r \in w : TRUE
           o == IF w = {} THEN <<>> ELSE ResponseOf(q)
           p == IF returned THEN <<Head(reads)>> ELSE <<>>
           rs == Staying(returned)
<1>1. /\ reads \in Seq(Requests) /\ writes \subseteq Requests
      /\ w \in Completions /\ returned \in BOOLEAN /\ (returned => reads # <<>>)
      /\ \A r \in Range(reads) : IsRead(r)
      /\ \A r \in writes : ~IsRead(r)
  BY DEF TypeOK, Placed, Clocked
<1>2. o \in Seq(Requests) /\ Sel(o) = <<>>
  <2>1. CASE w = {}
    <3>1. o = <<>>
      BY <2>1
    <3> HIDE DEF o
    <3> QED BY <3>1, SelFacts
  <2>2. CASE w # {}
    <3>1. q \in writes /\ o = ResponseOf(q)
      BY <1>1, <2>2 DEF Completions
    <3> HIDE DEF q, o
    <3>2. q \in Requests /\ ~IsRead(q)
      BY <1>1, <3>1
    <3>3. <<>> \in Seq(Requests) /\ Append(<<>>, q) = <<q>>
      BY <3>2
    <3>4. Sel(Append(<<>>, q)) = Sel(<<>>)
      BY <3>2, <3>3, SelFacts, Zenon
    <3>5. Sel(<<q>>) = <<>>
      BY <3>3, <3>4, SelFacts, Zenon
    <3>6. <<q>> \in Seq(Requests)
      BY <3>2
    <3> QED BY <3>1, <3>3, <3>5, <3>6, SelFacts DEF ResponseOf
  <2> QED BY <2>1, <2>2
<1>3. p \in Seq(Requests) /\ Sel(p) \o Sel(rs) = Sel(reads)
  <2>1. CASE returned
    <3>1. Head(reads) \in Requests /\ Head(reads) \in Range(reads) /\ Tail(reads) \in Seq(Requests)
      BY <1>1, <2>1, FirstAndRest
    <3>2. IsRead(Head(reads))
      BY <1>1, <3>1
    <3>3. p = <<Head(reads)>> /\ rs = Tail(reads)
      BY <2>1 DEF Staying
    <3>4. Sel(reads) = <<Head(reads)>> \o Sel(Tail(reads))
      BY <1>1, <2>1, <3>2, SelFacts, Zenon
    <3>5. /\ <<>> \in Seq(Requests) /\ Append(<<>>, Head(reads)) = <<Head(reads)>>
          /\ <<>> \o <<Head(reads)>> = <<Head(reads)>> /\ <<Head(reads)>> \in Seq(Requests)
      BY <3>1
    <3>6. Sel(Append(<<>>, Head(reads))) = Sel(<<>>) \o <<Head(reads)>>
      BY <3>1, <3>2, <3>5, SelFacts, Zenon
    <3>7. Sel(<<Head(reads)>>) = <<Head(reads)>>
      BY <3>5, <3>6, SelFacts, Zenon
    <3> QED BY <3>3, <3>4, <3>5, <3>7, Zenon
  <2>2. CASE ~returned
    <3>1. p = <<>> /\ rs = reads
      BY <2>2 DEF Staying
    <3> HIDE DEF p, rs
    <3>2. Sel(reads) \in Seq(Requests)
      BY <1>1, SelFacts
    <3>3. <<>> \o Sel(reads) = Sel(reads) /\ <<>> \in Seq(Requests)
      BY <3>2
    <3> QED BY <3>1, <3>3, SelFacts
  <2> QED BY <1>1, <2>1, <2>2
<1>4. Completing(w, returned) = o \o p
  BY DEF Completing
<1> HIDE DEF o, p
<1>5. Sel(o \o p) = Sel(o) \o Sel(p)
  BY <1>2, <1>3, SelFacts
<1>6. <<>> \o Sel(p) = Sel(p)
  BY <1>3, SelFacts, ConcatEmptySeq
<1> QED BY <1>2, <1>3, <1>4, <1>5, <1>6

\* The reads of ReadsInOrder, part by part.
LEMMA ReadsApart ==
  ASSUME NEW f \in FeedbackState, NEW rs \in Seq(Requests), NEW xs \in Seq(Requests)
  PROVE  Selected(Joined(f.firsts, f.cache) \o rs \o xs, ReadRequests)
           = (Sel(Order(f)) \o Sel(rs)) \o Sel(xs)
<1>1. Order(f) \in Seq(Requests) /\ Order(f) \o rs \in Seq(Requests)
  BY OrderType
<1>2. Sel(Order(f) \o rs) = Sel(Order(f)) \o Sel(rs)
  BY <1>1, SelFacts
<1>3. Sel((Order(f) \o rs) \o xs) = Sel(Order(f) \o rs) \o Sel(xs)
  BY <1>1, SelFacts
<1> QED BY <1>2, <1>3 DEF Sel, Order

LEMMA Associative ==
  \A s, t, u \in Seq(Requests) : (s \o t) \o u = s \o (t \o u)
OBVIOUS

LEMMA Regroup ==
  \A a, o, r, x, h \in Seq(Requests) :
    ((a \o o) \o (r \o h)) \o x = (a \o (o \o r)) \o (h \o x)
<1> DEFINE S == Seq(Requests)
           C(s, t) == s \o t
<1> SUFFICES ASSUME NEW a \in S, NEW o \in S, NEW r \in S, NEW x \in S, NEW h \in S
             PROVE  C(C(C(a, o), C(r, h)), x) = C(C(a, C(o, r)), C(h, x))
  OBVIOUS
<1>1. \A s, t \in S : C(s, t) \in S
  BY ConcatProperties
<1>2. \A s, t, u \in S : C(C(s, t), u) = C(s, C(t, u))
  BY Associative
<1> HIDE DEF S, C
<1>3. C(a, o) \in S
  BY <1>1
<1>4. C(C(a, o), r) \in S
  BY <1>1, <1>3
<1>5. C(C(a, o), C(r, h)) = C(C(C(a, o), r), h)
  BY <1>2, <1>3
<1>6. C(C(C(C(a, o), r), h), x) = C(C(C(a, o), r), C(h, x))
  BY <1>2, <1>4
<1>7. C(C(a, o), r) = C(a, C(o, r))
  BY <1>2
<1> QED BY <1>5, <1>6, <1>7

\* The order of the reads after a clock.
LEMMA ClockReads ==
  ASSUME IInv, NEW w, NEW returned, Clocked(w, returned), Clock(w, returned)
  PROVE  ReadsInOrder'
<1> DEFINE g == FeedbackAfter(w, returned)
           rs == Staying(returned)
           ws == writes \ w
           c == Order(fb)
           o == Completing(w, returned)
<1>1. TypeOK /\ Placed /\ ReadsInOrder
  BY DEF IInv
<1>2. /\ sent' = sent /\ Order(fb') = c \o o
      /\ Taken(g, rs, ws) \/ NotTaken(g, rs, ws)
  BY <1>1, ClockEffects
<1>3. /\ fb' \in FeedbackState /\ reads' \in Seq(Requests) /\ rx' \in Seq(Requests)
  BY <1>1, ClockTypeOK DEF TypeOK
<1>4. /\ fb \in FeedbackState /\ reads \in Seq(Requests) /\ rx \in Seq(Requests)
      /\ c \in Seq(Requests) /\ o \in Seq(Requests) /\ rs \in Seq(Requests)
  BY <1>1, OrderType, ClockTook, LeavingFacts DEF TypeOK
<1>5. Sel(o) \o Sel(rs) = Sel(reads)
  BY <1>1, LeavingReads
<1>6. (Sel(c) \o Sel(reads)) \o Sel(rx) = Sel(sent)
  BY <1>1, <1>4, ReadsApart DEF ReadsInOrder, Completed, Sel
<1> HIDE DEF g, rs, ws, o, c
<1>7. Sel(c \o o) = Sel(c) \o Sel(o)
  BY <1>4, SelFacts
<1>8. /\ Sel(c) \in Seq(Requests) /\ Sel(o) \in Seq(Requests) /\ Sel(rs) \in Seq(Requests)
      /\ Sel(rx) \in Seq(Requests)
  BY <1>4, SelFacts
<1>9. SUFFICES (Sel(Order(fb')) \o Sel(reads')) \o Sel(rx') = Sel(sent')
  BY <1>3, ReadsApart DEF ReadsInOrder, Completed, Sel, ReadRequests
<1>10. SUFFICES ((Sel(c) \o Sel(o)) \o Sel(reads')) \o Sel(rx')
                  = (Sel(c) \o (Sel(o) \o Sel(rs))) \o Sel(rx)
  BY <1>2, <1>5, <1>6, <1>7, Zenon
<1> DEFINE h == Head(rx)
           xs == Tail(rx)
<1>11. CASE Taken(g, rs, ws) /\ IsRead(h)
  <2>1. rx # <<>> /\ rx' = xs /\ reads' = Append(rs, h)
    BY <1>11 DEF Taken
  <2>2. h \in Requests /\ xs \in Seq(Requests)
    BY <1>4, <2>1
  <2>3. Sel(rx) = <<h>> \o Sel(xs)
    BY <1>4, <1>11, <2>1, SelFacts, Zenon
  <2> HIDE DEF h, xs
  <2>4. Sel(Append(rs, h)) = Sel(rs) \o <<h>>
    BY <1>4, <1>11, <2>2, SelFacts, Zenon
  <2>5. <<h>> \in Seq(Requests) /\ Sel(xs) \in Seq(Requests)
    BY <2>2, SelFacts
  <2>6. ((Sel(c) \o Sel(o)) \o (Sel(rs) \o <<h>>)) \o Sel(xs)
          = (Sel(c) \o (Sel(o) \o Sel(rs))) \o (<<h>> \o Sel(xs))
    <3> DEFINE C(s, t) == s \o t
               S == Seq(Requests)
    <3>1. \A a, p, r, x, q \in S :
            C(C(C(a, p), C(r, q)), x) = C(C(a, C(p, r)), C(q, x))
      BY Regroup
    <3>2. Sel(c) \in S /\ Sel(o) \in S /\ Sel(rs) \in S /\ <<h>> \in S /\ Sel(xs) \in S
      BY <1>8, <2>5
    <3> HIDE DEF C, S
    <3>3. C(C(C(Sel(c), Sel(o)), C(Sel(rs), <<h>>)), Sel(xs))
            = C(C(Sel(c), C(Sel(o), Sel(rs))), C(<<h>>, Sel(xs)))
      BY <3>1, <3>2
    <3> QED BY <3>3 DEF C
  <2> QED BY <2>1, <2>3, <2>4, <2>6, Zenon
<1>12. ASSUME Sel(reads') = Sel(rs), Sel(rx') = Sel(rx)
       PROVE  ((Sel(c) \o Sel(o)) \o Sel(reads')) \o Sel(rx')
                = (Sel(c) \o (Sel(o) \o Sel(rs))) \o Sel(rx)
  <2>1. (Sel(c) \o Sel(o)) \o Sel(rs) = Sel(c) \o (Sel(o) \o Sel(rs))
    BY <1>8, ConcatAssociative
  <2> QED BY <1>12, <2>1, Zenon
<1>13. CASE Taken(g, rs, ws) /\ ~IsRead(h)
  <2>1. rx # <<>> /\ rx' = xs /\ reads' = rs
    BY <1>13 DEF Taken
  <2>2. Sel(rx) = Sel(xs)
    BY <1>4, <1>13, <2>1, SelFacts, Zenon
  <2> QED BY <1>12, <2>1, <2>2, Zenon
<1>14. CASE NotTaken(g, rs, ws)
  <2>1. rx' = rx /\ reads' = rs
    BY <1>14 DEF NotTaken
  <2> QED BY <1>12, <2>1, Zenon
<1> QED BY <1>2, <1>11, <1>13, <1>14

LEMMA ClockInvariant ==
  ASSUME IInv, NEW w \in Completions, NEW returned \in BOOLEAN, Clock(w, returned)
  PROVE  IInv'
<1>1. Clocked(w, returned)
  BY DEF Clock, Clocked
<1>2. TypeOK /\ Placed
  BY DEF IInv
<1>3. TypeOK' /\ Placed'
  BY <1>1, <1>2, ClockTypeOK, ClockPlaced
<1>4. CountdownNotified' /\ CountdownPosted' /\ NothingForgotten'
  BY <1>1, ClockCounters
<1>5. ReadsInOrder'
  BY <1>1, ClockReads
<1> QED BY <1>3, <1>4, <1>5 DEF IInv

-----------------------------------------------------------------------------
(* The other steps. *)

LEMMA SendInvariant ==
  ASSUME IInv, NEW r \in Requests, Send(r)
  PROVE  IInv'
<1>1. /\ r \notin Range(sent) /\ sent' = Append(sent, r) /\ rx' = Append(rx, r)
      /\ port' = port /\ reads' = reads /\ writes' = writes /\ fb' = fb
  BY DEF Send
<1>2. TypeOK /\ Placed /\ CountdownNotified /\ CountdownPosted /\ NothingForgotten
      /\ ReadsInOrder
  BY DEF IInv
<1>3. /\ sent \in Seq(Requests) /\ rx \in Seq(Requests) /\ reads \in Seq(Requests)
      /\ fb \in FeedbackState
  BY <1>2 DEF TypeOK
<1>4. /\ sent' \in Seq(Requests) /\ rx' \in Seq(Requests)
      /\ Range(sent') = Range(sent) \union {r} /\ Range(rx') = Range(rx) \union {r}
  BY <1>1, <1>3, RangeFacts
<1>5. TypeOK'
  BY <1>1, <1>2, <1>4 DEF TypeOK
<1>6. Inside' = Inside /\ Done(fb') = Done(fb)
  BY <1>1 DEF Inside, Done
<1>7. Placed'
  <2>1. r \notin Range(rx) /\ r \notin Inside /\ r \notin Done(fb)
    BY <1>1, <1>2 DEF Placed
  <2>2. NoRepeat(rx')
    BY <1>1, <1>2, <1>3, <2>1, NoRepeatAppend DEF Placed
  <2>3. /\ Range(rx') \subseteq Range(sent') /\ Inside' \subseteq Range(sent')
        /\ Done(fb') \subseteq Range(sent')
    BY <1>2, <1>4, <1>6 DEF Placed
  <2>4. /\ Range(rx') \intersect Inside' = {} /\ Range(rx') \intersect Done(fb') = {}
        /\ Inside' \intersect Done(fb') = {}
    BY <1>2, <1>4, <1>6, <2>1 DEF Placed
  <2>5. /\ NoRepeat(reads') /\ \A q \in Range(reads') : IsRead(q)
        /\ \A q \in writes' : ~IsRead(q)
    BY <1>1, <1>2 DEF Placed
  <2> QED BY <2>2, <2>3, <2>4, <2>5 DEF Placed
<1>8. CountdownNotified' /\ CountdownPosted' /\ NothingForgotten'
  BY <1>1, <1>2, <1>4, <1>6 DEF CountdownNotified, CountdownPosted, NothingForgotten, Posted
<1>9. ReadsInOrder'
  <2> DEFINE c == Order(fb)
  <2>1. (Sel(c) \o Sel(reads)) \o Sel(rx) = Sel(sent)
    BY <1>2, <1>3, ReadsApart DEF ReadsInOrder, Completed, Sel
  <2>2. SUFFICES (Sel(c) \o Sel(reads)) \o Sel(rx') = Sel(sent')
    BY <1>1, <1>3, <1>4, ReadsApart DEF ReadsInOrder, Completed, Sel, ReadRequests
  <2>3. c \in Seq(Requests)
    BY <1>3, OrderType
  <2> HIDE DEF c
  <2>4. Sel(c) \o Sel(reads) \in Seq(Requests) /\ Sel(rx) \in Seq(Requests) /\ <<r>> \in Seq(Requests)
    <3>1. Sel(c) \in Seq(Requests) /\ Sel(reads) \in Seq(Requests)
      BY <1>3, <2>3, SelFacts
    <3> QED BY <1>3, <3>1, SelFacts, ConcatProperties
  <2>5. CASE IsRead(r)
    <3>1. Sel(rx') = Sel(rx) \o <<r>> /\ Sel(sent') = Sel(sent) \o <<r>>
      BY <1>1, <1>3, <2>5, SelFacts, Zenon
    <3>2. ((Sel(c) \o Sel(reads)) \o Sel(rx)) \o <<r>>
            = (Sel(c) \o Sel(reads)) \o (Sel(rx) \o <<r>>)
      BY <2>4, ConcatAssociative
    <3> QED BY <2>1, <3>1, <3>2, Zenon
  <2>6. CASE ~IsRead(r)
    <3>1. Sel(rx') = Sel(rx) /\ Sel(sent') = Sel(sent)
      BY <1>1, <1>3, <2>6, SelFacts, Zenon
    <3> QED BY <2>1, <3>1, Zenon
  <2> QED BY <2>5, <2>6
<1> QED BY <1>5, <1>7, <1>8, <1>9 DEF IInv

LEMMA DrainEffects ==
  ASSUME TypeOK, Drain
  PROVE  /\ sent' = sent /\ rx' = rx /\ port' = port /\ reads' = reads /\ writes' = writes
         /\ Good(fb') /\ fb'.cache = fb.cache /\ fb'.firsts = fb.firsts
         /\ fb'.ctr = fb.ctr /\ fb'.notified = fb.notified
<1> DEFINE t == Tail(fb.tx)
<1>1. /\ fb.tx # <<>> /\ fb' = [fb EXCEPT !.tx = t] /\ UNCHANGED <<sent, rx, port, reads, writes>>
  BY DEF Drain
<1>2. fb \in FeedbackState /\ fb.tx \in Seq(Requests) /\ Len(fb.tx) <= TxMax
      /\ TxMax \in Nat
      /\ \A r \in Range(fb.cache) \union Range(fb.tx) : Responds(r)
  BY FieldTypes, BobsimAssumption DEF TypeOK
<1>3. t \in Seq(Requests) /\ Len(t) <= TxMax
  BY <1>1, <1>2
<1>4. Range(t) \subseteq Range(fb.tx)
  BY <1>1, <1>2, FirstAndRest
<1> HIDE DEF t
<1>5. /\ fb' \in FeedbackState /\ fb'.tx = t /\ fb'.cache = fb.cache /\ fb'.firsts = fb.firsts
      /\ fb'.ctr = fb.ctr /\ fb'.notified = fb.notified
  BY <1>1, <1>2, <1>3 DEF FeedbackState
<1>6. Good(fb')
  BY <1>2, <1>3, <1>4, <1>5 DEF Good
<1> QED BY <1>1, <1>5, <1>6

LEMMA DrainInvariant ==
  ASSUME IInv, Drain
  PROVE  IInv'
<1>1. TypeOK /\ Placed /\ CountdownNotified /\ CountdownPosted /\ NothingForgotten
      /\ ReadsInOrder
  BY DEF IInv
<1>2. /\ sent' = sent /\ rx' = rx /\ port' = port /\ reads' = reads /\ writes' = writes
      /\ Good(fb') /\ fb'.cache = fb.cache /\ fb'.firsts = fb.firsts
      /\ fb'.ctr = fb.ctr /\ fb'.notified = fb.notified
  BY <1>1, DrainEffects
<1>3. TypeOK'
  BY <1>1, <1>2 DEF TypeOK, Good
<1>4. Placed'
  BY <1>1, <1>2 DEF Placed, Inside, Done
<1>5. CountdownNotified' /\ CountdownPosted' /\ NothingForgotten'
  BY <1>1, <1>2 DEF CountdownNotified, CountdownPosted, NothingForgotten, Inside, Posted
<1>6. ReadsInOrder'
  BY <1>1, <1>2 DEF ReadsInOrder, Completed
<1> QED BY <1>3, <1>4, <1>5, <1>6 DEF IInv

-----------------------------------------------------------------------------
(* The invariants. *)

LEMMA InitInvariant ==
  ASSUME Init
  PROVE  IInv
<1> DEFINE f == [tx |-> <<>>, cache |-> <<>>, ctr |-> 0, notified |-> FALSE,
                 firsts |-> <<>>, again |-> {}]
<1>1. /\ sent = <<>> /\ rx = <<>> /\ port = 0 /\ reads = <<>> /\ writes = {} /\ fb = f
  BY DEF Init
<1>2. /\ f.tx = <<>> /\ f.cache = <<>> /\ f.ctr = 0 /\ f.notified = FALSE
      /\ f.firsts = <<>>
  OBVIOUS
<1>3. <<>> \in Seq(Requests) /\ Range(<<>>) = {} /\ Len(<<>>) = 0
  BY DEF Range
<1>4. f \in FeedbackState
  BY <1>3, BobsimAssumption DEF FeedbackState
<1> HIDE DEF f
<1>5. TypeOK
  BY <1>1, <1>2, <1>3, <1>4, BobsimAssumption DEF TypeOK
<1>6. Inside = {} /\ Done(fb) = {}
  BY <1>1, <1>2, <1>3 DEF Inside, Done
<1>7. Placed
  BY <1>1, <1>3, <1>6 DEF Placed, NoRepeat
<1>8. CountdownNotified /\ CountdownPosted /\ NothingForgotten
  BY <1>1, <1>2, <1>6 DEF CountdownNotified, CountdownPosted, NothingForgotten
<1>9. ReadsInOrder
  <2>1. Joined(<<>>, <<>>) = <<>>
    BY <1>3, JoinedEmpty
  <2>2. Completed = <<>>
    BY <1>1, <1>2, <2>1 DEF Completed
  <2>3. (<<>> \o <<>>) \o <<>> = <<>>
    OBVIOUS
  <2> QED BY <1>1, <2>2, <2>3 DEF ReadsInOrder
<1> QED BY <1>5, <1>7, <1>8, <1>9 DEF IInv

LEMMA NextInvariant ==
  ASSUME IInv, [Next]_vars
  PROVE  IInv'
<1>1. ASSUME NEW r \in Requests, Send(r) PROVE IInv'
  BY <1>1, SendInvariant
<1>2. ASSUME NEW w \in Completions, NEW returned \in BOOLEAN, Clock(w, returned) PROVE IInv'
  BY <1>2, ClockInvariant
<1>3. ASSUME Drain PROVE IInv'
  BY <1>3, DrainInvariant
<1>4. ASSUME UNCHANGED vars PROVE IInv'
  BY <1>4 DEF vars, IInv, TypeOK, Placed, Inside, Done, CountdownNotified, CountdownPosted,
              Posted, NothingForgotten, ReadsInOrder, Completed
<1> QED BY <1>1, <1>2, <1>3, <1>4 DEF Next

THEOREM BobsimInvariant ==
  Safe => []IInv
<1>1. Init => IInv
  BY InitInvariant
<1>2. IInv /\ [Next]_vars => IInv'
  BY NextInvariant
<1> QED BY <1>1, <1>2, PTL DEF Safe

\* The variables have their types; only responses are cached or sent, and the
\* link's queue is never overrun.
THEOREM BobsimTypeOK ==
  Spec => []TypeOK
<1>1. IInv => TypeOK
  BY DEF IInv
<1> QED BY <1>1, BobsimInvariant, PTL DEF Spec

\* While a countdown runs the controller is notified.
THEOREM BobsimCountdownNotified ==
  Spec => []CountdownNotified
<1>1. IInv => CountdownNotified
  BY DEF IInv
<1> QED BY <1>1, BobsimInvariant, PTL DEF Spec

\* Work is without notification only after a request without response.
THEOREM BobsimNothingForgotten ==
  Spec => []NothingForgotten
<1>1. IInv => NothingForgotten
  BY DEF IInv
<1> QED BY <1>1, BobsimInvariant, PTL DEF Spec

\* Reads are first answered in the order they were sent.
THEOREM BobsimReadsInOrder ==
  Spec => []ReadsInOrder
<1>1. IInv => ReadsInOrder
  BY DEF IInv
<1> QED BY <1>1, BobsimInvariant, PTL DEF Spec

-----------------------------------------------------------------------------
(* The bridge implements the memory. *)

LEMMA OrdersOfOne ==
  ASSUME NEW x
  PROVE  <<x>> \in SetToSeqs({x})
<1>1. Cardinality({x}) = 1
  BY FS_Singleton
<1>2. <<x>> \in [1 .. 1 -> {x}]
  OBVIOUS
<1>3. \A i, j \in 1 .. 1 : i = j
  OBVIOUS
<1> QED BY <1>1, <1>2, <1>3 DEF SetToSeqs

LEMMA OrdersOfTwo ==
  ASSUME NEW x, NEW y, x # y
  PROVE  <<x>> \o <<y>> \in SetToSeqs({x, y})
<1> DEFINE t == <<x>> \o <<y>>
<1>1. Cardinality({x, y}) = 2
  <2>1. IsFiniteSet({x}) /\ Cardinality({x}) = 1
    BY FS_Singleton
  <2>2. Cardinality({x} \union {y}) = Cardinality({x}) + 1
    BY <2>1, FS_AddElement
  <2>3. {x} \union {y} = {x, y}
    OBVIOUS
  <2> QED BY <2>1, <2>2, <2>3
<1>2. t \in [1 .. 2 -> {x, y}] /\ t[1] = x /\ t[2] = y
  <2>1. <<x>> \in Seq({x, y}) /\ <<y>> \in Seq({x, y})
    OBVIOUS
  <2>2. t \in Seq({x, y}) /\ Len(t) = 2 /\ t[1] = x /\ t[2] = y
    BY <2>1
  <2> HIDE DEF t
  <2>3. t \in [1 .. Len(t) -> {x, y}]
    BY <2>2, LenProperties
  <2> QED BY <2>2, <2>3
<1> HIDE DEF t
<1>3. \A i \in 1 .. 2 : i = 1 \/ i = 2
  OBVIOUS
<1>4. \A i, j \in 1 .. 2 : i # j => t[i] # t[j]
  BY <1>2, <1>3
<1> QED BY <1>1, <1>2, <1>4 DEF SetToSeqs, t

\* What a clock completes is an ordering of the responses among what leaves the
\* DRAM simulator.
LEMMA CompletingOrders ==
  ASSUME TypeOK, Placed, NEW w, NEW returned, Clocked(w, returned)
  PROVE  Completing(w, returned)
           \in SetToSeqs(Leaving(w, returned) \intersect {r \in Requests : Responds(r)})
<1> DEFINE q == CHOOSE r \in w : TRUE
           h == Head(reads)
           o == Completing(w, returned)
           S == Leaving(w, returned) \intersect {r \in Requests : Responds(r)}
<1>1. /\ reads \in Seq(Requests) /\ writes \subseteq Requests
      /\ w \in Completions /\ returned \in BOOLEAN /\ (returned => reads # <<>>)
      /\ \A r \in Range(reads) : IsRead(r)
      /\ \A r \in writes : ~IsRead(r)
  BY DEF TypeOK, Placed, Clocked
<1>2. ASSUME returned PROVE h \in Requests /\ IsRead(h) /\ Responds(h)
  <2>1. h \in Requests /\ h \in Range(reads)
    BY <1>1, <1>2, FirstAndRest
  <2> QED BY <1>1, <2>1, RequestFacts
<1>3. ASSUME w # {} PROVE w = {q} /\ q \in Requests /\ ~IsRead(q)
  BY <1>1, <1>3 DEF Completions
<1>4. Cardinality({}) = 0
  BY FS_EmptySet
<1>5. CASE (w = {} \/ ~Responds(q)) /\ ~returned
  <2>1. o = <<>> /\ S = {}
    <3>1. o = <<>> \o <<>>
      BY <1>5 DEF Completing, ResponseOf
    <3>2. S = {}
      BY <1>3, <1>5 DEF Leaving
    <3> QED BY <3>1, <3>2
  <2> HIDE DEF o, S
  <2>2. <<>> \in SetToSeqs({})
    BY <1>4 DEF SetToSeqs
  <2> QED BY <2>1, <2>2 DEF o, S
<1>6. CASE w # {} /\ Responds(q) /\ ~returned
  <2>1. o = <<q>> /\ S = {q}
    <3>1. o = <<q>> \o <<>>
      BY <1>6 DEF Completing, ResponseOf
    <3>2. S = {q}
      BY <1>3, <1>6 DEF Leaving
    <3> QED BY <3>1, <3>2
  <2> HIDE DEF o, S, q
  <2>2. <<q>> \in SetToSeqs({q})
    BY OrdersOfOne
  <2> QED BY <2>1, <2>2 DEF o, S
<1>7. CASE (w = {} \/ ~Responds(q)) /\ returned
  <2>1. o = <<h>> /\ S = {h}
    <3>1. o = <<>> \o <<h>>
      BY <1>7 DEF Completing, ResponseOf
    <3>2. S = {h}
      BY <1>2, <1>3, <1>7 DEF Leaving
    <3> QED BY <3>1, <3>2
  <2> HIDE DEF o, S, h
  <2>2. <<h>> \in SetToSeqs({h})
    BY OrdersOfOne
  <2> QED BY <2>1, <2>2 DEF o, S
<1>8. CASE w # {} /\ Responds(q) /\ returned
  <2>1. o = <<q>> \o <<h>> /\ S = {q, h} /\ q # h
    <3>1. o = <<q>> \o <<h>>
      BY <1>8 DEF Completing, ResponseOf
    <3>2. S = {q, h} /\ q # h
      BY <1>2, <1>3, <1>8 DEF Leaving
    <3> QED BY <3>1, <3>2
  <2> HIDE DEF o, S, h, q
  <2>2. <<q>> \o <<h>> \in SetToSeqs({q, h})
    BY <2>1, OrdersOfTwo
  <2> QED BY <2>1, <2>2 DEF o, S
<1> QED BY <1>1, <1>5, <1>6, <1>7, <1>8

\* What a clock moves from the buffer of the link into the DRAM simulator.
LEMMA ClockMoves ==
  ASSUME TypeOK, Placed, NEW w, NEW returned, Clocked(w, returned), Clock(w, returned)
  PROVE  \E new \in SUBSET Range(rx) :
           /\ Range(rx') = Range(rx) \ new
           /\ Inside' = (Inside \ Leaving(w, returned)) \union new
<1> DEFINE rs == Staying(returned)
           ws == writes \ w
           l == Leaving(w, returned)
<1>1. /\ rs \in Seq(Requests) /\ Range(rs) \union ws = Inside \ l
  BY LeavingFacts
<1>2. \/ Taken(FeedbackAfter(w, returned), rs, ws)
      \/ NotTaken(FeedbackAfter(w, returned), rs, ws)
  BY ClockEffects
<1> HIDE DEF rs, ws, l
<1>3. Inside' = Range(reads') \union writes'
  BY DEF Inside
<1>4. CASE Taken(FeedbackAfter(w, returned), rs, ws)
  <2> DEFINE h == Head(rx)
  <2>1. /\ h \in Requests /\ Range(rx) = {h} \union Range(Tail(rx))
        /\ h \notin Range(Tail(rx))
    BY <1>4, NextRequest DEF Taken
  <2>2. /\ rx' = Tail(rx)
        /\ reads' = IF IsRead(h) THEN Append(rs, h) ELSE rs
        /\ writes' = IF IsRead(h) THEN ws ELSE ws \union {h}
    BY <1>4 DEF Taken
  <2> HIDE DEF h
  <2>3. Range(Append(rs, h)) = Range(rs) \union {h}
    BY <1>1, <2>1, RangeFacts
  <2>4. Inside' = (Inside \ l) \union {h}
    BY <1>1, <1>3, <2>2, <2>3
  <2>5. Range(rx') = Range(rx) \ {h} /\ {h} \in SUBSET Range(rx)
    BY <2>1, <2>2
  <2> QED BY <2>4, <2>5 DEF l
<1>5. CASE NotTaken(FeedbackAfter(w, returned), rs, ws)
  <2>1. Range(rx') = Range(rx) \ {} /\ {} \in SUBSET Range(rx)
        /\ Inside' = (Inside \ l) \union {}
    BY <1>1, <1>3, <1>5 DEF NotTaken
  <2> QED BY <2>1 DEF l
<1> QED BY <1>2, <1>4, <1>5

LEMMA ClockImplements ==
  ASSUME IInv, NEW w \in Completions, NEW returned \in BOOLEAN, Clock(w, returned)
  PROVE  Memory!Next
<1> DEFINE l == Leaving(w, returned)
           o == Completing(w, returned)
           A == {r \in Requests : Responds(r)}
<1>1. Clocked(w, returned) /\ TypeOK /\ Placed
  BY DEF Clock, Clocked, IInv
<1>2. o \in SetToSeqs(l \intersect A)
  BY <1>1, CompletingOrders
<1>3. l \in SUBSET Inside
  BY <1>1, LeavingFacts
<1>4. /\ sent' = sent /\ Good(fb') /\ Order(fb') = Order(fb) \o o
      /\ Len(fb'.firsts) >= Len(fb.firsts)
  BY <1>1, ClockEffects
<1>5. PICK new \in SUBSET Range(rx) :
        /\ Range(rx') = Range(rx) \ new
        /\ Inside' = (Inside \ l) \union new
  BY <1>1, ClockMoves
<1> HIDE DEF l, o, A
<1>6. Range(sent) \subseteq Requests /\ Range(rx) \subseteq Range(sent)
  BY <1>1, RangeFacts DEF TypeOK, Placed
<1>7. new \in SUBSET (Requests \ (Range(sent) \ Range(rx)))
  BY <1>5, <1>6
<1>8. (Range(sent) \ Range(rx))' = (Range(sent) \ Range(rx)) \union new
  BY <1>4, <1>5, <1>6
<1>9. Completed' = Completed \o o
  BY <1>4 DEF Completed, Order
<1>10. Len(fb'.firsts) \in Len(fb.firsts) .. Len(Completed')
  <2>1. fb \in FeedbackState /\ fb' \in FeedbackState
    BY <1>1, <1>4 DEF TypeOK, Good
  <2>2. Len(fb.firsts) \in Nat /\ Len(fb'.firsts) \in Nat
    BY <2>1, FieldTypes
  <2>3. Len(fb'.firsts) <= Len(Order(fb')) /\ Order(fb') \in Seq(Requests)
    BY <2>1, OrderType
  <2>4. Completed' = Order(fb')
    BY DEF Completed, Order
  <2>5. Len(Order(fb')) \in Nat
    BY <2>3
  <2> QED BY <1>4, <2>2, <2>3, <2>4, <2>5
<1>11. Memory!Step(new, l, o)
  BY <1>5, <1>8, <1>9, <1>10 DEF Memory!Step
<1>12. o \in Memory!SetToSeqs(l \intersect A)
  <2>1. Memory!Cardinality(l \intersect A) = Cardinality(l \intersect A)
    BY DEF Cardinality, Memory!Cardinality
  <2> QED BY <1>2, <2>1 DEF SetToSeqs, Memory!SetToSeqs
<1> QED BY <1>3, <1>7, <1>11, <1>12 DEF Memory!Next, A

\* Every step of the bridge is a step of the memory, or none: no request and no
\* response is lost, and first answers come in the order of completion.
THEOREM BobsimImplementsMemory ==
  Spec => ImplementsMemory
<1>1. Init => Memory!Init
  <2>1. SUFFICES ASSUME Init PROVE Memory!Init
    OBVIOUS
  <2>2. /\ sent = <<>> /\ rx = <<>> /\ reads = <<>> /\ writes = {}
        /\ fb.firsts = <<>> /\ fb.cache = <<>>
    BY <2>1 DEF Init
  <2>3. <<>> \in Seq(Requests) /\ Range(<<>>) = {} /\ Len(<<>>) = 0
    BY DEF Range
  <2>4. Joined(<<>>, <<>>) = <<>>
    BY <2>3, JoinedEmpty
  <2> QED BY <2>2, <2>3, <2>4 DEF Memory!Init, Inside, Completed
<1>2. IInv /\ [Next]_vars => [Memory!Next]_(Memory!vars)
  <2>1. SUFFICES ASSUME IInv, [Next]_vars PROVE [Memory!Next]_(Memory!vars)
    OBVIOUS
  <2>2. ASSUME NEW w \in Completions, NEW returned \in BOOLEAN, Clock(w, returned)
        PROVE  Memory!Next
    BY <2>1, <2>2, ClockImplements
  <2>3. ASSUME NEW r \in Requests, Send(r) PROVE UNCHANGED Memory!vars
    <3>1. /\ r \notin Range(sent) /\ sent' = Append(sent, r) /\ rx' = Append(rx, r)
          /\ reads' = reads /\ writes' = writes /\ fb' = fb
      BY <2>3 DEF Send
    <3>2. sent \in Seq(Requests) /\ rx \in Seq(Requests)
      BY <2>1 DEF IInv, TypeOK
    <3>3. Range(sent') = Range(sent) \union {r} /\ Range(rx') = Range(rx) \union {r}
      BY <3>1, <3>2, RangeFacts
    <3>4. Range(rx) \subseteq Range(sent)
      BY <2>1 DEF IInv, Placed
    <3>5. (Range(sent) \ Range(rx))' = Range(sent) \ Range(rx)
      BY <3>1, <3>3, <3>4
    <3> QED BY <3>1, <3>5 DEF Memory!vars, Inside, Completed
  <2>4. ASSUME Drain PROVE UNCHANGED Memory!vars
    <3>1. /\ sent' = sent /\ rx' = rx /\ reads' = reads /\ writes' = writes
          /\ fb'.cache = fb.cache /\ fb'.firsts = fb.firsts
      BY <2>1, <2>4, DrainEffects DEF IInv
    <3> QED BY <3>1 DEF Memory!vars, Inside, Completed
  <2>5. ASSUME UNCHANGED vars PROVE UNCHANGED Memory!vars
    BY <2>5 DEF vars, Memory!vars, Inside, Completed
  <2> QED BY <2>1, <2>2, <2>3, <2>4, <2>5 DEF Next
<1> QED BY <1>1, <1>2, BobsimInvariant, PTL DEF Spec, Safe, ImplementsMemory, Memory!Spec
=============================================================================
