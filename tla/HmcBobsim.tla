------------------------------ MODULE HmcBobsim ------------------------------
(***************************************************************************)
(* The bridge of a vault to the DRAM simulator (hmc_bobsim).  A clock      *)
(* sends responses again that the link refused earlier, lets the DRAM      *)
(* simulator run, and hands it the next request from the link.  The DRAM   *)
(* simulator calls back (bob_feedback) when it is done with a request.     *)
(*                                                                         *)
(* The DRAM simulator is a port that is busy for some clocks per request,  *)
(* a list of reads that are answered in this order (they all have the same *)
(* sequence number, by which the simulator looks them up), and a set of    *)
(* writes that complete in any order.  Packets are requests; a request in  *)
(* tx or cache stands for its response.                                    *)
(***************************************************************************)
EXTENDS HmcVault, HmcFold

CONSTANTS
  Requests,
  Cmd,        \* Cmd[r]: the command of a request
  RxMax,      \* bound: requests in the receive buffer of the link
  TxMax,      \* responses the link's queue takes before has_space fails
  PortDepth,  \* PORT_QUEUE_DEPTH: with fewer requests inside, the port has room
  CtrMax,     \* clocks granted for a request without response (100 in the code)
  CacheMax    \* bound: entries of the feedback cache

ASSUME BobsimAssumption ==
  /\ Cmd \in [Requests -> Executable]
  /\ RxMax \in Nat /\ CacheMax \in Nat
  /\ TxMax \in Nat \ {0} /\ PortDepth \in Nat \ {0} /\ CtrMax \in Nat \ {0}

VARIABLES
  sent,   \* requests sent so far, in order
  rx,     \* the receive buffer of the link (get_rx_fifo_out)
  port,   \* clocks the port stays busy (inFlightRequest[0].Counter)
  reads,  \* reads inside the DRAM simulator, in the order of their answers
  writes, \* writes inside the DRAM simulator
  fb      \* what bob_feedback changes, see Feedback

vars == <<sent, rx, port, reads, writes, fb>>

IsRead(r) == TransactionType(Cmd[r]) = "DATA_READ"
Responds(r) == HasResponse(Cmd[r])

\* The queue of the link, feedback_cache, bobnotify_ctr, bobnotify, and for
\* the properties the requests in order of their first answers, and those
\* answered more than once.
FeedbackState ==
  [tx : Seq(Requests), cache : Seq(Requests), ctr : 0..CtrMax, notified : BOOLEAN,
   firsts : Seq(Requests), again : SUBSET Requests]

Init ==
  /\ sent = <<>> /\ rx = <<>>
  /\ port = 0 /\ reads = <<>> /\ writes = {}
  /\ fb = [tx |-> <<>>, cache |-> <<>>, ctr |-> 0, notified |-> FALSE,
           firsts |-> <<>>, again |-> {}]

-----------------------------------------------------------------------------
(* bob_feedback. *)

\* Mutant: also a request without response needs space.
RefusedWithoutSpace(f, r) == Len(f.tx) >= TxMax

Refused(f, r) == Stalls(Cmd[r], Len(f.tx) < TxMax)

Counted(f) == IF f.ctr > 0 THEN f.ctr - 1 ELSE 0

\* Mutants: deletes the notification also without a countdown; looks at the
\* countdown before it is decremented.
StillNotifiedWhileCounting(f) == f.notified /\ f.ctr > 1

StillNotifiedAtOnce(f) == f.notified /\ f.ctr = 0

\* The end of the countdown deletes the notification.
StillNotified(f) == f.notified /\ f.ctr # 1

Answered(f, r) == r \in Range(f.firsts)

Processed(f, r) ==
  [f EXCEPT !.tx       = IF Responds(r) THEN Append(@, r) ELSE @,
            !.ctr      = Counted(f),
            !.notified = StillNotified(f),
            !.firsts   = IF Responds(r) /\ ~Answered(f, r) THEN Append(@, r) ELSE @,
            !.again    = IF Answered(f, r) THEN @ \union {r} ELSE @]

\* Mutant: the refused response is dropped.
CachedNowhere(f, r) == f

Cached(f, r) == [f EXCEPT !.cache = Append(@, r)]

Feedback(f, r) == IF Refused(f, r) THEN Cached(f, r) ELSE Processed(f, r)

-----------------------------------------------------------------------------
(* The parts of hmc_bobsim::clock. *)

\* The loop over the cache ends at the first response that is refused again;
\* this one is now in the cache once more, and nothing has left it.
Grew(f, g) == Len(g.cache) > Len(f.cache)

Resend(f) ==
  [z \in FeedbackState \X Requests |->
     IF Grew(f, z[1]) THEN z[1] ELSE Feedback(z[1], z[2])]

\* Mutant: the last response is sent first.
ResentBackwards(f) == Fold(Resend(f), f, Reverse(f.cache))

Resent(f) == Fold(Resend(f), f, f.cache)

\* The callbacks of one BOBWrapper::Update: at most one write (the set w), then
\* the oldest read, if returned.
CalledBack(f, w, returned) ==
  LET afterWrite == IF w = {} THEN f ELSE Feedback(f, CHOOSE r \in w : TRUE)
  IN  IF returned THEN Feedback(afterWrite, Head(reads)) ELSE afterWrite

\* The countdown without answers.
ClockCounted(f) == IF f.notified THEN f ELSE [f EXCEPT !.ctr = Counted(f)]

Idle == fb.ctr = 0 /\ ~fb.notified

\* The controller runs unless a response was refused again.
Runs == ~Idle /\ ~Grew(fb, Resent(fb))

FeedbackAfter(w, returned) ==
  IF Idle THEN fb
  ELSE IF Runs THEN ClockCounted(CalledBack(Resent(fb), w, returned))
  ELSE ClockCounted(Resent(fb))

PortAfter == IF Runs /\ port > 0 THEN port - 1 ELSE port

\* How long the port is busy with a request.
PortCycles(r) == IF IsRead(r) THEN 1 ELSE RqstFlits(Cmd[r]) - 1

\* Mutant: every request starts the countdown.
CountdownOfEvery(f, r) == CtrMax

\* A request without response starts the countdown.
Countdown(f, r) == IF Responds(r) THEN f.ctr ELSE CtrMax

\* The next request goes to the DRAM simulator; rs and ws are inside it, g is
\* what the callbacks have left.
Accept(g, rs, ws) ==
  /\ rx # <<>> /\ PortAfter = 0
  /\ rx' = Tail(rx)
  /\ port' = PortCycles(Head(rx))
  /\ reads' = IF IsRead(Head(rx)) THEN Append(rs, Head(rx)) ELSE rs
  /\ writes' = IF IsRead(Head(rx)) THEN ws ELSE ws \union {Head(rx)}
  /\ fb' = [g EXCEPT !.notified = TRUE, !.ctr = Countdown(g, Head(rx))]

\* There is no request, or the port is busy or its buffer full.
NoAccept(g, rs, ws) ==
  /\ rx = <<>> \/ PortAfter > 0 \/ Len(rs) + Cardinality(ws) >= PortDepth
  /\ rx' = rx /\ port' = PortAfter /\ reads' = rs /\ writes' = ws /\ fb' = g

-----------------------------------------------------------------------------
\* A request arrives in the receive buffer.
Send(r) ==
  /\ r \notin Range(sent)
  /\ Len(rx) < RxMax
  /\ sent' = Append(sent, r)
  /\ rx' = Append(rx, r)
  /\ UNCHANGED <<port, reads, writes, fb>>

\* hmc_bobsim::clock, called when the link or the controller has work.
Clock(w, returned) ==
  /\ ~Idle \/ rx # <<>>
  /\ w # {} \/ returned => Runs
  /\ returned => reads # <<>>
  /\ LET g  == FeedbackAfter(w, returned)
         rs == IF returned THEN Tail(reads) ELSE reads
         ws == writes \ w
     IN  /\ Len(g.cache) <= CacheMax
         /\ Accept(g, rs, ws) \/ NoAccept(g, rs, ws)
  /\ UNCHANGED sent

\* The front of the link's queue has left it.
Drain ==
  /\ fb.tx # <<>>
  /\ fb' = [fb EXCEPT !.tx = Tail(@)]
  /\ UNCHANGED <<sent, rx, port, reads, writes>>

\* What one Update may complete of the writes.
Completions == {{}} \union {{r} : r \in writes}

Next ==
  \/ \E r \in Requests : Send(r)
  \/ \E w \in Completions, returned \in BOOLEAN : Clock(w, returned)
  \/ Drain

Safe == Init /\ [][Next]_vars

\* The clock is called while there is work, the switch takes responses, and
\* the DRAM simulator completes what it has after it ran often enough.
Fairness ==
  /\ WF_vars(\E w \in Completions, returned \in BOOLEAN : Clock(w, returned))
  /\ WF_vars(Drain)
  /\ SF_vars(\E w \in Completions : Clock(w, TRUE))
  /\ \A r \in Requests : SF_vars(\E returned \in BOOLEAN : r \in writes /\ Clock({r}, returned))

Spec == Safe /\ Fairness

-----------------------------------------------------------------------------
(* Properties. *)

Inside == Range(reads) \union writes

\* Every variable has its type.  Only responses are cached or sent, and the
\* link's queue is never overrun.
TypeOK ==
  /\ sent \in Seq(Requests) /\ rx \in Seq(Requests) /\ port \in Nat
  /\ reads \in Seq(Requests) /\ writes \in SUBSET Requests
  /\ fb \in FeedbackState
  /\ \A r \in Range(fb.cache) \union Range(fb.tx) : Responds(r)
  /\ Len(fb.tx) <= TxMax

\* The controller is notified as long as a countdown runs: the code after the
\* loop, for a countdown without notification, is never needed.
CountdownNotified == fb.ctr > 0 => fb.notified

\* Work in the DRAM simulator or in the cache is without notification only
\* after a request without response; reads and writes with responses alone
\* never get stuck this way.
NothingForgotten ==
  Inside # {} \/ fb.cache # <<>> =>
    fb.notified \/ \E r \in Range(sent) : ~Responds(r)

\* The responses in order of completion: those sent, and then the cached ones
\* that nobody has got yet.
Completed == Joined(fb.firsts, fb.cache)

ReadRequests == {r \in Requests : IsRead(r)}

\* Reads are first answered in the order they were sent, whatever was
\* refused, cached or overtaken by writes in between.  The driver relies on
\* the order when it takes the time of a read.
ReadsInOrder ==
  Selected(Completed \o reads \o rx, ReadRequests) = Selected(sent, ReadRequests)

\* The bridge implements the memory: no request and no response is lost,
\* and first answers come in the order of completion.
Memory == INSTANCE HmcMemory WITH
  Answering <- {r \in Requests : Responds(r)},
  asked     <- Range(sent) \ Range(rx),
  pending   <- Inside,
  completed <- Completed,
  answered  <- Len(fb.firsts)

ImplementsMemory == Memory!Spec

\* As long as no response is refused and no request goes without response,
\* every request is answered.
AnsweredUnlessRefused ==
  [](fb.cache = <<>> /\ \A r \in Range(sent) : Responds(r)) =>
    \A r \in Requests : r \in Range(sent) ~> Answered(fb, r)

\* No request is answered twice.
AnsweredOnce == fb.again = {}

\* Every request that has a response is answered.
AllAnswered == \A r \in Requests : r \in Range(sent) /\ Responds(r) ~> Answered(fb, r)
=============================================================================
