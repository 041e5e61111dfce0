------------------------------ MODULE HmcMemory ------------------------------
(***************************************************************************)
(* What a vault and the memory behind it promise to the switch: every      *)
(* request they accept completes at most once, a completed request that    *)
(* has a response is answered, none is forgotten, and the first answers    *)
(* come in the order of completion.  How often a request is answered is    *)
(* left open.                                                              *)
(***************************************************************************)
EXTENDS Integers, SequencesExt

CONSTANTS
  Requests,
  Answering   \* the requests that have a response

VARIABLES
  asked,      \* accepted so far
  pending,    \* accepted, not yet completed
  completed,  \* completed requests with a response, in order of completion
  answered    \* how many of them have been answered

vars == <<asked, pending, completed, answered>>

Init ==
  /\ asked = {}
  /\ pending = {}
  /\ completed = <<>>
  /\ answered = 0

\* In one step some requests are accepted, some complete and some are
\* answered: what happens during one clock.
Step(new, done, order) ==
  /\ asked' = asked \union new
  /\ pending' = (pending \ done) \union new
  /\ completed' = completed \o order
  /\ answered' \in answered..Len(completed')

Next ==
  \E new \in SUBSET (Requests \ asked), done \in SUBSET pending :
    \E order \in SetToSeqs(done \intersect Answering) : Step(new, done, order)

Spec == Init /\ [][Next]_vars
=============================================================================
