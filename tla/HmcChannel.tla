----------------------------- MODULE HmcChannel -----------------------------
(***************************************************************************)
(* What a link promises to the two modules it connects: every packet it    *)
(* accepts arrives at the far end, once, in the order of acceptance.       *)
(***************************************************************************)
EXTENDS Sequences

CONSTANT Packets

VARIABLES
  flight,   \* accepted, not yet arrived
  arrived   \* arrived, not yet taken

vars == <<flight, arrived>>

Init == flight = <<>> /\ arrived = <<>>

Accept(p) ==
  /\ flight' = Append(flight, p)
  /\ UNCHANGED arrived

Arrive ==
  /\ flight # <<>>
  /\ arrived' = Append(arrived, Head(flight))
  /\ flight' = Tail(flight)

Take ==
  /\ arrived # <<>>
  /\ arrived' = Tail(arrived)
  /\ UNCHANGED flight

Next == (\E p \in Packets : Accept(p)) \/ Arrive \/ Take

Safe == Init /\ [][Next]_vars

Spec == Safe /\ WF_vars(Arrive)
=============================================================================
