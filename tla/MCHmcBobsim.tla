----------------------------- MODULE MCHmcBobsim -----------------------------
(***************************************************************************)
(* Requests for TLC: two reads, a write that keeps the port busy for two   *)
(* clocks, and a posted write.                                             *)
(***************************************************************************)
EXTENDS HmcBobsim

MCCmd == [r \in Requests |->
  CASE r = "p"          -> "P_WR16"
    [] r = "w"          -> "WR32"
    [] r \in {"r", "s"} -> "RD64"]
=============================================================================
