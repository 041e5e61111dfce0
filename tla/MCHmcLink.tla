----------------------------- MODULE MCHmcLink ------------------------------
(***************************************************************************)
(* A small link for TLC.  Two lanes and four unit intervals per clock: two *)
(* short packets go out in one clock, a long one needs two.                *)
(***************************************************************************)
EXTENDS HmcLink

MCPackets == {"short", "long"}

MCBits == [p \in MCPackets |-> IF p = "short" THEN 4 ELSE 12]
=============================================================================
