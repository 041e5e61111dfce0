---------------------------- MODULE MCHmcConnPart ----------------------------
(***************************************************************************)
(* Switches for TLC.  "a" and "b" leave by slot 0, "c" by slot 2; the      *)
(* slots between and behind them have no link, as in a quad without host.  *)
(***************************************************************************)
EXTENDS HmcConnPart

MCRoute == [p \in Packets |-> IF p = "c" THEN 2 ELSE 0]
=============================================================================
