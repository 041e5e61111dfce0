------------------------------ MODULE MCHmcRoute ------------------------------
(***************************************************************************)
(* Small networks for TLC.                                                 *)
(***************************************************************************)
EXTENDS HmcRoute

\* Of the links of a cube the one numbered for the other cube is used.
LinkTo(a, b) == IF b < a THEN b ELSE b - 1

Wires == {<<a, LinkTo(a, b), b, LinkTo(b, a)>> : a, b \in Cubes}

MCWires == {f \in Wires : f[1] < f[3]}

\* A second connection between the first two cubes.
MCParallel == MCWires \union {<<0, 3, 1, 3>>}

\* Any two links, also taken ones.
MCAny == {f \in Cubes \X LinkIds \X Cubes \X LinkIds : f[1] < f[3]}

MCNone == {}

MCHosts == Slids \X {0} \X LinkIds
=============================================================================
