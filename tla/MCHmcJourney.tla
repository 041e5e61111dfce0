----------------------------- MODULE MCHmcJourney -----------------------------
(***************************************************************************)
(* A chain of three cubes with a host at the first and one at the second.  *)
(***************************************************************************)
EXTENDS HmcJourney

MCHostAt == 0 :> <<0, 0>> @@ 1 :> <<1, 3>>

MCWire ==
  <<0, 1>> :> <<1, 2>> @@ <<1, 2>> :> <<0, 1>> @@ <<1, 0>> :> <<2, 3>> @@ <<2, 3>> :> <<1, 0>>

MCExt ==
  0 :> (1 :> {1} @@ 2 :> {1}) @@ 1 :> (0 :> {2} @@ 2 :> {0}) @@ 2 :> (0 :> {3} @@ 1 :> {3})

\* A tag that needs more than eleven bits, a request of one block and one of
\* more than the block sizes used, one without response, and one whose response
\* has data though it is no read.
MCRqsts == {<<"RD256", 2053>>, <<"WR64", 3>>, <<"P_WR16", 7>>, <<"BWR8R", 5>>}

MCAddresses == {{7, 9, 12, 13, 15, 33}}

MCCells == {[quad |-> 3, vault |-> 5, bank |-> {0, 2}, dram |-> {1, 19}],
            [quad |-> 1, vault |-> 2, bank |-> {1}, dram |-> 0..19]}

\* To the middle cube a mode of the vendor, the largest blocks, and more banks.
MCJtagWrites == {<<1, AC, {2}>>, <<1, AC, {0, 1, 7}>>, <<1, FEAT, {0, 9}>>}

MCBlocksizes == {<<1, 32>>, <<2, 64>>}
=============================================================================
