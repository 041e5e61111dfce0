------------------------------- MODULE HmcVault -------------------------------
(***************************************************************************)
(* What a vault does with a request once the memory is done with it        *)
(* (hmcsim_process_rqst), as operators.  A packet is a record of the       *)
(* fields of its header and tail.                                          *)
(***************************************************************************)
EXTENDS HmcCommand

\* A request that has a response stalls as long as there is no space for it.
Stalls(cmd, space) == HasResponse(cmd) /\ ~space

\* More bytes than a block of the cube has.
ExceedsBlock(cmd, bsize) == cmd \in Checked /\ bsize < Bytes[cmd]

\* Mutant: the source link is not copied from the request.
ResponseWithTagOnly(rqst, cub, bsize) ==
  [cmd     |-> RspCmd(rqst.cmd),
   lng     |-> RspLen(rqst.cmd),
   tag     |-> rqst.tag,
   slid    |-> 0,
   cub     |-> cub,
   errstat |-> ExceedsBlock(rqst.cmd, bsize)]

\* The response, built from the request and from the block size of the cube
\* at the time of the answer.
Response(rqst, cub, bsize) ==
  [cmd     |-> RspCmd(rqst.cmd),
   lng     |-> RspLen(rqst.cmd),
   tag     |-> rqst.tag,
   slid    |-> rqst.slid,
   cub     |-> cub,
   errstat |-> ExceedsBlock(rqst.cmd, bsize)]
=============================================================================
