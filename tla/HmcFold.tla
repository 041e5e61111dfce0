-------------------------------- MODULE HmcFold --------------------------------
(***************************************************************************)
(* Folds over sequences by a function, as recursive functions that the     *)
(* proofs can use: what is left of a sequence when only some members       *)
(* count, and a sequence joined with what another one has in addition.     *)
(***************************************************************************)
EXTENDS Integers, Sequences, Functions

\* F maps <<result so far, next member>> to the next result.
FoldRun(F, x, s) ==
  LET run[n \in 0..Len(s)] == IF n = 0 THEN x ELSE F[<<run[n - 1], s[n]>>]
  IN  run

Fold(F, x, s) == FoldRun(F, x, s)[Len(s)]

Keep(U, T) ==
  [z \in Seq(U) \X U |-> IF z[2] \in T THEN Append(z[1], z[2]) ELSE z[1]]

\* The members of s that are in T, in their order.
Selected(s, T) == Fold(Keep(Range(s), T), <<>>, s)

Add(U) ==
  [z \in Seq(U) \X U |-> IF z[2] \in Range(z[1]) THEN z[1] ELSE Append(z[1], z[2])]

\* First a, then the members of s that are not there yet, each once.
Joined(a, s) == Fold(Add(Range(a) \union Range(s)), a, s)
=============================================================================
