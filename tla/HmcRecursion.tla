----------------------------- MODULE HmcRecursion ----------------------------
(***************************************************************************)
(* Iteration of a function and the sum of a sequence of numbers, as        *)
(* recursive functions so that the proofs can use them.                    *)
(***************************************************************************)
EXTENDS Integers, Sequences

\* Iterated(F, x)[n] is F applied n times to x.
Iterated(F, x) ==
  LET run[n \in Nat] == IF n = 0 THEN x ELSE F[run[n - 1]]
  IN  run

\* s[n], and 0 beyond the end of s.
At(s, n) == IF n \in DOMAIN s THEN s[n] ELSE 0

Partial(s) ==
  LET sum[n \in Nat] == IF n = 0 THEN 0 ELSE sum[n - 1] + At(s, n)
  IN  sum

Total(s) == Partial(s)[Len(s)]
=============================================================================
