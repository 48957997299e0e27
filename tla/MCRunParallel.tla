---------------------------- MODULE MCRunParallel ---------------------------
(* Option sets for RunParallel.                                            *)
EXTENDS RunParallel, TLC

Option(rolling, batch, retries, unit, number) ==
  [rolling |-> rolling, batch |-> batch, retries |-> retries,
   unit |-> unit, number |-> number]

\* Unlimited, batched and rolling; default, relative and absolute tolerance.
MixedSettings ==
  {Option(FALSE, 0, 1, "unset", 0), Option(FALSE, 2, 1, "percent", 34),
   Option(TRUE, 3, 0, "count", 1)}

LargePercentSettings == {Option(FALSE, 0, 0, "percent", 100)}

=============================================================================
