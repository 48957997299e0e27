----------------------------- MODULE MCAuditTrail -----------------------------
(* The instance on which TLC checks AuditTrail: runs are interchangeable.   *)
EXTENDS AuditTrail, TLC

Runs == Permutations(Run)
Asked == {<<1, 1, 0>>, Unparsed}
=============================================================================
