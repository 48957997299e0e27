------------------------------ MODULE MCDestroy ------------------------------
(* The pipeline on which TLC checks Destroy: web needs app, dns needs web;  *)
(* odd is of an unknown type, web has a run_if, app is a remote_command.   *)
EXTENDS Destroy, TLC

CONSTANTS ip1, ip2, ip3, r1, r2, r3, r4

MCIp == {ip1, ip2, ip3}
MCRecord == {r1, r2, r3, r4}
MCOrder == <<"app", "odd", "web", "dns">>
MCNeeds == [app |-> {}, odd |-> {}, web |-> {"app"}, dns |-> {"web"}]

\* Addresses and ids are told apart only by equality.
Interchangeable == Permutations(MCIp) \cup Permutations(MCRecord)
=============================================================================
