-------------------------- MODULE MCPipelineEngine --------------------------
(* Pipelines on which TLC checks PipelineEngine.                           *)
EXTENDS PipelineEngine, TLC

\* build b; deploy d1, then d2 and d3 in parallel; steps: f.
ForkStep == {"b", "d1", "d2", "d3", "f"}
ForkNameOf == [s \in ForkStep |-> s]
ForkPhaseOf == ("b" :> 1) @@ ("f" :> 3) @@ [s \in ForkStep |-> 2]
ForkNeeds == ("d2" :> <<"d1">>) @@ ("d3" :> <<"d1">>) @@ [s \in ForkStep |-> <<>>]
ForkRoles == ("b" :> {}) @@ [s \in ForkStep |-> {"h1", "h2"}]

\* The same with a build phase that cannot succeed unless it is left out: y has
\* an unregistered type, z roles that cannot be resolved unless its run_if skips
\* it first, and j needs both.
BadBuild == {"y", "z", "j"}
WideStep == BadBuild \cup {"d1", "d2", "d3", "f"}
WideNameOf == [s \in WideStep |-> s]
WidePhaseOf == [s \in BadBuild |-> 1] @@ ("f" :> 3) @@ [s \in WideStep |-> 2]
WideNeeds == ("d2" :> <<"d1">>) @@ ("d3" :> <<"d1">>)
             @@ ("j" :> <<"z", "y">>) @@ [s \in WideStep |-> <<>>]
WideRoles == [s \in BadBuild |-> {}] @@ [s \in WideStep |-> {"h1", "h2"}]
=============================================================================
