------------------------------ MODULE MCDagSort -----------------------------
(* Pipelines for IncludeExpander and DagSort.                              *)
EXTENDS IncludeExpander

MCNeeds(n, q) == [name |-> n, needs |-> q]

\* A chain of three, a fork of two leaves, a template of no steps,
\* and one whose steps need one another.
MCTemplate ==
  [chain |-> <<MCNeeds("x", <<>>), MCNeeds("y", <<"x">>), MCNeeds("z", <<"y">>)>>,
   fork  |-> <<MCNeeds("x", <<>>), MCNeeds("y", <<"x">>), MCNeeds("z", <<"x">>)>>,
   void  |-> <<>>,
   loop  |-> <<MCNeeds("x", <<"y">>), MCNeeds("y", <<"x">>)>>]

Letters == {"a", "b", "c"}
MCName == Letters \cup {m \o "." \o n : m \in Letters, n \in {"x", "y", "z"}}

MCStep(n, q) == [name |-> n, needs |-> q, include |-> None]
MCInclude(n, q, t) == [name |-> n, needs |-> q, include |-> t]

\* Three steps over three names, each need listed once; the first is called a
\* (the other names follow by renaming).
OrderedNeeds ==
  {<<>>, <<"a">>, <<"b">>, <<"c">>, <<"a", "b">>, <<"c", "a">>, <<"b", "c">>,
   <<"c", "b", "a">>}
ThreeSteps == {MCStep(n, q) : n \in Letters, q \in OrderedNeeds}
OnePhase == {<< <<>>, <<x, y, z>>, <<>> >> : x \in {MCStep("a", q) : q \in OrderedNeeds},
                                          y, z \in ThreeSteps}

\* Two steps whose needs may be repeated or name no step.
RepeatedNeeds == {<<>>} \cup {<<m, n>> : m, n \in Letters}
TwoSteps == {MCStep(n, q) : n \in {"a", "b"}, q \in RepeatedNeeds}
Repeating == {<< <<x, y>>, <<>>, <<>> >> : x, y \in TwoSteps}

\* Up to one step in each phase, needing a step of its own or of another phase.
OneStep ==
  {<<>>} \cup {<<MCStep(n, q)>> : n \in {"a", "b"}, q \in {<<>>, <<"a">>, <<"b">>}}
AcrossPhases == {<<x, y, z>> : x, y, z \in OneStep}

\* Three steps of which any may be an include, also two of one name, which need any
\* that come before or after.
AnyStep(names) ==
  {MCInclude(n, q, t) : n \in names, q \in {<<>>, <<"a">>, <<"b">>, <<"b", "a">>},
                        t \in DOMAIN MCTemplate \cup {None}}
Including ==
  {<< <<>>, <<x, y, z>>, <<>> >> : x \in {MCInclude("a", <<>>, t) : t \in {"chain", "fork", None}},
                                y \in AnyStep({"a", "b"}), z \in AnyStep({"b", "c"})}

\* The includes of a phase are unknown to the next.
IncludesAcross ==
  {<< <<MCInclude("a", <<>>, "chain")>>, <<MCStep("b", q)>>, <<>> >> : q \in {<<>>, <<"a">>, <<"a.z">>}}

AllSources == OnePhase \cup Repeating \cup AcrossPhases \cup Including \cup IncludesAcross

ASSUME MCNamesApart == NamesApart
=============================================================================
