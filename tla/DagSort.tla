------------------------------- MODULE DagSort ------------------------------
(***************************************************************************)
(* internal/engine/dag.go: ValidateDAG sorts each phase of a pipeline by   *)
(* its needs and puts the three orders one after the other.                *)
(*                                                                         *)
(* A step is a record of its name and its needs, a phase a sequence of     *)
(* steps, a pipeline the three phases.  IncludeExpander makes the pipeline. *)
(***************************************************************************)
EXTENDS Naturals, Sequences, FiniteSets

CONSTANT Name   \* the names a step or a need may have

ASSUME DagAssumption == IsFiniteSet(Name)

VARIABLES
  pipeline,   \* the pipeline
  phase,      \* the phase being sorted, 4 when all are
  stage,      \* "scan", "sort" within a phase; then "accepted" or "rejected"
  position,   \* the step the scan is at
  need,       \* and which of its needs
  counted,    \* the names that have an entry in inDegree
  inDegree,
  adj,        \* adj[n]: the names waiting for n
  queue,
  edges,      \* what is left of adj of the name just taken from the queue
  order,      \* positions of the steps sorted so far in this phase
  sorted      \* sorted[p]: the order of phase p

scanVars == <<position, need, counted>>
sortVars == <<queue, edges, order, sorted>>
dagVars == <<pipeline, phase, stage, scanVars, inDegree, adj, sortVars>>

-----------------------------------------------------------------------------
Steps == pipeline[phase]

\* The keys of nameToStep.
Names(p) == {pipeline[p][i].name : i \in 1..Len(pipeline[p])}

NeedSet(s) == {s.needs[i] : i \in 1..Len(s.needs)}

\* nameToStep: a later step of the same name replaces an earlier one.
StepNamed(n) ==
  CHOOSE i \in 1..Len(Steps) :
    Steps[i].name = n /\ \A j \in i+1..Len(Steps) : Steps[j].name # n

\* The sequences that list the set S, each element once.
Listings(S) ==
  {q \in [1..Cardinality(S) -> S] :
     \A i, j \in 1..Cardinality(S) : q[i] = q[j] => i = j}

SortInit ==
  /\ phase = 1
  /\ position = 1
  /\ need = 1
  /\ counted = {}
  /\ inDegree = [n \in Name |-> 0]
  /\ adj = [n \in Name |-> <<>>]
  /\ queue = <<>>
  /\ edges = <<>>
  /\ order = <<>>
  /\ sorted = [p \in 1..3 |-> <<>>]

-----------------------------------------------------------------------------
Scanned == Steps[position]

\* One entry in adj per occurrence of a need.
LinkNeed ==
  /\ stage = "scan"
  /\ position <= Len(Steps) /\ need <= Len(Scanned.needs)
  /\ Scanned.needs[need] \in Names(phase)
  /\ adj' = [adj EXCEPT ![Scanned.needs[need]] = Append(@, Scanned.name)]
  /\ inDegree' = [inDegree EXCEPT ![Scanned.name] = @ + 1]
  /\ need' = need + 1
  /\ UNCHANGED <<pipeline, phase, stage, position, counted, sortVars>>

\* A need that no step of this phase has for a name.
UnknownNeed ==
  /\ stage = "scan"
  /\ position <= Len(Steps) /\ need <= Len(Scanned.needs)
  /\ Scanned.needs[need] \notin Names(phase)
  /\ stage' = "rejected"
  /\ UNCHANGED <<pipeline, phase, scanVars, inDegree, adj, sortVars>>

NextStep ==
  /\ stage = "scan"
  /\ position <= Len(Steps) /\ need > Len(Scanned.needs)
  /\ counted' = counted \cup {Scanned.name}
  /\ position' = position + 1
  /\ need' = 1
  /\ UNCHANGED <<pipeline, phase, stage, inDegree, adj, sortVars>>

\* The queue is seeded by ranging over a map: any order.
Seed ==
  /\ stage = "scan"
  /\ position > Len(Steps)
  /\ queue' \in Listings({n \in counted : inDegree[n] = 0})
  /\ stage' = "sort"
  /\ UNCHANGED <<pipeline, phase, scanVars, inDegree, adj, edges, order, sorted>>

Take ==
  /\ stage = "sort"
  /\ edges = <<>>
  /\ queue # <<>>
  /\ order' = Append(order, StepNamed(Head(queue)))
  /\ edges' = adj[Head(queue)]
  /\ queue' = Tail(queue)
  /\ UNCHANGED <<pipeline, phase, stage, scanVars, inDegree, adj, sorted>>

Relax ==
  /\ stage = "sort"
  /\ edges # <<>>
  /\ inDegree' = [inDegree EXCEPT ![Head(edges)] = @ - 1]
  /\ queue' = IF inDegree[Head(edges)] = 1 THEN Append(queue, Head(edges)) ELSE queue
  /\ edges' = Tail(edges)
  /\ UNCHANGED <<pipeline, phase, stage, scanVars, adj, order, sorted>>

NextPhase ==
  /\ sorted' = [sorted EXCEPT ![phase] = order]
  /\ phase' = phase + 1
  /\ stage' = IF phase = 3 THEN "accepted" ELSE "scan"
  /\ position' = 1
  /\ need' = 1
  /\ counted' = {}
  /\ inDegree' = [n \in Name |-> 0]
  /\ adj' = [n \in Name |-> <<>>]
  /\ order' = <<>>
  /\ UNCHANGED <<pipeline, queue, edges>>

\* Mutant of EndPhase: the number of sorted steps is not checked.
EndPhaseUnchecked ==
  /\ stage = "sort"
  /\ queue = <<>>
  /\ edges = <<>>
  /\ NextPhase

EndPhase ==
  /\ stage = "sort"
  /\ queue = <<>>
  /\ edges = <<>>
  /\ Len(order) = Len(Steps)
  /\ NextPhase

\* Not every step was reached: reported as a cycle.
CycleFound ==
  /\ stage = "sort"
  /\ queue = <<>>
  /\ edges = <<>>
  /\ Len(order) # Len(Steps)
  /\ stage' = "rejected"
  /\ UNCHANGED <<pipeline, phase, scanVars, inDegree, adj, sortVars>>

Sort == LinkNeed \/ UnknownNeed \/ NextStep \/ Seed \/ Take \/ Relax \/ EndPhase \/ CycleFound

\* The sort of any pipeline, wherever it comes from.
AnyPipeline ==
  /\ pipeline \in [1..3 -> Seq([name : Name, needs : Seq(Name)])]
  /\ stage = "scan"
  /\ SortInit

SortSpec == AnyPipeline /\ [][Sort]_dagVars

-----------------------------------------------------------------------------
(* Which pipelines are accepted.                                           *)

UniqueNames(p) ==
  \A i, j \in 1..Len(pipeline[p]) : pipeline[p][i].name = pipeline[p][j].name => i = j

NeedsAmong(p, names) ==
  \A i \in 1..Len(pipeline[p]) : NeedSet(pipeline[p][i]) \subseteq names

\* No set of steps of the phase that all wait for one another.
Acyclic(p) ==
  \A B \in SUBSET (1..Len(pipeline[p])) : B # {} =>
    \E i \in B : \A j \in B : pipeline[p][j].name \notin NeedSet(pipeline[p][i])

WellFormed(p) == UniqueNames(p) /\ NeedsAmong(p, Names(p)) /\ Acyclic(p)

\* Exactly the pipelines that are well formed in every phase are accepted; in
\* particular one with a repeated name in a phase is not, although the code
\* never looks for it.  That a need must name a step of its own phase is the
\* code's reading of needs (dag.go:52), not the engine test's: see the next.
AcceptsWellFormed ==
  /\ stage = "accepted" => \A p \in 1..3 : WellFormed(p)
  /\ stage = "rejected" => \E p \in 1..3 : ~WellFormed(p)

NamesUpTo(p) == UNION {Names(q) : q \in 1..p}

\* The reading of TestEngine_FullFlowWithBuild (engine_test.go:689): a step may
\* also need a step of an earlier phase, and is not refused for it.
AcceptsNeedsAcrossPhases ==
  stage = "rejected" =>
    \E p \in 1..3 : ~(UniqueNames(p) /\ NeedsAmong(p, NamesUpTo(p)) /\ Acyclic(p))
=============================================================================
