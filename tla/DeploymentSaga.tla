--------------------------- MODULE DeploymentSaga ---------------------------
(***************************************************************************)
(* What one run of a pipeline promises, without saying how it is done:     *)
(* every step of the run is settled (it finished, or its run_if condition  *)
(* skipped it) or broken; a step only becomes active once everything       *)
(* upstream of it is settled; the run is concluded once, when nothing is   *)
(* active; and a failed run takes back the settled steps, dependents       *)
(* before what they depend on, each at most once.                          *)
(* PipelineEngine is shown to implement this specification.                *)
(***************************************************************************)
EXTENDS Naturals, Sequences

CONSTANTS
  Step,      \* the steps of the pipeline
  Upstream   \* Upstream[s]: the steps that must be settled before s may act

VARIABLES
  members,   \* the steps that belong to this run
  state,     \* state[s]: "pending", "active", "settled" or "broken"
  verdict,   \* "open" until the run is concluded
  undone     \* the steps that were taken back, in the order it happened

sagaVars == <<members, state, verdict, undone>>

Undone == {undone[i] : i \in 1..Len(undone)}

UpstreamSettled(s) == \A d \in Upstream[s] \cap members : state[d] = "settled"

SagaInit ==
  /\ members \in SUBSET Step
  /\ state = [s \in Step |-> "pending"]
  /\ verdict = "open"
  /\ undone = <<>>

Activate(s) ==
  /\ verdict = "open"
  /\ s \in members
  /\ state[s] = "pending"
  /\ UpstreamSettled(s)
  /\ state' = [state EXCEPT ![s] = "active"]
  /\ UNCHANGED <<members, verdict, undone>>

\* A step settles by finishing, or by being skipped once its turn has come.
Settle(s) ==
  /\ verdict = "open"
  /\ s \in members
  /\ state[s] \in {"active", "pending"}
  /\ UpstreamSettled(s)
  /\ state' = [state EXCEPT ![s] = "settled"]
  /\ UNCHANGED <<members, verdict, undone>>

Break(s) ==
  /\ verdict = "open"
  /\ s \in members
  /\ state[s] \in {"active", "pending"}
  /\ state' = [state EXCEPT ![s] = "broken"]
  /\ UNCHANGED <<members, verdict, undone>>

Conclude ==
  /\ verdict = "open"
  /\ \A s \in members : state[s] # "active"
  /\ \/ /\ \A s \in members : state[s] = "settled"
        /\ verdict' = "SUCCESS"
     \/ /\ \E s \in members : state[s] = "broken"
        /\ verdict' = "FAILED"
  /\ UNCHANGED <<members, state, undone>>

Undo(s) ==
  /\ verdict = "FAILED"
  /\ s \in members
  /\ state[s] = "settled"
  /\ s \notin Undone
  /\ \A t \in members : state[t] = "settled" /\ s \in Upstream[t] => t \in Undone
  /\ undone' = Append(undone, s)
  /\ UNCHANGED <<members, state, verdict>>

SagaNext ==
  \/ \E s \in Step : Activate(s) \/ Settle(s) \/ Break(s) \/ Undo(s)
  \/ Conclude

SagaSpec == SagaInit /\ [][SagaNext]_sagaVars
=============================================================================
