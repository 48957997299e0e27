--------------------------- MODULE PipelineEngine ---------------------------
(***************************************************************************)
(* Engine.Run of internal/engine/engine.go: the phases of a pipeline, the  *)
(* goroutine of every step and its errgroup, the state map the goroutines  *)
(* share, the outcome event and the rollback of a failed run.              *)
(*                                                                         *)
(* A step is a position of the pipeline, not a name: names are unique      *)
(* inside a phase (ValidateDAG refuses the rest), but two phases may use   *)
(* the same name, and then share one entry of the state map.               *)
(***************************************************************************)
EXTENDS Naturals, Sequences, FiniteSets

CONSTANTS
  Step,          \* the steps of build, deploy and steps together
  Name,          \* the step names
  NameOf,        \* NameOf[s]: Step.Name
  PhaseOf,       \* PhaseOf[s]: 1 = build, 2 = deploy, 3 = steps
  Needs,         \* Needs[s]: the names s waits for, in the order it waits
  Unregistered,  \* the steps whose Type no plugin is registered for
  Conditional,   \* the steps that have a run_if expression
  Unresolvable,  \* the steps whose Roles name an unknown role or resource
  Stateful,      \* the steps whose plugin saves rollback data in Execute
  Target,        \* the resources of the infrastructure
  Roles          \* Roles[s]: the targets ResolveTargets finds for s

\* The set of names s needs.
NeedSet(s) == {Needs[s][i] : i \in 1..Len(Needs[s])}

\* What ValidateDAG guarantees of the pipeline it accepts: names are unique in
\* a phase and every need names a step of the same phase.
ASSUME PipelineAssumption ==
  /\ NameOf \in [Step -> Name]
  /\ PhaseOf \in [Step -> 1..3]
  /\ Needs \in [Step -> Seq(Name)]
  /\ Unregistered \subseteq Step
  /\ Conditional \subseteq Step
  /\ Unresolvable \subseteq Step
  /\ Stateful \subseteq Step
  /\ Roles \in [Step -> SUBSET Target]
  /\ IsFiniteSet(Step)
  /\ \A s, t \in Step :
       PhaseOf[s] = PhaseOf[t] /\ NameOf[s] = NameOf[t] => s = t
  /\ \A s \in Step : \A n \in NeedSet(s) :
       \E d \in Step : PhaseOf[d] = PhaseOf[s] /\ NameOf[d] = n

VARIABLES
  plan,       \* stepsToRun: the topological order ValidateDAG returned
  pc,         \* where Run is
  phase,      \* the phase of the loop over phases, 4 when the loop is over
  status,     \* status[s]: how far the goroutine of s got
  awaiting,   \* awaiting[s]: index of the need the goroutine waits for
  result,     \* stateMap: result[n] is "open" until done is closed
  returned,   \* the goroutines that have returned to the errgroup
  groupErr,   \* the error eg.Wait will return is not nil
  egDone,     \* egCtx of the current phase is cancelled
  cancelled,  \* the context given to Run is cancelled
  dead,       \* deadTargets of the current DeployContext
  using,      \* using[s]: the targets Execute of s was called with
  killed,     \* history: killed[s] are the targets s marked dead
  saved,      \* names with rollback data in the current DeployContext
  succeeded,  \* the names the rollback takes for succeeded
  cursor,     \* position of the rollback loop in plan
  outcome,    \* the pipeline event published: "none", "SUCCESS", "FAILED"
  undone,     \* history: the steps Rollback was called for, in order
  informed    \* history: steps whose Rollback found its rollback data

vars == <<plan, pc, phase, status, awaiting, result, returned, groupErr, egDone,
          cancelled, dead, using, killed, saved, succeeded, cursor, outcome,
          undone, informed>>

goVars == <<awaiting, returned, groupErr, egDone>>          \* the errgroup
ctxVars == <<dead, using, killed, saved>>                   \* the DeployContext
endVars == <<succeeded, cursor, outcome, undone, informed>> \* event, rollback

-----------------------------------------------------------------------------
Planned == {plan[i] : i \in 1..Len(plan)}
Undone == {undone[i] : i \in 1..Len(undone)}

\* The steps of the phase being run.
Members == {s \in Planned : PhaseOf[s] = phase}

Settled == {"done", "skipped"}    \* done closed with a nil error
Broken == {"failed", "refused"}   \* the goroutine returns an error

\* The steps s needs, and those of earlier phases: all that must precede s.
Needed(s) == {d \in Step : PhaseOf[d] = PhaseOf[s] /\ NameOf[d] \in NeedSet(s)}
Upstream == [s \in Step |-> Needed(s) \cup {d \in Step : PhaseOf[d] < PhaseOf[s]}]

\* The orders ValidateDAG may return for the steps S: the queue of its sort is
\* seeded by ranging over a map, so any topological order of each phase.
Schedules(S) ==
  {p \in [1..Cardinality(S) -> S] :
     /\ \A s \in S : \E i \in 1..Cardinality(S) : p[i] = s
     /\ \A i, j \in 1..Cardinality(S) :
          /\ p[i] = p[j] => i = j
          /\ p[i] \in Upstream[p[j]] => i < j}

\* SkipBuild drops the build phase.
Selections == {{s \in Step : PhaseOf[s] >= first} : first \in {1, 2}}

Init ==
  /\ \E S \in Selections : plan \in Schedules(S)
  /\ pc = "start"
  /\ phase = 1
  /\ status = [s \in Step |-> "idle"]
  /\ awaiting = [s \in Step |-> 1]
  /\ result = [n \in Name |-> "absent"]
  /\ returned = {}
  /\ groupErr = FALSE
  /\ egDone = FALSE
  /\ cancelled = FALSE
  /\ dead = {}
  /\ using = [s \in Step |-> {}]
  /\ killed = [s \in Step |-> {}]
  /\ saved = {}
  /\ succeeded = {}
  /\ cursor = 0
  /\ outcome = "none"
  /\ undone = <<>>
  /\ informed = {}

-----------------------------------------------------------------------------
(* Run itself.                                                             *)

\* The variables are merged and the run goes on to its first phase.
SetUp ==
  /\ pc = "start"
  /\ pc' = "phase"
  /\ UNCHANGED <<plan, phase, status, result, cancelled, goVars, ctxVars, endVars>>

\* A parameter snapshot that cannot be read or parsed, or no temp directory:
\* Run returns at once, with no outcome event.
AbortSetUp ==
  /\ pc = "start"
  /\ pc' = "returned"
  /\ UNCHANGED <<plan, phase, status, result, cancelled, goVars, ctxVars, endVars>>

\* A phase without steps is passed over.
SkipPhase ==
  /\ pc = "phase"
  /\ phase <= 3
  /\ Members = {}
  /\ phase' = phase + 1
  /\ UNCHANGED <<plan, pc, status, result, cancelled, goVars, ctxVars, endVars>>

\* A new errgroup and a new DeployContext, then one goroutine per step.
StartPhase ==
  /\ pc = "phase"
  /\ phase <= 3
  /\ Members # {}
  /\ pc' = "run"
  /\ status' = [s \in Step |-> IF s \in Members THEN "waiting" ELSE status[s]]
  /\ result' = [n \in Name |-> IF \E s \in Members : NameOf[s] = n
                               THEN "open" ELSE result[n]]
  /\ groupErr' = FALSE
  /\ egDone' = cancelled
  /\ dead' = {}
  /\ saved' = {}
  /\ UNCHANGED <<plan, phase, awaiting, returned, cancelled, using, killed, endVars>>

\* eg.Wait: the loop goes on, or breaks at the first failed phase.
EndPhase ==
  /\ pc = "run"
  /\ Members \subseteq returned
  /\ IF groupErr THEN pc' = "report" /\ phase' = phase
                 ELSE pc' = "phase" /\ phase' = phase + 1
  /\ UNCHANGED <<plan, status, result, cancelled, goVars, ctxVars, endVars>>

EndLoop ==
  /\ pc = "phase"
  /\ phase = 4
  /\ pc' = "report"
  /\ UNCHANGED <<plan, phase, status, result, cancelled, goVars, ctxVars, endVars>>

\* Mutants of Report: done without a look at the error counts as success; a run that
\* succeeded is rolled back.
ReportIgnoringErr ==
  /\ pc = "report"
  /\ IF groupErr
     THEN /\ outcome' = "FAILED"
          /\ succeeded' = {n \in Name : result[n] \in {"ok", "err"}}
          /\ cursor' = Len(plan)
          /\ pc' = "rollback"
     ELSE outcome' = "SUCCESS" /\ pc' = "returned" /\ UNCHANGED <<succeeded, cursor>>
  /\ UNCHANGED <<plan, phase, status, result, cancelled, goVars, ctxVars, undone,
                 informed>>

ReportThenRollBack ==
  /\ pc = "report"
  /\ outcome' = IF groupErr THEN "FAILED" ELSE "SUCCESS"
  /\ succeeded' = {n \in Name : result[n] = "ok"}
  /\ cursor' = Len(plan)
  /\ pc' = "rollback"
  /\ UNCHANGED <<plan, phase, status, result, cancelled, goVars, ctxVars, undone,
                 informed>>

\* The pipeline event comes first; a failed run then collects the names whose
\* done channel is closed with a nil error, in a fresh DeployContext.
Report ==
  /\ pc = "report"
  /\ IF groupErr
     THEN /\ outcome' = "FAILED"
          /\ succeeded' = {n \in Name : result[n] = "ok"}
          /\ cursor' = Len(plan)
          /\ saved' = {}
          /\ dead' = {}
          /\ pc' = "rollback"
     ELSE /\ outcome' = "SUCCESS"
          /\ pc' = "returned"
          /\ UNCHANGED <<succeeded, cursor, saved, dead>>
  /\ UNCHANGED <<plan, phase, status, result, cancelled, goVars, using, killed,
                 undone, informed>>

\* plugin.Rollback of the step at the cursor; its error is only logged.
RollBack ==
  /\ pc = "rollback"
  /\ cursor >= 1
  /\ NameOf[plan[cursor]] \in succeeded
  /\ plan[cursor] \notin Unregistered
  /\ undone' = Append(undone, plan[cursor])
  /\ informed' = IF NameOf[plan[cursor]] \in saved
                 THEN informed \cup {plan[cursor]} ELSE informed
  /\ cursor' = cursor - 1
  /\ UNCHANGED <<plan, pc, phase, status, result, cancelled, goVars, ctxVars,
                 succeeded, outcome>>

PassOver ==
  /\ pc = "rollback"
  /\ cursor >= 1
  /\ NameOf[plan[cursor]] \notin succeeded \/ plan[cursor] \in Unregistered
  /\ cursor' = cursor - 1
  /\ UNCHANGED <<plan, pc, phase, status, result, cancelled, goVars, ctxVars,
                 succeeded, outcome, undone, informed>>

EndRollback ==
  /\ pc = "rollback"
  /\ cursor = 0
  /\ pc' = "returned"
  /\ UNCHANGED <<plan, phase, status, result, cancelled, goVars, ctxVars, endVars>>

-----------------------------------------------------------------------------
(* The goroutine of step s.                                                *)

AllNeedsMet(s) == awaiting[s] > Len(Needs[s])
CurrentNeed(s) == Needs[s][awaiting[s]]

\* Mutant of NeedMet: the error of the need is not looked at.
NeedMetIgnoringErr(s) ==
  /\ status[s] = "waiting"
  /\ ~AllNeedsMet(s)
  /\ result[CurrentNeed(s)] \in {"ok", "err"}
  /\ awaiting' = [awaiting EXCEPT ![s] = @ + 1]
  /\ UNCHANGED <<plan, pc, phase, status, result, returned, groupErr, egDone,
                 cancelled, ctxVars, endVars>>

\* The done channel of the need is closed and its error is nil.
NeedMet(s) ==
  /\ status[s] = "waiting"
  /\ ~AllNeedsMet(s)
  /\ result[CurrentNeed(s)] = "ok"
  /\ awaiting' = [awaiting EXCEPT ![s] = @ + 1]
  /\ UNCHANGED <<plan, pc, phase, status, result, returned, groupErr, egDone,
                 cancelled, ctxVars, endVars>>

\* The goroutine returns an error without closing its own done channel.
Refuse(s) ==
  /\ status' = [status EXCEPT ![s] = "refused"]
  /\ UNCHANGED <<plan, pc, phase, result, cancelled, goVars, ctxVars, endVars>>

NeedFailed(s) ==
  /\ status[s] = "waiting"
  /\ ~AllNeedsMet(s)
  /\ result[CurrentNeed(s)] = "err"
  /\ Refuse(s)

\* Mutant of Abandon: the goroutine goes back to waiting for its first need.
AbandonToWaitAgain(s) ==
  /\ status[s] = "waiting"
  /\ ~AllNeedsMet(s)
  /\ egDone
  /\ awaiting' = [awaiting EXCEPT ![s] = 1]
  /\ UNCHANGED <<plan, pc, phase, status, result, returned, groupErr, egDone,
                 cancelled, ctxVars, endVars>>

\* The other branch of the select; with both ready Go picks either.
Abandon(s) ==
  /\ status[s] = "waiting"
  /\ ~AllNeedsMet(s)
  /\ egDone
  /\ Refuse(s)

UnknownType(s) ==
  /\ status[s] = "waiting"
  /\ AllNeedsMet(s)
  /\ s \in Unregistered
  /\ Refuse(s)

\* run_if is false: done is closed with a nil error and nothing is executed.
SkipByRunIf(s) ==
  /\ status[s] = "waiting"
  /\ AllNeedsMet(s)
  /\ s \in Conditional \ Unregistered
  /\ status' = [status EXCEPT ![s] = "skipped"]
  /\ result' = [result EXCEPT ![NameOf[s]] = "ok"]
  /\ UNCHANGED <<plan, pc, phase, cancelled, goVars, ctxVars, endVars>>

ResolveFails(s) ==
  /\ status[s] = "waiting"
  /\ AllNeedsMet(s)
  /\ s \in Unresolvable \ Unregistered
  /\ Refuse(s)

\* Mutant of Begin: the dead targets are not filtered out.
BeginUnfiltered(s) ==
  /\ status[s] = "waiting"
  /\ AllNeedsMet(s)
  /\ s \notin Unregistered \cup Unresolvable
  /\ status' = [status EXCEPT ![s] = "running"]
  /\ using' = [using EXCEPT ![s] = Roles[s]]
  /\ UNCHANGED <<plan, pc, phase, result, cancelled, goVars, dead, killed, saved,
                 endVars>>

\* FilterHealthy, the Running event, then plugin.Execute.
Begin(s) ==
  /\ status[s] = "waiting"
  /\ AllNeedsMet(s)
  /\ s \notin Unregistered \cup Unresolvable
  /\ status' = [status EXCEPT ![s] = "running"]
  /\ using' = [using EXCEPT ![s] = Roles[s] \ dead]
  /\ UNCHANGED <<plan, pc, phase, result, cancelled, goVars, dead, killed, saved,
                 endVars>>

\* RunParallel inside Execute gives a target up.
MarkDead(s, t) ==
  /\ status[s] = "running"
  /\ t \in using[s] \ dead
  /\ dead' = dead \cup {t}
  /\ killed' = [killed EXCEPT ![s] = @ \cup {t}]
  /\ UNCHANGED <<plan, pc, phase, status, result, cancelled, goVars, using, saved,
                 endVars>>

\* Execute returns nil: the error is recorded, then done is closed.
Succeed(s) ==
  /\ status[s] = "running"
  /\ status' = [status EXCEPT ![s] = "done"]
  /\ result' = [result EXCEPT ![NameOf[s]] = "ok"]
  /\ saved' = IF s \in Stateful THEN saved \cup {NameOf[s]} ELSE saved
  /\ UNCHANGED <<plan, pc, phase, cancelled, goVars, dead, using, killed, endVars>>

Fail(s) ==
  /\ status[s] = "running"
  /\ status' = [status EXCEPT ![s] = "failed"]
  /\ result' = [result EXCEPT ![NameOf[s]] = "err"]
  /\ UNCHANGED <<plan, pc, phase, cancelled, goVars, ctxVars, endVars>>

\* Mutant of Return: a goroutine that gave up before Execute returns nil.
ReturnLosingRefusal(s) ==
  /\ status[s] \in Settled \cup Broken
  /\ s \notin returned
  /\ returned' = returned \cup {s}
  /\ groupErr' = (groupErr \/ status[s] = "failed")
  /\ egDone' = (egDone \/ status[s] = "failed")
  /\ UNCHANGED <<plan, pc, phase, status, awaiting, result, cancelled, ctxVars,
                 endVars>>

\* errgroup: the first error cancels egCtx.
Return(s) ==
  /\ status[s] \in Settled \cup Broken
  /\ s \notin returned
  /\ returned' = returned \cup {s}
  /\ groupErr' = (groupErr \/ status[s] \in Broken)
  /\ egDone' = (egDone \/ status[s] \in Broken)
  /\ UNCHANGED <<plan, pc, phase, status, awaiting, result, cancelled, ctxVars,
                 endVars>>

\* The user quits, or the caller's deadline passes.
Cancel ==
  /\ pc # "returned"
  /\ ~cancelled
  /\ cancelled' = TRUE
  /\ egDone' = TRUE
  /\ UNCHANGED <<plan, pc, phase, status, awaiting, result, returned, groupErr,
                 ctxVars, endVars>>

-----------------------------------------------------------------------------
Goroutine(s) ==
  \/ NeedMet(s) \/ NeedFailed(s) \/ Abandon(s)
  \/ UnknownType(s) \/ SkipByRunIf(s) \/ ResolveFails(s)
  \/ Begin(s) \/ Succeed(s) \/ Fail(s) \/ Return(s)

RunLoop ==
  \/ SetUp \/ AbortSetUp
  \/ SkipPhase \/ StartPhase \/ EndPhase \/ EndLoop
  \/ Report \/ RollBack \/ PassOver \/ EndRollback

\* Run has returned: nothing is left to do.
Finished == pc = "returned" /\ UNCHANGED vars

Next ==
  \/ RunLoop
  \/ Cancel
  \/ Finished
  \/ \E s \in Step : Goroutine(s) \/ \E t \in Target : MarkDead(s, t)

Spec == Init /\ [][Next]_vars

\* Run's own code and every goroutine that can go on is eventually scheduled;
\* a plugin's Execute and Rollback eventually return. Nothing makes the user
\* cancel or a target die.
Fairness == WF_vars(RunLoop) /\ \A s \in Step : WF_vars(Goroutine(s))

FairSpec == Spec /\ Fairness

-----------------------------------------------------------------------------
(* Properties.                                                             *)

\* The variables stay in their types.
TypeOK ==
  /\ plan \in Seq(Step)
  /\ pc \in {"start", "phase", "run", "report", "rollback", "returned"}
  /\ phase \in 1..4
  /\ status \in [Step -> {"idle", "waiting", "running"} \cup Settled \cup Broken]
  /\ awaiting \in [Step -> Nat \ {0}]
  /\ result \in [Name -> {"absent", "open", "ok", "err"}]
  /\ returned \subseteq Step
  /\ groupErr \in BOOLEAN
  /\ egDone \in BOOLEAN
  /\ cancelled \in BOOLEAN
  /\ dead \subseteq Target
  /\ using \in [Step -> SUBSET Target]
  /\ killed \in [Step -> SUBSET Target]
  /\ saved \subseteq Name
  /\ succeeded \subseteq Name
  /\ cursor \in 0..Len(plan)
  /\ outcome \in {"none", "SUCCESS", "FAILED"}
  /\ undone \in Seq(Step)
  /\ informed \subseteq Step

Executed == {"running", "done", "failed"}

\* A step is executed or skipped only after every step it needs, and every
\* planned step of an earlier phase, has settled: the done channels, the
\* errgroup and the loop over phases together enforce the order of the DAG.
StartsAfterUpstream ==
  \A s \in Planned : status[s] \in Executed \cup {"skipped"} =>
    \A d \in Upstream[s] \cap Planned : status[d] \in Settled

\* Once a step of a phase is broken, no step of a later phase ever leaves
\* "idle" (the loop breaks on the error of eg.Wait).
BrokenPhaseStopsRun ==
  \A s, t \in Planned :
    status[s] \in Broken /\ PhaseOf[s] < PhaseOf[t] => status[t] = "idle"

\* The outcome event and the rollback come after the last goroutine: nothing
\* is executed, or can still start, beside them.
QuiescentEnd ==
  pc \in {"report", "rollback", "returned"} =>
    \A s \in Step : status[s] \notin {"waiting", "running"}

\* SUCCESS is published exactly for the runs in which every planned step
\* settled, FAILED exactly for those in which a step broke.
OutcomeFaithful ==
  /\ outcome = "SUCCESS" => \A s \in Planned : status[s] \in Settled
  /\ outcome = "FAILED" => \E s \in Planned : status[s] \in Broken

\* No step is given a target that a step it needs has marked dead.
DeadTargetsExcluded ==
  \A s \in Planned : \A d \in Needed(s) : using[s] \cap killed[d] = {}

\* When a failed run returns, Rollback has been called once for every step
\* whose done channel was closed without error, and for no other step.
RollbackComplete ==
  pc = "returned" /\ outcome = "FAILED" =>
    /\ Undone = {s \in Planned : status[s] \in Settled}
    /\ Len(undone) = Cardinality(Undone)

\* Steps are rolled back dependents first.
RollbackReversesDAG ==
  \A i, j \in 1..Len(undone) : i < j => undone[i] \notin Upstream[undone[j]]

\* When a step whose Execute ran and saved rollback data is rolled back, its
\* Rollback reads what was saved.
RollbackSeesSavedData ==
  \A s \in Undone \cap Stateful : status[s] = "done" => s \in informed

\* Run returns, whatever step breaks, waits or is refused: a goroutine whose
\* need never closes its done channel is freed by the cancelled errgroup.
Terminates == <>(pc = "returned")

\* A broken step is eventually answered by a FAILED event.
FailureReported ==
  (\E s \in Step : status[s] \in Broken) ~> (outcome = "FAILED")

\* The run implements the saga of DeploymentSaga.
SagaState(st) ==
  CASE st \in {"idle", "waiting"} -> "pending"
    [] st = "running" -> "active"
    [] st \in Settled -> "settled"
    [] st \in Broken -> "broken"

Saga == INSTANCE DeploymentSaga WITH
          members <- Planned,
          state <- [s \in Step |-> SagaState(status[s])],
          verdict <- IF outcome = "none" THEN "open" ELSE outcome,
          undone <- undone

ImplementsSaga == Saga!SagaSpec
=============================================================================
