----------------------------- MODULE RunParallel ----------------------------
(***************************************************************************)
(* internal/core/parallel.go: one call of RunParallel, the way a plugin    *)
(* spreads a step over its targets.  One goroutine per healthy target, a   *)
(* semaphore, retries, the blacklist of dead targets and the tolerance.    *)
(*                                                                         *)
(* A tolerance is kept in hundredths, so that 5 is the float 0.05 and 200  *)
(* the float 2.0; the floor of the percentage is taken on exact integers.  *)
(***************************************************************************)
EXTENDS Naturals, FiniteSets

CONSTANTS
  Target,    \* the targets the step is given
  Settings   \* the step options a run may have: records as in SettingType

SettingType ==
  [rolling : BOOLEAN, batch : Nat, retries : Nat,
   unit : {"unset", "percent", "count"}, number : Nat]

ASSUME ParallelAssumption == IsFiniteSet(Target) /\ Settings \subseteq SettingType

VARIABLES
  setting,    \* the options of the step
  healthy,    \* what FilterHealthy left of the targets
  task,       \* task[t]: how far the goroutine of t got
  attempt,    \* attempt[t]: calls of fn for t so far
  seen,       \* seen[t]: value of failedCount the goroutine of t got back
  slots,      \* tokens in the semaphore
  failed,     \* failedCount
  dead,       \* the blacklist of the DeployContext, as this call fills it
  handled,    \* history: the targets fn succeeded for
  egErr,      \* the error eg.Wait will return: "none", "exceeded", "aborted"
  egDone,     \* egCtx is cancelled
  answer      \* what RunParallel returned: "none" while it runs

vars == <<setting, healthy, task, attempt, seen, slots, failed, dead, handled,
          egErr, egDone, answer>>
endVars == <<egErr, egDone, answer>>

-----------------------------------------------------------------------------
(* ParseParallelOptions.                                                   *)

\* Mutant of BatchSize: "rolling" is not looked at.
BatchSizeAsWritten(o) == o.batch

BatchSize(o) == IF o.rolling THEN 1 ELSE o.batch

Tolerance(o) ==
  CASE o.unit = "unset"   -> 5
    [] o.unit = "percent" -> o.number
    [] o.unit = "count"   -> 100 * o.number

\* Failures RunParallel puts up with among total targets.
AllowedOf(o, total) ==
  IF Tolerance(o) > 0 /\ Tolerance(o) < 100
  THEN (total * Tolerance(o)) \div 100
  ELSE Tolerance(o) \div 100

Allowed == AllowedOf(setting, Cardinality(healthy))

Limited == BatchSize(setting) > 0

Init ==
  /\ setting \in Settings
  /\ healthy \in SUBSET Target
  /\ task = [t \in Target |-> IF t \in healthy THEN "queued" ELSE "absent"]
  /\ attempt = [t \in Target |-> 0]
  /\ seen = [t \in Target |-> 0]
  /\ slots = 0
  /\ failed = 0
  /\ dead = Target \ healthy
  /\ handled = {}
  /\ egErr = "none"
  /\ egDone = FALSE
  /\ answer = "none"

-----------------------------------------------------------------------------
Go(t, from, to) ==
  /\ answer = "none"
  /\ task[t] = from
  /\ task' = [task EXCEPT ![t] = to]

\* A slot of the semaphore, if there is one.
Acquire(t) ==
  /\ Go(t, "queued", "calling")
  /\ IF Limited THEN slots < BatchSize(setting) /\ slots' = slots + 1
                ELSE slots' = slots
  /\ UNCHANGED <<setting, healthy, attempt, seen, failed, dead, handled,
                 endVars>>

\* egCtx.Done while waiting for a slot: nothing was acquired.
LeaveQueue(t) ==
  /\ Limited
  /\ egDone
  /\ Go(t, "queued", "aborted")
  /\ UNCHANGED <<setting, healthy, attempt, seen, slots, failed, dead,
                 handled, endVars>>

FnSucceeds(t) ==
  /\ Go(t, "calling", "ok")
  /\ attempt' = [attempt EXCEPT ![t] = @ + 1]
  /\ handled' = handled \cup {t}
  /\ UNCHANGED <<setting, healthy, seen, slots, failed, dead, endVars>>

\* Mutant of FnFails: the target is given up one attempt early.
FnFailsEarly(t) ==
  /\ Go(t, "calling",
        IF attempt[t] + 1 < setting.retries THEN "delayed" ELSE "exhausted")
  /\ attempt' = [attempt EXCEPT ![t] = @ + 1]
  /\ UNCHANGED <<setting, healthy, seen, slots, failed, dead, handled, endVars>>

\* fn returns an error; also what a call cut short by egCtx comes to.
FnFails(t) ==
  /\ Go(t, "calling",
        IF attempt[t] < setting.retries THEN "delayed" ELSE "exhausted")
  /\ attempt' = [attempt EXCEPT ![t] = @ + 1]
  /\ UNCHANGED <<setting, healthy, seen, slots, failed, dead, handled, endVars>>

\* The retry delay passes.
Retry(t) ==
  /\ Go(t, "delayed", "calling")
  /\ UNCHANGED <<setting, healthy, attempt, seen, slots, failed, dead,
                 handled, endVars>>

LeaveDelay(t) ==
  /\ egDone
  /\ Go(t, "delayed", "cutoff")
  /\ UNCHANGED <<setting, healthy, attempt, seen, slots, failed, dead,
                 handled, endVars>>

MarkDead(t) ==
  /\ Go(t, "exhausted", "marked")
  /\ dead' = dead \cup {t}
  /\ UNCHANGED <<setting, healthy, attempt, seen, slots, failed, handled,
                 endVars>>

\* Mutant of CountFailure: the counter is read before the increment.
CountFailureStale(t) ==
  /\ Go(t, "marked", "counted")
  /\ failed' = failed + 1
  /\ seen' = [seen EXCEPT ![t] = failed]
  /\ UNCHANGED <<setting, healthy, attempt, slots, dead, handled, endVars>>

\* atomic.AddInt32
CountFailure(t) ==
  /\ Go(t, "marked", "counted")
  /\ failed' = failed + 1
  /\ seen' = [seen EXCEPT ![t] = failed + 1]
  /\ UNCHANGED <<setting, healthy, attempt, slots, dead, handled, endVars>>

Verdict(t) ==
  CASE task[t] = "counted" -> IF seen[t] > Allowed THEN "exceeded" ELSE "passed"
    [] task[t] = "cutoff" -> "aborted"
    [] task[t] = "ok" -> "passed"

\* Mutant of Release: the slot is not given back.
ReleaseLeaking(t) ==
  /\ task[t] \in {"counted", "cutoff", "ok"}
  /\ Go(t, task[t], Verdict(t))
  /\ UNCHANGED <<setting, healthy, attempt, seen, slots, failed, dead, handled,
                 endVars>>

\* The deferred release of the slot runs before errgroup sees the error.
Release(t) ==
  /\ task[t] \in {"counted", "cutoff", "ok"}
  /\ Go(t, task[t], Verdict(t))
  /\ slots' = IF Limited THEN slots - 1 ELSE slots
  /\ UNCHANGED <<setting, healthy, attempt, seen, failed, dead, handled,
                 endVars>>

\* Mutant of Return: an error of the context is not passed on.
ReturnHidingAbort(t) ==
  /\ task[t] \in {"exceeded", "aborted", "passed"}
  /\ Go(t, task[t], "returned")
  /\ egErr' = IF egErr = "none" /\ task[t] = "exceeded" THEN task[t] ELSE egErr
  /\ egDone' = (egDone \/ task[t] # "passed")
  /\ UNCHANGED <<setting, healthy, attempt, seen, slots, failed, dead,
                 handled, answer>>

\* errgroup keeps the first error and cancels egCtx.
Return(t) ==
  /\ task[t] \in {"exceeded", "aborted", "passed"}
  /\ Go(t, task[t], "returned")
  /\ egErr' = IF egErr = "none" /\ task[t] # "passed" THEN task[t] ELSE egErr
  /\ egDone' = (egDone \/ task[t] # "passed")
  /\ UNCHANGED <<setting, healthy, attempt, seen, slots, failed, dead,
                 handled, answer>>

\* The context of the step is cancelled.
Cancel ==
  /\ answer = "none"
  /\ ~egDone
  /\ egDone' = TRUE
  /\ UNCHANGED <<setting, healthy, task, attempt, seen, slots, failed, dead,
                 handled, egErr, answer>>

\* eg.Wait; without healthy targets RunParallel returns nil at once.
Wait ==
  /\ answer = "none"
  /\ \A t \in healthy : task[t] = "returned"
  /\ answer' = IF egErr = "none" THEN "nil" ELSE egErr
  /\ UNCHANGED <<setting, healthy, task, attempt, seen, slots, failed, dead,
                 handled, egErr, egDone>>

-----------------------------------------------------------------------------
Goroutine(t) ==
  \/ Acquire(t) \/ LeaveQueue(t)
  \/ FnSucceeds(t) \/ FnFails(t) \/ Retry(t) \/ LeaveDelay(t)
  \/ MarkDead(t) \/ CountFailure(t) \/ Release(t) \/ Return(t)

Finished == answer # "none" /\ UNCHANGED vars

Next == (\E t \in Target : Goroutine(t)) \/ Cancel \/ Wait \/ Finished

Spec == Init /\ [][Next]_vars

\* Every goroutine that can go on is scheduled, and fn returns.
FairSpec == Spec /\ WF_vars(Wait) /\ \A t \in Target : WF_vars(Goroutine(t))

-----------------------------------------------------------------------------
(* Properties.                                                             *)

Holding == {"calling", "delayed", "exhausted", "marked", "counted", "cutoff", "ok"}
Final == {"exceeded", "aborted", "passed", "returned"}

\* The variables stay in their types.
TypeOK ==
  /\ setting \in Settings
  /\ healthy \subseteq Target
  /\ task \in [Target -> {"absent", "queued"} \cup Holding \cup Final]
  /\ attempt \in [Target -> Nat]
  /\ seen \in [Target -> Nat]
  /\ slots \in Nat
  /\ failed \in Nat
  /\ dead \subseteq Target
  /\ handled \subseteq Target
  /\ egErr \in {"none", "exceeded", "aborted"}
  /\ egDone \in BOOLEAN
  /\ answer \in {"none", "nil", "exceeded", "aborted"}

\* The targets worked on at a time never exceed the batch size, and "rolling"
\* means one at a time.
BatchRespected ==
  /\ Limited => Cardinality({t \in Target : task[t] \in Holding}) <= BatchSize(setting)
  /\ setting.rolling => \A s, t \in Target : task[s] \in Holding /\ task[t] \in Holding => s = t

\* The slots taken are those of the goroutines between their acquire and their
\* release: none leaks on a path that returns early.
SlotsAccounted ==
  slots = IF Limited THEN Cardinality({t \in Target : task[t] \in Holding}) ELSE 0

\* A target is given up only after fn was called for it and for each retry.
DeadOnlyAfterRetries ==
  \A t \in dead \cap healthy : attempt[t] = setting.retries + 1

\* When RunParallel returns nil, every healthy target either was handled by fn
\* or is on the blacklist, never both and never neither.
NilMeansCovered ==
  answer = "nil" => handled = healthy \ dead

\* nil is returned only while the failures stay within the tolerance, and
\* "exceeded" only beyond it.
ToleranceRespected ==
  /\ answer = "nil" => Cardinality(dead \cap healthy) <= Allowed
  /\ answer = "exceeded" => Cardinality(dead \cap healthy) > Allowed

\* RunParallel returns, whatever fails, is retried or is cancelled.
Returns == <>(answer # "none")
=============================================================================
