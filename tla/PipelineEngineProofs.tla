------------------------ MODULE PipelineEngineProofs ------------------------
(***************************************************************************)
(* Proofs about PipelineEngine, for every pipeline that ValidateDAG        *)
(* accepts (PipelineAssumption).  Inv is the inductive invariant the       *)
(* safety properties follow from.                                          *)
(***************************************************************************)
EXTENDS PipelineEngine, FiniteSetTheorems, SequenceTheorems, TLAPS

\* The types, and that a phase is run only while the loop over phases goes on.
Typed == TypeOK /\ (pc = "run" => phase \in 1..3)

\* plan lists each step once, after the steps it needs.
PlanOrdered ==
  \A i, j \in 1..Len(plan) :
    /\ plan[i] = plan[j] => i = j
    /\ plan[i] \in Upstream[plan[j]] => i < j

\* The loop over phases: settled behind it, idle ahead of it.
PhaseShape ==
  \A s \in Step :
    /\ s \notin Planned => status[s] = "idle"
    /\ PhaseOf[s] > phase => status[s] = "idle"
    /\ PhaseOf[s] < phase /\ s \in Planned => status[s] \in Settled
    /\ PhaseOf[s] = phase /\ pc \in {"start", "phase"} => status[s] = "idle"
    /\ status[s] \in {"waiting", "running"} => pc = "run"

\* The errgroup and the outcome know of exactly the broken goroutines.
ErrorAgrees ==
  /\ \A s \in returned : status[s] \in Settled \cup Broken
  /\ groupErr <=> \E s \in returned : status[s] \in Broken
  /\ pc \in {"start", "phase"} => ~groupErr
  /\ pc = "start" => phase = 1
  /\ pc = "report" /\ ~groupErr => phase = 4
  /\ outcome # "none" => pc \in {"rollback", "returned"}

\* In the running phase an "ok" in the state map stands for a settled step,
\* and the needs a goroutine has passed are "ok".
NeedProgress ==
  /\ \A s \in Step : status[s] = "idle" => awaiting[s] = 1
  /\ pc = "run" => \A s \in Members :
       /\ result[NameOf[s]] = "ok" => status[s] \in Settled
       /\ \A j \in 1..Len(Needs[s]) : j < awaiting[s] => result[Needs[s][j]] = "ok"

\* The blacklist of the phase holds what its steps marked dead.
DeadAgrees ==
  /\ \A s \in Step : status[s] \notin Executed => using[s] = {} /\ killed[s] = {}
  /\ pc = "run" => \A s \in Members : killed[s] \subseteq dead

\* What was undone stands in plan after the cursor, and later in plan than what
\* was undone after it.
RollbackOrder ==
  /\ pc \notin {"rollback", "returned"} => undone = <<>>
  /\ \A i \in 1..Len(undone) :
       \E p \in 1..Len(plan) : p > cursor /\ undone[i] = plan[p]
  /\ \A i, j \in 1..Len(undone) : \A p, q \in 1..Len(plan) :
       i < j /\ plan[p] = undone[i] /\ plan[q] = undone[j] => p > q

Inv ==
  /\ Typed
  /\ PlanOrdered
  /\ PhaseShape
  /\ ErrorAgrees
  /\ NeedProgress
  /\ StartsAfterUpstream
  /\ OutcomeFaithful
  /\ DeadAgrees
  /\ DeadTargetsExcluded
  /\ RollbackOrder

-----------------------------------------------------------------------------
\* The type invariant holds in every state the engine reaches.
LEMMA InitType == Init => Typed
<1> SUFFICES ASSUME Init PROVE Typed
  OBVIOUS
<1>1. PICK S \in Selections : plan \in Schedules(S)
  BY DEF Init
<1>2. S \subseteq Step
  BY <1>1 DEF Selections
<1>3. Cardinality(S) \in Nat
  BY <1>2, PipelineAssumption, FS_Subset, FS_CardinalityType DEF PipelineAssumption
<1>4. plan \in [1..Cardinality(S) -> Step]
  BY <1>1, <1>2 DEF Schedules
<1>5. plan \in Seq(Step)
  BY <1>3, <1>4, SeqDef
<1>6. cursor \in 0..Len(plan)
  BY <1>5 DEF Init
<1>7. undone \in Seq(Step)
  BY EmptySeq DEF Init
<1>8. awaiting \in [Step -> Nat \ {0}]
  BY DEF Init
<1>9. groupErr \in BOOLEAN /\ egDone \in BOOLEAN /\ cancelled \in BOOLEAN
  BY DEF Init
<1>10. pc = "start" /\ phase \in 1..4 /\ outcome = "none"
  BY DEF Init
<1>11. status \in [Step -> {"idle", "waiting", "running"} \cup Settled \cup Broken]
  BY DEF Init
<1>12. result \in [Name -> {"absent", "open", "ok", "err"}]
  BY DEF Init
<1>13. /\ returned \subseteq Step /\ dead \subseteq Target /\ saved \subseteq Name
       /\ succeeded \subseteq Name /\ informed \subseteq Step
  BY DEF Init
<1>14. using \in [Step -> SUBSET Target] /\ killed \in [Step -> SUBSET Target]
  BY DEF Init
<1> QED
  BY <1>5, <1>6, <1>7, <1>8, <1>9, <1>10, <1>11, <1>12, <1>13, <1>14 DEF Typed,
       TypeOK

\* Every step keeps the variables in their types.
LEMMA NextType == Typed /\ [Next]_vars => Typed'
<1> SUFFICES ASSUME Typed, [Next]_vars PROVE Typed'
  OBVIOUS
<1> USE PipelineAssumption DEF PipelineAssumption, Typed, TypeOK, goVars, ctxVars,
    endVars
<1>1. CASE SetUp
  BY <1>1 DEF SetUp
<1>2. CASE AbortSetUp
  BY <1>2 DEF AbortSetUp
<1>3. CASE SkipPhase
  BY <1>3 DEF SkipPhase
<1>4. CASE StartPhase
  <2>1. TypeOK'
    BY <1>4 DEF StartPhase
  <2>2. phase' \in 1..3
    BY <1>4 DEF StartPhase
  <2> QED
    BY <2>1, <2>2
<1>5. CASE EndPhase
  BY <1>5 DEF EndPhase
<1>6. CASE EndLoop
  BY <1>6 DEF EndLoop
<1>7. CASE Report
  BY <1>7 DEF Report
<1>8. CASE RollBack
  BY <1>8 DEF RollBack
<1>9. CASE PassOver
  BY <1>9 DEF PassOver
<1>10. CASE EndRollback
  BY <1>10 DEF EndRollback
<1>11. ASSUME NEW s \in Step, NeedMet(s) PROVE Typed'
  BY <1>11 DEF NeedMet
<1>12. ASSUME NEW s \in Step, NeedFailed(s) PROVE Typed'
  BY <1>12 DEF NeedFailed, Refuse, Settled, Broken
<1>13. ASSUME NEW s \in Step, Abandon(s) PROVE Typed'
  BY <1>13 DEF Abandon, Refuse, Settled, Broken
<1>14. ASSUME NEW s \in Step, UnknownType(s) PROVE Typed'
  BY <1>14 DEF UnknownType, Refuse, Settled, Broken
<1>15. ASSUME NEW s \in Step, SkipByRunIf(s) PROVE Typed'
  BY <1>15 DEF SkipByRunIf, Settled, Broken
<1>16. ASSUME NEW s \in Step, ResolveFails(s) PROVE Typed'
  BY <1>16 DEF ResolveFails, Refuse, Settled, Broken
<1>17. ASSUME NEW s \in Step, Begin(s) PROVE Typed'
  BY <1>17 DEF Begin
<1>18. ASSUME NEW s \in Step, Succeed(s) PROVE Typed'
  BY <1>18 DEF Succeed, Settled, Broken
<1>19. ASSUME NEW s \in Step, Fail(s) PROVE Typed'
  BY <1>19 DEF Fail, Settled, Broken
<1>20. ASSUME NEW s \in Step, Return(s) PROVE Typed'
  BY <1>20 DEF Return
<1>21. ASSUME NEW s \in Step, NEW t \in Target, MarkDead(s, t) PROVE Typed'
  BY <1>21 DEF MarkDead
<1>22. CASE Cancel
  BY <1>22 DEF Cancel
<1>23. CASE UNCHANGED vars
  BY <1>23 DEF vars
<1> QED
  BY <1>1, <1>2, <1>3, <1>4, <1>5, <1>6, <1>7, <1>8, <1>9, <1>10, <1>11, <1>12,
       <1>13, <1>14, <1>15, <1>16, <1>17, <1>18, <1>19, <1>20, <1>21, <1>22,
           <1>23 DEF Next, RunLoop, Goroutine, Finished

\* Nothing replans.
LEMMA PlanKept == [Next]_vars => plan' = plan /\ Planned' = Planned
  BY DEF Next, RunLoop, Goroutine, Finished, vars, Planned, SetUp, AbortSetUp,
     SkipPhase, StartPhase, EndPhase, EndLoop, Report, RollBack, PassOver,
     EndRollback, NeedMet, NeedFailed, Abandon, Refuse, UnknownType, SkipByRunIf,
     ResolveFails, Begin, Succeed, Fail, Return, MarkDead, Cancel

\* A step's phase is over, running or ahead.
LEMMA PhaseCases ==
  ASSUME Typed, NEW s \in Step
  PROVE  /\ PhaseOf[s] \in 1..3
         /\ PhaseOf[s] < phase \/ PhaseOf[s] = phase \/ PhaseOf[s] > phase
<1>1. PhaseOf[s] \in 1..3
  BY PipelineAssumption DEF PipelineAssumption
<1>2. phase \in 1..4
  BY DEF Typed, TypeOK
<1> QED
  BY <1>1, <1>2

\* The loop over phases keeps its shape.
LEMMA NextShape == Typed /\ PhaseShape /\ ErrorAgrees /\ [Next]_vars => PhaseShape'
<1> SUFFICES ASSUME Typed /\ PhaseShape /\ ErrorAgrees, [Next]_vars PROVE PhaseShape'
  OBVIOUS
<1> USE PlanKept, PipelineAssumption DEF PipelineAssumption, Typed, TypeOK, goVars,
    ctxVars, endVars, PhaseShape, ErrorAgrees, Members, Settled, Broken
<1>1. CASE SetUp
  BY <1>1 DEF SetUp
<1>2. CASE AbortSetUp
  BY <1>2 DEF AbortSetUp
<1>3. CASE SkipPhase
  BY <1>3 DEF SkipPhase
<1>4. CASE StartPhase
  BY <1>4 DEF StartPhase
<1>5. CASE EndPhase
  <2>1. pc = "run" /\ status' = status /\ Members \subseteq returned
    BY <1>5 DEF EndPhase
  <2>2. ASSUME NEW s \in Step PROVE status[s] \notin {"waiting", "running"}
    <3>1. PhaseOf[s] < phase \/ PhaseOf[s] = phase \/ PhaseOf[s] > phase
      BY PhaseCases
    <3>2. s \in Members => status[s] \in Settled \cup Broken
      BY <2>1
    <3> QED
      BY <3>1, <3>2
  <2>3. CASE groupErr
    <3>1. phase' = phase /\ pc' = "report"
      BY <1>5, <2>3 DEF EndPhase
    <3> QED
      BY <2>1, <2>2, <3>1
  <2>4. CASE ~groupErr
    <3>1. pc' = "phase" /\ phase' = phase + 1
      BY <1>5, <2>4 DEF EndPhase
    <3>2. \A s \in Step : s \in Planned /\ PhaseOf[s] = phase
        => status[s] \in Settled
      BY <2>1, <2>4
    <3>3. ASSUME NEW s \in Step
          PROVE /\ s \notin Planned => status[s] = "idle"
                /\ PhaseOf[s] > phase + 1 => status[s] = "idle"
                /\ PhaseOf[s] < phase + 1 /\ s \in Planned => status[s] \in Settled
                /\ PhaseOf[s] = phase + 1 => status[s] = "idle"
      BY <2>1, <3>2
    <3> QED
      BY <2>1, <2>2, <3>1, <3>3
  <2> QED
    BY <2>3, <2>4
<1>6. CASE EndLoop
  BY <1>6 DEF EndLoop
<1>7. CASE Report
  BY <1>7 DEF Report
<1>8. CASE RollBack
  BY <1>8 DEF RollBack
<1>9. CASE PassOver
  BY <1>9 DEF PassOver
<1>10. CASE EndRollback
  BY <1>10 DEF EndRollback
<1>11. ASSUME NEW s \in Step, NeedMet(s) PROVE PhaseShape'
  BY <1>11 DEF NeedMet
<1>12. ASSUME NEW s \in Step, NeedFailed(s) PROVE PhaseShape'
  BY <1>12 DEF NeedFailed, Refuse
<1>13. ASSUME NEW s \in Step, Abandon(s) PROVE PhaseShape'
  BY <1>13 DEF Abandon, Refuse
<1>14. ASSUME NEW s \in Step, UnknownType(s) PROVE PhaseShape'
  BY <1>14 DEF UnknownType, Refuse
<1>15. ASSUME NEW s \in Step, SkipByRunIf(s) PROVE PhaseShape'
  BY <1>15 DEF SkipByRunIf
<1>16. ASSUME NEW s \in Step, ResolveFails(s) PROVE PhaseShape'
  BY <1>16 DEF ResolveFails, Refuse
<1>17. ASSUME NEW s \in Step, Begin(s) PROVE PhaseShape'
  BY <1>17 DEF Begin
<1>18. ASSUME NEW s \in Step, Succeed(s) PROVE PhaseShape'
  BY <1>18 DEF Succeed
<1>19. ASSUME NEW s \in Step, Fail(s) PROVE PhaseShape'
  BY <1>19 DEF Fail
<1>20. ASSUME NEW s \in Step, Return(s) PROVE PhaseShape'
  BY <1>20 DEF Return
<1>21. ASSUME NEW s \in Step, NEW t \in Target, MarkDead(s, t) PROVE PhaseShape'
  BY <1>21 DEF MarkDead
<1>22. CASE Cancel
  BY <1>22 DEF Cancel
<1>23. CASE UNCHANGED vars
  BY <1>23 DEF vars
<1> QED
  BY <1>1, <1>2, <1>3, <1>4, <1>5, <1>6, <1>7, <1>8, <1>9, <1>10, <1>11, <1>12,
     <1>13, <1>14, <1>15, <1>16, <1>17, <1>18, <1>19, <1>20, <1>21, <1>22, <1>23
     DEF Next, RunLoop, Goroutine, Finished

\* The errgroup and the outcome keep agreeing with the goroutines.
LEMMA NextError == Typed /\ PhaseShape /\ ErrorAgrees /\ [Next]_vars => ErrorAgrees'
<1> SUFFICES ASSUME Typed /\ PhaseShape /\ ErrorAgrees, [Next]_vars
             PROVE ErrorAgrees'
  OBVIOUS
<1> USE PipelineAssumption DEF PipelineAssumption, Typed, TypeOK, goVars, ctxVars,
    endVars, PhaseShape, ErrorAgrees, Members, Settled, Broken
<1>1. CASE SetUp
  BY <1>1 DEF SetUp
<1>2. CASE AbortSetUp
  BY <1>2 DEF AbortSetUp
<1>3. CASE SkipPhase
  BY <1>3 DEF SkipPhase
<1>4. CASE StartPhase
  BY <1>4 DEF StartPhase
<1>5. CASE EndPhase
  BY <1>5 DEF EndPhase
<1>6. CASE EndLoop
  BY <1>6 DEF EndLoop
<1>7. CASE Report
  BY <1>7 DEF Report
<1>8. CASE RollBack
  BY <1>8 DEF RollBack
<1>9. CASE PassOver
  BY <1>9 DEF PassOver
<1>10. CASE EndRollback
  BY <1>10 DEF EndRollback
<1>11. ASSUME NEW s \in Step, NeedMet(s) PROVE ErrorAgrees'
  BY <1>11 DEF NeedMet
<1>12. ASSUME NEW s \in Step, NeedFailed(s) PROVE ErrorAgrees'
  BY <1>12 DEF NeedFailed, Refuse
<1>13. ASSUME NEW s \in Step, Abandon(s) PROVE ErrorAgrees'
  BY <1>13 DEF Abandon, Refuse
<1>14. ASSUME NEW s \in Step, UnknownType(s) PROVE ErrorAgrees'
  BY <1>14 DEF UnknownType, Refuse
<1>15. ASSUME NEW s \in Step, SkipByRunIf(s) PROVE ErrorAgrees'
  BY <1>15 DEF SkipByRunIf
<1>16. ASSUME NEW s \in Step, ResolveFails(s) PROVE ErrorAgrees'
  BY <1>16 DEF ResolveFails, Refuse
<1>17. ASSUME NEW s \in Step, Begin(s) PROVE ErrorAgrees'
  BY <1>17 DEF Begin
<1>18. ASSUME NEW s \in Step, Succeed(s) PROVE ErrorAgrees'
  BY <1>18 DEF Succeed
<1>19. ASSUME NEW s \in Step, Fail(s) PROVE ErrorAgrees'
  BY <1>19 DEF Fail
<1>20. ASSUME NEW s \in Step, Return(s) PROVE ErrorAgrees'
  <2>1. status' = status /\ pc' = pc /\ phase' = phase /\ outcome' = outcome
    BY <1>20 DEF Return
  <2>2. returned' = returned \cup {s} /\ status[s] \in Settled \cup Broken
    BY <1>20 DEF Return
  <2>3. groupErr' <=> groupErr \/ status[s] \in Broken
    BY <1>20 DEF Return
  <2>4. groupErr' <=> \E r \in returned' : status'[r] \in Broken
    BY <2>1, <2>2, <2>3
  <2>5. pc \in {"start", "phase"} => ~groupErr'
    <3>1. PhaseOf[s] < phase \/ PhaseOf[s] = phase \/ PhaseOf[s] > phase
      BY PhaseCases
    <3>2. pc \in {"start", "phase"} => status[s] \notin Broken
      BY <2>2, <3>1
    <3> QED
      BY <2>3, <3>2
  <2>6. pc = "report" /\ ~groupErr' => phase = 4
    BY <2>3
  <2> QED
    BY <2>1, <2>2, <2>4, <2>5, <2>6
<1>21. ASSUME NEW s \in Step, NEW t \in Target, MarkDead(s, t) PROVE ErrorAgrees'
  BY <1>21 DEF MarkDead
<1>22. CASE Cancel
  BY <1>22 DEF Cancel
<1>23. CASE UNCHANGED vars
  BY <1>23 DEF vars
<1> QED
  BY <1>1, <1>2, <1>3, <1>4, <1>5, <1>6, <1>7, <1>8, <1>9, <1>10, <1>11, <1>12,
     <1>13, <1>14, <1>15, <1>16, <1>17, <1>18, <1>19, <1>20, <1>21, <1>22, <1>23
     DEF Next, RunLoop, Goroutine, Finished

\* A goroutine that waits or runs belongs to the running phase.
LEMMA ActiveInPhase ==
  ASSUME Typed, PhaseShape, NEW s \in Step, status[s] \in {"waiting", "running"}
  PROVE  pc = "run" /\ s \in Members
<1>1. pc = "run" /\ s \in Planned
  BY DEF PhaseShape
<1>2. PhaseOf[s] = phase
  BY <1>1, PhaseCases DEF PhaseShape, Settled
<1> QED
  BY <1>1, <1>2 DEF Members

\* What the types say of a step of the running phase.
LEMMA MemberTypes ==
  ASSUME Typed, NEW m \in Members
  PROVE  /\ m \in Step /\ m \in Planned /\ PhaseOf[m] = phase
         /\ NameOf[m] \in Name
         /\ Len(Needs[m]) \in Nat
         /\ \A j \in 1..Len(Needs[m]) : Needs[m][j] \in Name
<1>1. m \in Planned /\ PhaseOf[m] = phase
  BY DEF Members
<1>2. m \in Step
  BY <1>1 DEF Planned, Typed, TypeOK
<1> QED
  BY <1>1, <1>2, PipelineAssumption DEF PipelineAssumption

\* The types of the state map and of the goroutines' progress.
LEMMA ProgressTypes ==
  ASSUME Typed
  PROVE  /\ DOMAIN result = Name /\ DOMAIN status = Step /\ DOMAIN awaiting = Step
         /\ \A s \in Step : awaiting[s] \in Nat
  BY DEF Typed, TypeOK

\* Names are unique among the steps of the running phase.
LEMMA MemberNames ==
  ASSUME Typed, NEW s \in Members, NEW t \in Members, NameOf[s] = NameOf[t]
  PROVE  s = t
  BY MemberTypes, PipelineAssumption DEF PipelineAssumption

\* The state map keeps agreeing with the goroutines of the running phase.
LEMMA NextNeed == Typed /\ PhaseShape /\ NeedProgress /\ [Next]_vars => NeedProgress'
<1> SUFFICES ASSUME Typed /\ PhaseShape /\ NeedProgress, [Next]_vars
             PROVE NeedProgress'
  OBVIOUS
<1> USE PlanKept, PipelineAssumption DEF PipelineAssumption, Typed, TypeOK, goVars,
    ctxVars, endVars, NeedProgress, Members, Settled, Broken
<1>1. CASE SetUp
  BY <1>1 DEF SetUp
<1>2. CASE AbortSetUp
  BY <1>2 DEF AbortSetUp
<1>3. CASE SkipPhase
  BY <1>3 DEF SkipPhase
<1>4. CASE StartPhase
  <2>1. pc = "phase" /\ phase' = phase /\ awaiting' = awaiting
    BY <1>4 DEF StartPhase
  <2>2. ASSUME NEW m \in Members PROVE status[m] = "idle" /\ awaiting[m] = 1
    BY <2>1, MemberTypes DEF PhaseShape
  <2>3. Members' = Members
    BY <2>1
  <2>4. ASSUME NEW m \in Members PROVE result'[NameOf[m]] = "open"
    BY <1>4, MemberTypes DEF StartPhase
  <2>5. ASSUME NEW m \in Step, status'[m] = "idle" PROVE awaiting'[m] = 1
    BY <1>4, <2>1, <2>5 DEF StartPhase
  <2> QED
    BY <2>1, <2>2, <2>3, <2>4, <2>5
<1>5. CASE EndPhase
  BY <1>5 DEF EndPhase
<1>6. CASE EndLoop
  BY <1>6 DEF EndLoop
<1>7. CASE Report
  BY <1>7 DEF Report
<1>8. CASE RollBack
  BY <1>8 DEF RollBack
<1>9. CASE PassOver
  BY <1>9 DEF PassOver
<1>10. CASE EndRollback
  BY <1>10 DEF EndRollback
<1>11. ASSUME NEW s \in Step, NeedMet(s) PROVE NeedProgress'
  <2>1. /\ status[s] = "waiting" /\ result[Needs[s][awaiting[s]]] = "ok"
        /\ awaiting' = [awaiting EXCEPT ![s] = awaiting[s] + 1]
        /\ status' = status /\ result' = result /\ pc' = pc /\ phase' = phase
    BY <1>11 DEF NeedMet, CurrentNeed
  <2>2. awaiting'[s] = awaiting[s] + 1 /\ awaiting[s] \in Nat
    BY <2>1, ProgressTypes
  <2>3. ASSUME NEW m \in Members, pc = "run",
               NEW j \in 1..Len(Needs[m]), j < awaiting'[m]
        PROVE  result[Needs[m][j]] = "ok"
    <3>1. CASE m = s /\ j = awaiting[s]
      BY <2>1, <3>1
    <3>2. CASE m = s /\ j # awaiting[s]
      <4>1. j \in Nat
        BY <3>2
      <4> QED
        BY <2>2, <2>3, <3>2, <4>1
    <3>3. CASE m # s
      BY <2>1, <2>3, <3>3, MemberTypes
    <3> QED
      BY <3>1, <3>2, <3>3
  <2>4. ASSUME NEW m \in Step, status[m] = "idle" PROVE awaiting'[m] = 1
    BY <2>1, <2>4
  <2> QED
    BY <2>1, <2>3, <2>4
<1>12. ASSUME NEW s \in Step, NeedFailed(s) PROVE NeedProgress'
  BY <1>12 DEF NeedFailed, Refuse
<1>13. ASSUME NEW s \in Step, Abandon(s) PROVE NeedProgress'
  BY <1>13 DEF Abandon, Refuse
<1>14. ASSUME NEW s \in Step, UnknownType(s) PROVE NeedProgress'
  BY <1>14 DEF UnknownType, Refuse
<1>15. ASSUME NEW s \in Step, SkipByRunIf(s) PROVE NeedProgress'
  BY <1>15, ActiveInPhase, MemberNames, MemberTypes, SMTT(20) DEF SkipByRunIf
<1>16. ASSUME NEW s \in Step, ResolveFails(s) PROVE NeedProgress'
  BY <1>16 DEF ResolveFails, Refuse
<1>17. ASSUME NEW s \in Step, Begin(s) PROVE NeedProgress'
  BY <1>17 DEF Begin
<1>18. ASSUME NEW s \in Step, Succeed(s) PROVE NeedProgress'
  BY <1>18, ActiveInPhase, MemberNames, MemberTypes, SMTT(20) DEF Succeed
<1>19. ASSUME NEW s \in Step, Fail(s) PROVE NeedProgress'
  <2>1. /\ status[s] = "running" /\ status' = [status EXCEPT ![s] = "failed"]
        /\ result' = [result EXCEPT ![NameOf[s]] = "err"]
        /\ awaiting' = awaiting /\ Members' = Members /\ pc' = pc
    BY <1>19 DEF Fail
  <2>2. pc = "run" /\ s \in Members /\ result[NameOf[s]] # "ok"
    BY <2>1, ActiveInPhase
  <2>3. ASSUME NEW n \in Name, result[n] = "ok" PROVE result'[n] = "ok"
    BY <2>1, <2>2, <2>3
  <2>4. ASSUME NEW m \in Members, result'[NameOf[m]] = "ok"
        PROVE  status'[m] \in Settled
    <3>1. NameOf[m] \in Name /\ m \in Step
      BY MemberTypes
    <3>2. NameOf[m] # NameOf[s] /\ result[NameOf[m]] = "ok" /\ m # s
      BY <2>1, <2>4, <3>1
    <3> QED
      BY <2>1, <2>2, <3>1, <3>2
  <2>5. ASSUME NEW m \in Members, NEW j \in 1..Len(Needs[m]), j < awaiting[m]
        PROVE  result'[Needs[m][j]] = "ok"
    <3>1. Needs[m][j] \in Name
      BY MemberTypes
    <3> QED
      BY <2>2, <2>3, <2>5, <3>1
  <2> QED
    BY <2>1, <2>4, <2>5
<1>20. ASSUME NEW s \in Step, Return(s) PROVE NeedProgress'
  BY <1>20 DEF Return
<1>21. ASSUME NEW s \in Step, NEW t \in Target, MarkDead(s, t) PROVE NeedProgress'
  BY <1>21 DEF MarkDead
<1>22. CASE Cancel
  BY <1>22 DEF Cancel
<1>23. CASE UNCHANGED vars
  BY <1>23 DEF vars
<1> QED
  BY <1>1, <1>2, <1>3, <1>4, <1>5, <1>6, <1>7, <1>8, <1>9, <1>10, <1>11, <1>12,
     <1>13, <1>14, <1>15, <1>16, <1>17, <1>18, <1>19, <1>20, <1>21, <1>22, <1>23
     DEF Next, RunLoop, Goroutine, Finished

\* A goroutine that has passed all its needs has everything upstream settled.
LEMMA NeedsMetMeansSettled ==
  ASSUME Typed, PhaseShape, NeedProgress,
         NEW s \in Step, status[s] = "waiting", AllNeedsMet(s)
  PROVE  \A d \in Upstream[s] \cap Planned : status[d] \in Settled
<1>1. pc = "run" /\ s \in Members /\ PhaseOf[s] = phase
  BY ActiveInPhase, MemberTypes
<1>2. SUFFICES ASSUME NEW d \in Upstream[s], d \in Planned
               PROVE  status[d] \in Settled
  OBVIOUS
<1>3. d \in Step
  BY DEF Upstream, Needed
<1>4. CASE d \in Needed(s)
  <2>1. PhaseOf[d] = phase /\ NameOf[d] \in NeedSet(s)
    BY <1>1, <1>4 DEF Needed
  <2>2. PICK j \in 1..Len(Needs[s]) : Needs[s][j] = NameOf[d]
    BY <2>1 DEF NeedSet
  <2>3. j < awaiting[s]
    BY <1>1, ProgressTypes, MemberTypes DEF AllNeedsMet
  <2>4. d \in Members
    BY <1>2, <2>1 DEF Members
  <2> QED
    BY <1>1, <2>2, <2>3, <2>4 DEF NeedProgress
<1>5. CASE PhaseOf[d] < PhaseOf[s]
  BY <1>1, <1>2, <1>3, <1>5 DEF PhaseShape
<1> QED
  BY <1>4, <1>5 DEF Upstream

\* No step overtakes what it depends on.
LEMMA NextUpstream ==
  Typed /\ PhaseShape /\ NeedProgress /\ StartsAfterUpstream /\ [Next]_vars
       => StartsAfterUpstream'
<1> SUFFICES ASSUME Typed /\ PhaseShape /\ NeedProgress /\ StartsAfterUpstream,
    [Next]_vars
             PROVE StartsAfterUpstream'
  OBVIOUS
<1> USE PlanKept, MemberTypes DEF Typed, TypeOK, goVars, ctxVars, endVars,
    StartsAfterUpstream, Executed, Settled, Broken
<1>1. CASE SetUp
  BY <1>1 DEF SetUp
<1>2. CASE AbortSetUp
  BY <1>2 DEF AbortSetUp
<1>3. CASE SkipPhase
  BY <1>3 DEF SkipPhase
<1>4. CASE StartPhase
  <2>1. ASSUME NEW m \in Members PROVE status[m] = "idle"
    BY <1>4, MemberTypes DEF StartPhase, PhaseShape
  <2>2. /\ DOMAIN status' = Step
        /\ \A r \in Step : status'[r] = IF r \in Members THEN "waiting" ELSE status[r]
    BY <1>4 DEF StartPhase
  <2>3. Planned \subseteq Step
    BY DEF Planned
  <2> QED
    BY <2>1, <2>2, <2>3
<1>5. CASE EndPhase
  BY <1>5 DEF EndPhase
<1>6. CASE EndLoop
  BY <1>6 DEF EndLoop
<1>7. CASE Report
  BY <1>7 DEF Report
<1>8. CASE RollBack
  BY <1>8 DEF RollBack
<1>9. CASE PassOver
  BY <1>9 DEF PassOver
<1>10. CASE EndRollback
  BY <1>10 DEF EndRollback
<1>11. ASSUME NEW s \in Step, NeedMet(s) PROVE StartsAfterUpstream'
  BY <1>11 DEF NeedMet
<1>12. ASSUME NEW s \in Step, NeedFailed(s) PROVE StartsAfterUpstream'
  BY <1>12 DEF NeedFailed, Refuse
<1>13. ASSUME NEW s \in Step, Abandon(s) PROVE StartsAfterUpstream'
  BY <1>13 DEF Abandon, Refuse
<1>14. ASSUME NEW s \in Step, UnknownType(s) PROVE StartsAfterUpstream'
  BY <1>14 DEF UnknownType, Refuse
<1>15. ASSUME NEW s \in Step, SkipByRunIf(s) PROVE StartsAfterUpstream'
  BY <1>15, NeedsMetMeansSettled DEF SkipByRunIf
<1>16. ASSUME NEW s \in Step, ResolveFails(s) PROVE StartsAfterUpstream'
  BY <1>16 DEF ResolveFails, Refuse
<1>17. ASSUME NEW s \in Step, Begin(s) PROVE StartsAfterUpstream'
  BY <1>17, NeedsMetMeansSettled DEF Begin
<1>18. ASSUME NEW s \in Step, Succeed(s) PROVE StartsAfterUpstream'
  BY <1>18 DEF Succeed
<1>19. ASSUME NEW s \in Step, Fail(s) PROVE StartsAfterUpstream'
  BY <1>19 DEF Fail
<1>20. ASSUME NEW s \in Step, Return(s) PROVE StartsAfterUpstream'
  BY <1>20 DEF Return
<1>21. ASSUME NEW s \in Step, NEW t \in Target, MarkDead(s, t)
       PROVE StartsAfterUpstream'
  BY <1>21 DEF MarkDead
<1>22. CASE Cancel
  BY <1>22 DEF Cancel
<1>23. CASE UNCHANGED vars
  BY <1>23 DEF vars
<1> QED
  BY <1>1, <1>2, <1>3, <1>4, <1>5, <1>6, <1>7, <1>8, <1>9, <1>10, <1>11, <1>12,
     <1>13, <1>14, <1>15, <1>16, <1>17, <1>18, <1>19, <1>20, <1>21, <1>22, <1>23
     DEF Next, RunLoop, Goroutine, Finished

\* The outcome stays true of the steps.
LEMMA NextOutcome ==
  Typed /\ PhaseShape /\ ErrorAgrees /\ OutcomeFaithful /\ [Next]_vars
       => OutcomeFaithful'
<1> SUFFICES ASSUME Typed /\ PhaseShape /\ ErrorAgrees /\ OutcomeFaithful,
    [Next]_vars
             PROVE OutcomeFaithful'
  OBVIOUS
<1> USE PlanKept DEF Typed, TypeOK, goVars, ctxVars, endVars, OutcomeFaithful,
    Settled, Broken
<1>1. CASE SetUp
  BY <1>1 DEF SetUp
<1>2. CASE AbortSetUp
  BY <1>2 DEF AbortSetUp
<1>3. CASE SkipPhase
  BY <1>3 DEF SkipPhase
<1>4. CASE StartPhase
  BY <1>4 DEF StartPhase, ErrorAgrees
<1>5. CASE EndPhase
  BY <1>5 DEF EndPhase
<1>6. CASE EndLoop
  BY <1>6 DEF EndLoop
<1>7. CASE Report
  <2>1. status' = status /\ Planned' = Planned /\ outcome = "none"
    BY <1>7 DEF Report, ErrorAgrees
  <2>2. CASE groupErr
    <3>1. PICK s \in returned : status[s] \in Broken
      BY <2>2 DEF ErrorAgrees
    <3>2. s \in Planned
      BY <3>1 DEF PhaseShape
    <3>3. outcome' = "FAILED"
      BY <1>7, <2>2 DEF Report
    <3> QED
      BY <2>1, <3>1, <3>2, <3>3
  <2>3. CASE ~groupErr
    <3>1. phase = 4
      BY <1>7, <2>3 DEF Report, ErrorAgrees
    <3>2. ASSUME NEW s \in Planned PROVE status[s] \in Settled
      <4>1. s \in Step
        BY DEF Planned
      <4>2. PhaseOf[s] \in 1..3
        BY <4>1, PhaseCases
      <4>3. PhaseOf[s] < phase
        BY <3>1, <4>2
      <4> QED
        BY <4>1, <4>3 DEF PhaseShape
    <3>3. outcome' = "SUCCESS"
      BY <1>7, <2>3 DEF Report
    <3> QED
      BY <2>1, <3>2, <3>3
  <2> QED
    BY <2>2, <2>3
<1>8. CASE RollBack
  BY <1>8 DEF RollBack
<1>9. CASE PassOver
  BY <1>9 DEF PassOver
<1>10. CASE EndRollback
  BY <1>10 DEF EndRollback
<1>11. ASSUME NEW s \in Step, NeedMet(s) PROVE OutcomeFaithful'
  BY <1>11 DEF NeedMet
<1>12. ASSUME NEW s \in Step, NeedFailed(s) PROVE OutcomeFaithful'
  BY <1>12 DEF NeedFailed, Refuse
<1>13. ASSUME NEW s \in Step, Abandon(s) PROVE OutcomeFaithful'
  BY <1>13 DEF Abandon, Refuse
<1>14. ASSUME NEW s \in Step, UnknownType(s) PROVE OutcomeFaithful'
  BY <1>14 DEF UnknownType, Refuse
<1>15. ASSUME NEW s \in Step, SkipByRunIf(s) PROVE OutcomeFaithful'
  BY <1>15 DEF SkipByRunIf
<1>16. ASSUME NEW s \in Step, ResolveFails(s) PROVE OutcomeFaithful'
  BY <1>16 DEF ResolveFails, Refuse
<1>17. ASSUME NEW s \in Step, Begin(s) PROVE OutcomeFaithful'
  BY <1>17 DEF Begin
<1>18. ASSUME NEW s \in Step, Succeed(s) PROVE OutcomeFaithful'
  BY <1>18 DEF Succeed
<1>19. ASSUME NEW s \in Step, Fail(s) PROVE OutcomeFaithful'
  BY <1>19 DEF Fail
<1>20. ASSUME NEW s \in Step, Return(s) PROVE OutcomeFaithful'
  BY <1>20 DEF Return
<1>21. ASSUME NEW s \in Step, NEW t \in Target, MarkDead(s, t) PROVE OutcomeFaithful'
  BY <1>21 DEF MarkDead
<1>22. CASE Cancel
  BY <1>22 DEF Cancel
<1>23. CASE UNCHANGED vars
  BY <1>23 DEF vars
<1> QED
  BY <1>1, <1>2, <1>3, <1>4, <1>5, <1>6, <1>7, <1>8, <1>9, <1>10, <1>11, <1>12,
     <1>13, <1>14, <1>15, <1>16, <1>17, <1>18, <1>19, <1>20, <1>21, <1>22, <1>23
     DEF Next, RunLoop, Goroutine, Finished

\* The blacklist keeps agreeing with what the steps marked dead.
LEMMA NextDead == Typed /\ PhaseShape /\ DeadAgrees /\ [Next]_vars => DeadAgrees'
<1> SUFFICES ASSUME Typed /\ PhaseShape /\ DeadAgrees, [Next]_vars PROVE DeadAgrees'
  OBVIOUS
<1> USE PlanKept, ActiveInPhase, MemberTypes DEF Typed, TypeOK, goVars, ctxVars,
    endVars, DeadAgrees, Members, Executed, Settled, Broken
<1>1. CASE SetUp
  BY <1>1 DEF SetUp
<1>2. CASE AbortSetUp
  BY <1>2 DEF AbortSetUp
<1>3. CASE SkipPhase
  BY <1>3 DEF SkipPhase
<1>4. CASE StartPhase
  <2>1. ASSUME NEW m \in Members PROVE status[m] = "idle"
    BY <1>4, MemberTypes DEF StartPhase, PhaseShape
  <2>2. using' = using /\ killed' = killed /\ phase' = phase
    BY <1>4 DEF StartPhase
  <2>3. ASSUME NEW r \in Step, status'[r] \notin Executed
        PROVE  using[r] = {} /\ killed[r] = {}
    <3>1. status[r] \notin Executed
      BY <1>4, <2>1, <2>3 DEF StartPhase
    <3> QED
      BY <3>1
  <2>4. ASSUME NEW m \in Members PROVE killed[m] = {}
    BY <2>1
  <2> QED
    BY <2>2, <2>3, <2>4
<1>5. CASE EndPhase
  BY <1>5 DEF EndPhase
<1>6. CASE EndLoop
  BY <1>6 DEF EndLoop
<1>7. CASE Report
  BY <1>7 DEF Report
<1>8. CASE RollBack
  BY <1>8 DEF RollBack
<1>9. CASE PassOver
  BY <1>9 DEF PassOver
<1>10. CASE EndRollback
  BY <1>10 DEF EndRollback
<1>11. ASSUME NEW s \in Step, NeedMet(s) PROVE DeadAgrees'
  BY <1>11 DEF NeedMet
<1>12. ASSUME NEW s \in Step, NeedFailed(s) PROVE DeadAgrees'
  BY <1>12 DEF NeedFailed, Refuse
<1>13. ASSUME NEW s \in Step, Abandon(s) PROVE DeadAgrees'
  BY <1>13 DEF Abandon, Refuse
<1>14. ASSUME NEW s \in Step, UnknownType(s) PROVE DeadAgrees'
  BY <1>14 DEF UnknownType, Refuse
<1>15. ASSUME NEW s \in Step, SkipByRunIf(s) PROVE DeadAgrees'
  BY <1>15 DEF SkipByRunIf
<1>16. ASSUME NEW s \in Step, ResolveFails(s) PROVE DeadAgrees'
  BY <1>16 DEF ResolveFails, Refuse
<1>17. ASSUME NEW s \in Step, Begin(s) PROVE DeadAgrees'
  BY <1>17 DEF Begin
<1>18. ASSUME NEW s \in Step, Succeed(s) PROVE DeadAgrees'
  BY <1>18 DEF Succeed
<1>19. ASSUME NEW s \in Step, Fail(s) PROVE DeadAgrees'
  BY <1>19 DEF Fail
<1>20. ASSUME NEW s \in Step, Return(s) PROVE DeadAgrees'
  BY <1>20 DEF Return
<1>21. ASSUME NEW s \in Step, NEW t \in Target, MarkDead(s, t) PROVE DeadAgrees'
  BY <1>21 DEF MarkDead
<1>22. CASE Cancel
  BY <1>22 DEF Cancel
<1>23. CASE UNCHANGED vars
  BY <1>23 DEF vars
<1> QED
  BY <1>1, <1>2, <1>3, <1>4, <1>5, <1>6, <1>7, <1>8, <1>9, <1>10, <1>11, <1>12,
     <1>13, <1>14, <1>15, <1>16, <1>17, <1>18, <1>19, <1>20, <1>21, <1>22, <1>23
     DEF Next, RunLoop, Goroutine, Finished

\* No action hands a step a target its needs marked dead.
LEMMA NextExcluded ==
  Typed /\ PhaseShape /\ NeedProgress /\ StartsAfterUpstream /\ DeadAgrees
       /\ DeadTargetsExcluded /\ [Next]_vars => DeadTargetsExcluded'
<1> SUFFICES ASSUME Typed /\ PhaseShape /\ NeedProgress /\ StartsAfterUpstream
    /\ DeadAgrees /\ DeadTargetsExcluded, [Next]_vars
             PROVE DeadTargetsExcluded'
  OBVIOUS
<1> USE PlanKept DEF Typed, TypeOK, goVars, ctxVars, endVars, DeadTargetsExcluded
<1>1. CASE SetUp
  BY <1>1 DEF SetUp
<1>2. CASE AbortSetUp
  BY <1>2 DEF AbortSetUp
<1>3. CASE SkipPhase
  BY <1>3 DEF SkipPhase
<1>4. CASE StartPhase
  BY <1>4 DEF StartPhase
<1>5. CASE EndPhase
  BY <1>5 DEF EndPhase
<1>6. CASE EndLoop
  BY <1>6 DEF EndLoop
<1>7. CASE Report
  BY <1>7 DEF Report
<1>8. CASE RollBack
  BY <1>8 DEF RollBack
<1>9. CASE PassOver
  BY <1>9 DEF PassOver
<1>10. CASE EndRollback
  BY <1>10 DEF EndRollback
<1>11. ASSUME NEW s \in Step, NeedMet(s) PROVE DeadTargetsExcluded'
  BY <1>11 DEF NeedMet
<1>12. ASSUME NEW s \in Step, NeedFailed(s) PROVE DeadTargetsExcluded'
  BY <1>12 DEF NeedFailed, Refuse
<1>13. ASSUME NEW s \in Step, Abandon(s) PROVE DeadTargetsExcluded'
  BY <1>13 DEF Abandon, Refuse
<1>14. ASSUME NEW s \in Step, UnknownType(s) PROVE DeadTargetsExcluded'
  BY <1>14 DEF UnknownType, Refuse
<1>15. ASSUME NEW s \in Step, SkipByRunIf(s) PROVE DeadTargetsExcluded'
  BY <1>15 DEF SkipByRunIf
<1>16. ASSUME NEW s \in Step, ResolveFails(s) PROVE DeadTargetsExcluded'
  BY <1>16 DEF ResolveFails, Refuse
<1>17. ASSUME NEW s \in Step, Begin(s) PROVE DeadTargetsExcluded'
  <2>1. /\ using' = [using EXCEPT ![s] = Roles[s] \ dead] /\ killed' = killed
        /\ status[s] = "waiting"
    BY <1>17 DEF Begin
  <2>2. pc = "run" /\ s \in Members /\ PhaseOf[s] = phase
    BY <2>1, ActiveInPhase, MemberTypes
  <2>3. ASSUME NEW d \in Needed(s) PROVE killed[d] \subseteq dead
    <3>1. d \in Step /\ PhaseOf[d] = phase
      BY <2>2 DEF Needed
    <3>2. CASE d \in Planned
      BY <2>2, <3>1, <3>2 DEF DeadAgrees, Members
    <3>3. CASE d \notin Planned
      BY <3>1, <3>3 DEF DeadAgrees, PhaseShape, Executed
    <3> QED
      BY <3>2, <3>3
  <2>4. using'[s] = Roles[s] \ dead
    BY <2>1
  <2>5. ASSUME NEW r \in Planned, NEW d \in Needed(r)
        PROVE  using'[r] \cap killed[d] = {}
    BY <2>1, <2>3, <2>4, <2>5
  <2> QED
    BY <2>1, <2>5 DEF Needed
<1>18. ASSUME NEW s \in Step, Succeed(s) PROVE DeadTargetsExcluded'
  BY <1>18 DEF Succeed
<1>19. ASSUME NEW s \in Step, Fail(s) PROVE DeadTargetsExcluded'
  BY <1>19 DEF Fail
<1>20. ASSUME NEW s \in Step, Return(s) PROVE DeadTargetsExcluded'
  BY <1>20 DEF Return
<1>21. ASSUME NEW s \in Step, NEW t \in Target, MarkDead(s, t)
       PROVE DeadTargetsExcluded'
  <2>1. /\ status[s] = "running" /\ using' = using
        /\ killed' = [killed EXCEPT ![s] = killed[s] \cup {t}]
    BY <1>21 DEF MarkDead
  <2>2. ASSUME NEW r \in Planned, s \in Needed(r) PROVE using[r] = {}
    <3>1. r \in Step
      BY DEF Planned
    <3>2. s \in Planned
      BY <2>1 DEF PhaseShape
    <3>3. s \in Upstream[r]
      BY <2>2, <3>1 DEF Upstream
    <3>4. status[r] \notin Executed
      BY <2>1, <3>1, <3>2, <3>3 DEF StartsAfterUpstream, Settled
    <3> QED
      BY <3>1, <3>4 DEF DeadAgrees
  <2>3. ASSUME NEW r \in Planned, NEW d \in Needed(r)
        PROVE  using[r] \cap killed'[d] = {}
    BY <2>1, <2>2, <2>3
  <2> QED
    BY <2>1, <2>3 DEF Needed
<1>22. CASE Cancel
  BY <1>22 DEF Cancel
<1>23. CASE UNCHANGED vars
  BY <1>23 DEF vars
<1> QED
  BY <1>1, <1>2, <1>3, <1>4, <1>5, <1>6, <1>7, <1>8, <1>9, <1>10, <1>11, <1>12,
     <1>13, <1>14, <1>15, <1>16, <1>17, <1>18, <1>19, <1>20, <1>21, <1>22, <1>23
     DEF Next, RunLoop, Goroutine, Finished
\* The rollback keeps going backwards through the plan.
LEMMA NextRollback ==
  Typed /\ PlanOrdered /\ RollbackOrder /\ [Next]_vars => RollbackOrder'
<1> SUFFICES ASSUME Typed /\ PlanOrdered /\ RollbackOrder, [Next]_vars
             PROVE RollbackOrder'
  OBVIOUS
<1> USE PlanKept DEF Typed, TypeOK, goVars, ctxVars, endVars, RollbackOrder
<1>1. CASE SetUp
  BY <1>1 DEF SetUp
<1>2. CASE AbortSetUp
  BY <1>2 DEF AbortSetUp
<1>3. CASE SkipPhase
  BY <1>3 DEF SkipPhase
<1>4. CASE StartPhase
  BY <1>4 DEF StartPhase
<1>5. CASE EndPhase
  BY <1>5 DEF EndPhase
<1>6. CASE EndLoop
  BY <1>6 DEF EndLoop
<1>7. CASE Report
  BY <1>7 DEF Report
<1>8. CASE RollBack
  <2>1. /\ pc = "rollback" /\ pc' = "rollback" /\ plan' = plan
        /\ cursor \in 1..Len(plan) /\ cursor' = cursor - 1
        /\ undone' = Append(undone, plan[cursor])
    BY <1>8 DEF RollBack
  <2>2. /\ Len(undone) \in Nat /\ Len(undone') = Len(undone) + 1
        /\ undone'[Len(undone) + 1] = plan[cursor]
        /\ \A i \in 1..Len(undone) : undone'[i] = undone[i]
    BY <2>1
  <2>3. ASSUME NEW i \in 1..Len(undone')
        PROVE  \E p \in 1..Len(plan) : p > cursor - 1 /\ undone'[i] = plan[p]
    <3>1. CASE i \in 1..Len(undone)
      <4>1. PICK p \in 1..Len(plan) : p > cursor /\ undone[i] = plan[p]
        BY <3>1 DEF RollbackOrder
      <4> QED
        BY <2>1, <2>2, <3>1, <4>1
    <3>2. CASE i = Len(undone) + 1
      BY <2>1, <2>2, <3>2
    <3> QED
      BY <2>2, <3>1, <3>2
  <2>4. ASSUME NEW i \in 1..Len(undone'), NEW j \in 1..Len(undone'),
               NEW p \in 1..Len(plan), NEW q \in 1..Len(plan),
               i < j, plan[p] = undone'[i], plan[q] = undone'[j]
        PROVE  p > q
    <3>1. i \in 1..Len(undone) /\ undone'[i] = undone[i]
      <4>1. i \in Nat /\ i >= 1 /\ j \in Nat /\ j <= Len(undone) + 1 /\ i < j
        BY <2>2, <2>4
      <4> QED
        BY <2>2, <4>1, SMTT(20)
    <3>2. CASE j \in 1..Len(undone)
      <4>1. undone'[j] = undone[j]
        BY <2>2, <3>2
      <4>2. plan[p] = undone[i] /\ plan[q] = undone[j] /\ i < j
        BY <2>4, <3>1, <4>1
      <4> QED
        BY <3>1, <3>2, <4>2 DEF RollbackOrder
    <3>3. CASE j = Len(undone) + 1
      <4>1. q = cursor
        BY <2>1, <2>2, <2>4, <3>3 DEF PlanOrdered
      <4>2. PICK r \in 1..Len(plan) : r > cursor /\ undone[i] = plan[r]
        BY <3>1 DEF RollbackOrder
      <4>3. p = r
        BY <2>4, <3>1, <4>2 DEF PlanOrdered
      <4> QED
        BY <4>1, <4>2, <4>3
    <3> QED
      BY <2>2, <3>2, <3>3, SMTT(20)
  <2>5. pc' = "rollback"
    BY <2>1
  <2>6. \A i \in 1..Len(undone') :
          \E p \in 1..Len(plan') : p > cursor' /\ undone'[i] = plan'[p]
    BY <2>1, <2>3
  <2>7. \A i, j \in 1..Len(undone') : \A p, q \in 1..Len(plan') :
          i < j /\ plan'[p] = undone'[i] /\ plan'[q] = undone'[j] => p > q
    BY <2>1, <2>4
  <2> QED
    BY <2>5, <2>6, <2>7
<1>9. CASE PassOver
  BY <1>9 DEF PassOver
<1>10. CASE EndRollback
  BY <1>10 DEF EndRollback
<1>11. ASSUME NEW s \in Step, NeedMet(s) PROVE RollbackOrder'
  BY <1>11 DEF NeedMet
<1>12. ASSUME NEW s \in Step, NeedFailed(s) PROVE RollbackOrder'
  BY <1>12 DEF NeedFailed, Refuse
<1>13. ASSUME NEW s \in Step, Abandon(s) PROVE RollbackOrder'
  BY <1>13 DEF Abandon, Refuse
<1>14. ASSUME NEW s \in Step, UnknownType(s) PROVE RollbackOrder'
  BY <1>14 DEF UnknownType, Refuse
<1>15. ASSUME NEW s \in Step, SkipByRunIf(s) PROVE RollbackOrder'
  BY <1>15 DEF SkipByRunIf
<1>16. ASSUME NEW s \in Step, ResolveFails(s) PROVE RollbackOrder'
  BY <1>16 DEF ResolveFails, Refuse
<1>17. ASSUME NEW s \in Step, Begin(s) PROVE RollbackOrder'
  BY <1>17 DEF Begin
<1>18. ASSUME NEW s \in Step, Succeed(s) PROVE RollbackOrder'
  BY <1>18 DEF Succeed
<1>19. ASSUME NEW s \in Step, Fail(s) PROVE RollbackOrder'
  BY <1>19 DEF Fail
<1>20. ASSUME NEW s \in Step, Return(s) PROVE RollbackOrder'
  BY <1>20 DEF Return
<1>21. ASSUME NEW s \in Step, NEW t \in Target, MarkDead(s, t) PROVE RollbackOrder'
  BY <1>21 DEF MarkDead
<1>22. CASE Cancel
  BY <1>22 DEF Cancel
<1>23. CASE UNCHANGED vars
  BY <1>23 DEF vars
<1> QED
  BY <1>1, <1>2, <1>3, <1>4, <1>5, <1>6, <1>7, <1>8, <1>9, <1>10, <1>11, <1>12,
     <1>13, <1>14, <1>15, <1>16, <1>17, <1>18, <1>19, <1>20, <1>21, <1>22, <1>23
     DEF Next, RunLoop, Goroutine, Finished

\* The initial states satisfy the invariant.
LEMMA InitInv == Init => Inv
<1> SUFFICES ASSUME Init PROVE Inv
  OBVIOUS
<1>1. Typed
  BY InitType
<1>2. PICK S \in Selections : plan \in Schedules(S)
  BY DEF Init
<1>3. S \subseteq Step
  BY <1>2 DEF Selections
<1>4. Cardinality(S) \in Nat
  BY <1>3, PipelineAssumption, FS_Subset, FS_CardinalityType DEF PipelineAssumption
<1>5. plan \in [1..Cardinality(S) -> S]
  BY <1>2 DEF Schedules
<1>6. Len(plan) = Cardinality(S)
  <2>1. DOMAIN plan = 1..Cardinality(S) /\ DOMAIN plan = 1..Len(plan)
    BY <1>1, <1>5, LenProperties DEF Typed, TypeOK
  <2>2. Len(plan) \in Nat
    BY <1>1, LenProperties DEF Typed, TypeOK
  <2> QED
    BY <1>4, <2>1, <2>2
<1>7. PlanOrdered
  BY <1>2, <1>6 DEF Schedules, PlanOrdered
<1>8. \A s \in Step : PhaseOf[s] \in 1..3
  BY PipelineAssumption DEF PipelineAssumption
<1>9. /\ pc = "start" /\ phase = 1 /\ undone = <<>> /\ Len(undone) = 0
      /\ status = [s \in Step |-> "idle"] /\ awaiting = [s \in Step |-> 1]
      /\ using = [s \in Step |-> {}] /\ killed = [s \in Step |-> {}]
      /\ returned = {} /\ outcome = "none" /\ ~groupErr
  BY DEF Init
<1>10. PhaseShape /\ ErrorAgrees /\ NeedProgress
  BY <1>8, <1>9 DEF PhaseShape, ErrorAgrees, NeedProgress
<1>11. Planned \subseteq Step
  BY <1>1 DEF Planned, Typed, TypeOK
<1>12. StartsAfterUpstream /\ OutcomeFaithful /\ DeadAgrees /\ DeadTargetsExcluded
  BY <1>9, <1>11 DEF StartsAfterUpstream, OutcomeFaithful, DeadAgrees,
                     DeadTargetsExcluded, Executed, Needed
<1>13. RollbackOrder
  BY <1>9 DEF RollbackOrder
<1> QED
  BY <1>1, <1>7, <1>10, <1>12, <1>13 DEF Inv

\* Every step preserves the invariant.
LEMMA NextInv == Inv /\ [Next]_vars => Inv'
<1> SUFFICES ASSUME Inv, [Next]_vars PROVE Inv'
  OBVIOUS
<1>1. PlanOrdered'
  BY PlanKept DEF Inv, PlanOrdered
<1> QED
  BY <1>1, NextType, NextShape, NextError, NextNeed, NextUpstream, NextOutcome,
     NextDead, NextExcluded, NextRollback DEF Inv

LEMMA Invariance == Spec => []Inv
  BY InitInv, NextInv, PTL DEF Spec

-----------------------------------------------------------------------------
\* For every accepted pipeline the variables stay in their types.
THEOREM TypeCorrect == Spec => []TypeOK
<1>1. Inv => TypeOK
  BY DEF Inv, Typed
<1> QED
  BY <1>1, Invariance, PTL

\* For every accepted pipeline a step acts only after everything upstream of it
\* has settled, whatever the goroutines, the errgroup and the user do.
THEOREM OrderRespected == Spec => []StartsAfterUpstream
<1>1. Inv => StartsAfterUpstream
  BY DEF Inv
<1> QED
  BY <1>1, Invariance, PTL

\* A broken phase stops the run: no step of a later phase ever starts.
THEOREM BrokenStops == Spec => []BrokenPhaseStopsRun
<1>1. Inv => BrokenPhaseStopsRun
  <2> SUFFICES ASSUME Inv, NEW s \in Planned, NEW t \in Planned,
                      status[s] \in Broken, PhaseOf[s] < PhaseOf[t]
               PROVE  status[t] = "idle"
    BY DEF BrokenPhaseStopsRun
  <2>1. s \in Step /\ t \in Step
    BY DEF Planned, Inv, Typed, TypeOK
  <2>2. PhaseOf[s] = phase
    BY <2>1, PhaseCases DEF Inv, PhaseShape, Settled, Broken
  <2> QED
    BY <2>1, <2>2 DEF Inv, PhaseShape
<1> QED
  BY <1>1, Invariance, PTL

\* Nothing runs beside the outcome event and the rollback.
THEOREM EndIsQuiescent == Spec => []QuiescentEnd
<1>1. Inv => QuiescentEnd
  BY DEF Inv, PhaseShape, QuiescentEnd
<1> QED
  BY <1>1, Invariance, PTL

\* The outcome event tells the truth about the steps.
THEOREM OutcomeIsFaithful == Spec => []OutcomeFaithful
<1>1. Inv => OutcomeFaithful
  BY DEF Inv
<1> QED
  BY <1>1, Invariance, PTL

\* No step is handed a target that one of its needs marked dead.
THEOREM DeadAreExcluded == Spec => []DeadTargetsExcluded
<1>1. Inv => DeadTargetsExcluded
  BY DEF Inv
<1> QED
  BY <1>1, Invariance, PTL

\* Rollback goes through the DAG backwards, dependents first.
THEOREM RollbackIsReversed == Spec => []RollbackReversesDAG
<1>1. Inv => RollbackReversesDAG
  <2> SUFFICES ASSUME Inv, NEW i \in 1..Len(undone), NEW j \in 1..Len(undone),
                      i < j, undone[i] \in Upstream[undone[j]]
               PROVE  FALSE
    BY DEF RollbackReversesDAG
  <2>1. PICK p \in 1..Len(plan) : undone[i] = plan[p]
    BY DEF Inv, RollbackOrder
  <2>2. PICK q \in 1..Len(plan) : undone[j] = plan[q]
    BY DEF Inv, RollbackOrder
  <2>3. p > q
    BY <2>1, <2>2 DEF Inv, RollbackOrder
  <2>4. p < q
    BY <2>1, <2>2 DEF Inv, PlanOrdered
  <2>5. p \in Nat /\ q \in Nat
    BY DEF Inv, Typed, TypeOK
  <2> QED
    BY <2>3, <2>4, <2>5
<1> QED
  BY <1>1, Invariance, PTL

-----------------------------------------------------------------------------
(* For pipelines whose step names are unique across all phases the rollback *)
(* is complete, and the run implements DeploymentSaga.  The hypothesis     *)
(* cannot be dropped: two phases that share a name share an entry of the   *)
(* state map, and the rollback then takes one for the other.               *)

UniqueNames == \A s, t \in Step : NameOf[s] = NameOf[t] => s = t

\* The state map tells the settled steps, in every phase at once, and the
\* rollback has reached every settled step that stands after its cursor.
RollbackState ==
  /\ \A s \in Planned : result[NameOf[s]] = "ok" <=> status[s] \in Settled
  /\ \A s \in Planned : status[s] \in Settled \cup {"running"}
     => s \notin Unregistered
  /\ outcome = "FAILED" => succeeded = {n \in Name : result[n] = "ok"}
  /\ pc = "rollback" => outcome = "FAILED"
  /\ outcome # "FAILED" => undone = <<>>
  /\ \A i \in 1..Len(undone) : status[undone[i]] \in Settled
  /\ outcome = "FAILED" => \A p \in 1..Len(plan) :
       p > cursor /\ status[plan[p]] \in Settled => plan[p] \in Undone
  /\ pc = "returned" /\ outcome = "FAILED" => cursor = 0

\* What the types say of a planned step.
LEMMA PlannedTypes ==
  ASSUME Typed, NEW s \in Planned
  PROVE  s \in Step /\ NameOf[s] \in Name /\ DOMAIN result = Name
<1>1. s \in Step
  BY DEF Planned, Typed, TypeOK
<1>2. DOMAIN result = Name
  BY DEF Typed, TypeOK
<1> QED
  BY <1>1, <1>2, PipelineAssumption DEF PipelineAssumption

LEMMA PlannedNames ==
  ASSUME Typed, UniqueNames, NEW s \in Planned, NEW t \in Planned,
         NameOf[s] = NameOf[t]
  PROVE  s = t
  BY PlannedTypes DEF UniqueNames

\* Where the rollback has reached.
LEMMA CursorTypes ==
  ASSUME Typed
  PROVE  /\ Len(plan) \in Nat /\ cursor \in 0..Len(plan) /\ Len(undone) \in Nat
         /\ \A p \in 1..Len(plan) : plan[p] \in Planned
         /\ undone \in Seq(Step)
<1>1. plan \in Seq(Step) /\ undone \in Seq(Step) /\ cursor \in 0..Len(plan)
  BY DEF Typed, TypeOK
<1>2. Len(plan) \in Nat /\ Len(undone) \in Nat
  BY <1>1
<1>3. \A p \in 1..Len(plan) : plan[p] \in Planned
  BY DEF Planned
<1> QED
  BY <1>1, <1>2, <1>3

\* The rollback keeps its hold on the settled steps.
LEMMA NextRollbackState ==
  UniqueNames /\ Inv /\ RollbackState /\ [Next]_vars => RollbackState'
<1> SUFFICES ASSUME UniqueNames /\ Inv /\ RollbackState, [Next]_vars
             PROVE RollbackState'
  OBVIOUS
<1> USE PlanKept, PlannedTypes, PlannedNames DEF Inv, RollbackState, goVars,
    ctxVars, endVars, Undone, Settled
<1>1. CASE SetUp
  BY <1>1 DEF SetUp
<1>2. CASE AbortSetUp
  BY <1>2 DEF AbortSetUp, ErrorAgrees
<1>3. CASE SkipPhase
  BY <1>3 DEF SkipPhase
<1>4. CASE StartPhase
  <2>1. outcome' = "none" /\ outcome = "none" /\ undone' = undone /\ undone = <<>>
    BY <1>4 DEF StartPhase, ErrorAgrees
  <2>2. ASSUME NEW m \in Members PROVE status[m] = "idle"
    BY <1>4, MemberTypes DEF StartPhase, PhaseShape
  <2>3. ASSUME NEW r \in Planned
        PROVE  /\ result'[NameOf[r]] = "ok" <=> status'[r] \in Settled
               /\ status'[r] \in Settled \cup {"running"} => r \notin Unregistered
    <3>1. CASE r \in Members
      <4>1. result'[NameOf[r]] = "open" /\ status'[r] = "waiting"
        BY <1>4, <3>1 DEF StartPhase
      <4> QED
        BY <4>1
    <3>2. CASE r \notin Members
      <4>1. \A m \in Members : NameOf[m] # NameOf[r]
        BY <3>2 DEF Members
      <4>2. result'[NameOf[r]] = result[NameOf[r]] /\ status'[r] = status[r]
        BY <1>4, <3>2, <4>1 DEF StartPhase
      <4> QED
        BY <4>2
    <3> QED
      BY <3>1, <3>2
  <2>4. pc' = "run" /\ Len(undone') = 0
    BY <1>4, <2>1 DEF StartPhase
  <2> QED
    BY <2>1, <2>3, <2>4
<1>5. CASE EndPhase
  BY <1>5 DEF EndPhase
<1>6. CASE EndLoop
  BY <1>6 DEF EndLoop
<1>7. CASE Report
  <2>1. /\ outcome = "none" /\ undone = <<>> /\ undone' = <<>> /\ Len(undone') = 0
        /\ status' = status /\ result' = result
    BY <1>7 DEF Report, ErrorAgrees
  <2>2. CASE groupErr
    <3>1. /\ outcome' = "FAILED" /\ pc' = "rollback" /\ cursor' = Len(plan)
          /\ succeeded' = {n \in Name : result[n] = "ok"}
      BY <1>7, <2>2 DEF Report
    <3>2. \A p \in 1..Len(plan) : ~(p > Len(plan))
      BY CursorTypes
    <3> QED
      BY <2>1, <3>1, <3>2
  <2>3. CASE ~groupErr
    <3>1. outcome' = "SUCCESS" /\ pc' = "returned"
      BY <1>7, <2>3 DEF Report
    <3> QED
      BY <2>1, <3>1
  <2> QED
    BY <2>2, <2>3
<1>8. CASE RollBack
  <2> DEFINE s == plan[cursor]
  <2>1. /\ pc = "rollback" /\ pc' = pc /\ outcome' = outcome /\ status' = status
        /\ result' = result /\ succeeded' = succeeded /\ cursor' = cursor - 1
        /\ cursor >= 1 /\ NameOf[s] \in succeeded /\ undone' = Append(undone, s)
    BY <1>8 DEF RollBack
  <2>2. cursor \in 1..Len(plan) /\ s \in Planned /\ s \in Step
    BY <2>1, CursorTypes
  <2>3. outcome = "FAILED" /\ status[s] \in Settled
    BY <2>1, <2>2
  <2>4. /\ Len(undone') = Len(undone) + 1 /\ undone'[Len(undone) + 1] = s
        /\ \A i \in 1..Len(undone) : undone'[i] = undone[i]
    BY <2>1, <2>2, CursorTypes
  <2>5. ASSUME NEW i \in 1..Len(undone') PROVE status[undone'[i]] \in Settled
    <3>1. i \in 1..Len(undone) \/ i = Len(undone) + 1
      BY <2>4, CursorTypes
    <3> QED
      BY <2>3, <2>4, <3>1
  <2>6. s \in Undone' /\ Undone \subseteq Undone'
    BY <2>4, CursorTypes
  <2>7. ASSUME NEW p \in 1..Len(plan), p > cursor - 1, status[plan[p]] \in Settled
        PROVE  plan[p] \in Undone'
    <3>1. p = cursor \/ p > cursor
      BY <2>2, <2>7, CursorTypes
    <3> QED
      BY <2>3, <2>6, <2>7, <3>1
  <2> QED
    BY <2>1, <2>3, <2>5, <2>7
<1>9. CASE PassOver
  <2> DEFINE s == plan[cursor]
  <2>1. /\ pc = "rollback" /\ pc' = pc /\ outcome' = outcome /\ status' = status
        /\ result' = result /\ succeeded' = succeeded /\ cursor' = cursor - 1
        /\ cursor >= 1 /\ (NameOf[s] \notin succeeded \/ s \in Unregistered)
        /\ undone' = undone
    BY <1>9 DEF PassOver
  <2>2. cursor \in 1..Len(plan) /\ s \in Planned /\ s \in Step
    BY <2>1, CursorTypes
  <2>3. outcome = "FAILED" /\ status[s] \notin Settled
    BY <2>1, <2>2
  <2>4. ASSUME NEW p \in 1..Len(plan), p > cursor - 1, status[plan[p]] \in Settled
        PROVE  plan[p] \in Undone
    <3>1. p = cursor \/ p > cursor
      BY <2>2, <2>4, CursorTypes
    <3> QED
      BY <2>3, <2>4, <3>1
  <2> QED
    BY <2>1, <2>3, <2>4
<1>10. CASE EndRollback
  BY <1>10 DEF EndRollback
<1>11. ASSUME NEW s \in Step, NeedMet(s) PROVE RollbackState'
  BY <1>11 DEF NeedMet
<1>12. ASSUME NEW s \in Step, NeedFailed(s) PROVE RollbackState'
  BY <1>12 DEF NeedFailed, Refuse
<1>13. ASSUME NEW s \in Step, Abandon(s) PROVE RollbackState'
  BY <1>13 DEF Abandon, Refuse
<1>14. ASSUME NEW s \in Step, UnknownType(s) PROVE RollbackState'
  BY <1>14 DEF UnknownType, Refuse
<1>15. ASSUME NEW s \in Step, SkipByRunIf(s) PROVE RollbackState'
  <2>1. /\ status' = [status EXCEPT ![s] = "skipped"]
        /\ result' = [result EXCEPT ![NameOf[s]] = "ok"]
        /\ status[s] = "waiting" /\ pc' = pc /\ outcome' = outcome
           /\ undone' = undone
    BY <1>15 DEF SkipByRunIf
  <2>2. pc = "run" /\ s \in Planned
    BY <2>1, ActiveInPhase, MemberTypes
  <2>3. outcome = "none" /\ undone = <<>> /\ Len(undone) = 0
    BY <2>2 DEF ErrorAgrees
  <2>4. s \notin Unregistered
    BY <1>15, <2>1, <2>2 DEF SkipByRunIf
  <2>5. DOMAIN status = Step
    BY DEF Typed, TypeOK
  <2>6. ASSUME NEW r \in Planned
        PROVE  result'[NameOf[r]] = "ok" <=> status'[r] \in Settled
    <3>1. CASE r = s
      BY <2>1, <2>2, <2>5, <3>1
    <3>2. CASE r # s
      <4>1. NameOf[r] # NameOf[s]
        BY <2>2, <3>2
      <4>2. result'[NameOf[r]] = result[NameOf[r]] /\ status'[r] = status[r]
        BY <2>1, <2>5, <3>2, <4>1
      <4> QED
        BY <4>2
    <3> QED
      BY <3>1, <3>2
  <2>7. ASSUME NEW r \in Planned, status'[r] \in Settled \cup {"running"}
        PROVE  r \notin Unregistered
    BY <2>1, <2>4, <2>5, <2>7
  <2> QED
    BY <2>1, <2>2, <2>3, <2>6, <2>7
<1>16. ASSUME NEW s \in Step, ResolveFails(s) PROVE RollbackState'
  BY <1>16 DEF ResolveFails, Refuse
<1>17. ASSUME NEW s \in Step, Begin(s) PROVE RollbackState'
  BY <1>17 DEF Begin
<1>18. ASSUME NEW s \in Step, Succeed(s) PROVE RollbackState'
  <2>1. /\ status' = [status EXCEPT ![s] = "done"]
        /\ result' = [result EXCEPT ![NameOf[s]] = "ok"]
        /\ status[s] = "running" /\ pc' = pc /\ outcome' = outcome
           /\ undone' = undone
    BY <1>18 DEF Succeed
  <2>2. pc = "run" /\ s \in Planned
    BY <2>1, ActiveInPhase, MemberTypes
  <2>3. outcome = "none" /\ undone = <<>> /\ Len(undone) = 0
    BY <2>2 DEF ErrorAgrees
  <2>4. s \notin Unregistered
    BY <1>18, <2>1, <2>2 DEF Succeed
  <2>5. DOMAIN status = Step
    BY DEF Typed, TypeOK
  <2>6. ASSUME NEW r \in Planned
        PROVE  result'[NameOf[r]] = "ok" <=> status'[r] \in Settled
    <3>1. CASE r = s
      BY <2>1, <2>2, <2>5, <3>1
    <3>2. CASE r # s
      <4>1. NameOf[r] # NameOf[s]
        BY <2>2, <3>2
      <4>2. result'[NameOf[r]] = result[NameOf[r]] /\ status'[r] = status[r]
        BY <2>1, <2>5, <3>2, <4>1
      <4> QED
        BY <4>2
    <3> QED
      BY <3>1, <3>2
  <2>7. ASSUME NEW r \in Planned, status'[r] \in Settled \cup {"running"}
        PROVE  r \notin Unregistered
    BY <2>1, <2>4, <2>5, <2>7
  <2> QED
    BY <2>1, <2>2, <2>3, <2>6, <2>7
<1>19. ASSUME NEW s \in Step, Fail(s) PROVE RollbackState'
  <2>1. /\ status' = [status EXCEPT ![s] = "failed"]
        /\ result' = [result EXCEPT ![NameOf[s]] = "err"]
        /\ status[s] = "running" /\ pc' = pc /\ outcome' = outcome
           /\ undone' = undone
    BY <1>19 DEF Fail
  <2>2. pc = "run" /\ s \in Planned
    BY <2>1, ActiveInPhase, MemberTypes
  <2>3. outcome = "none" /\ undone = <<>> /\ Len(undone) = 0
    BY <2>2 DEF ErrorAgrees
  <2>5. DOMAIN status = Step
    BY DEF Typed, TypeOK
  <2>6. ASSUME NEW r \in Planned
        PROVE  result'[NameOf[r]] = "ok" <=> status'[r] \in Settled
    <3>1. CASE r = s
      BY <2>1, <2>2, <2>5, <3>1
    <3>2. CASE r # s
      <4>1. NameOf[r] # NameOf[s]
        BY <2>2, <3>2
      <4>2. result'[NameOf[r]] = result[NameOf[r]] /\ status'[r] = status[r]
        BY <2>1, <2>5, <3>2, <4>1
      <4> QED
        BY <4>2
    <3> QED
      BY <3>1, <3>2
  <2>7. ASSUME NEW r \in Planned, status'[r] \in Settled \cup {"running"}
        PROVE  r \notin Unregistered
    BY <2>1, <2>5, <2>7
  <2> QED
    BY <2>1, <2>2, <2>3, <2>6, <2>7
<1>20. ASSUME NEW s \in Step, Return(s) PROVE RollbackState'
  BY <1>20 DEF Return
<1>21. ASSUME NEW s \in Step, NEW t \in Target, MarkDead(s, t) PROVE RollbackState'
  BY <1>21 DEF MarkDead
<1>22. CASE Cancel
  BY <1>22 DEF Cancel
<1>23. CASE UNCHANGED vars
  BY <1>23 DEF vars
<1> QED
  BY <1>1, <1>2, <1>3, <1>4, <1>5, <1>6, <1>7, <1>8, <1>9, <1>10, <1>11, <1>12,
     <1>13, <1>14, <1>15, <1>16, <1>17, <1>18, <1>19, <1>20, <1>21, <1>22, <1>23
     DEF Next, RunLoop, Goroutine, Finished

LEMMA InitRollbackState == Init /\ Inv => RollbackState
<1> SUFFICES ASSUME Init, Inv PROVE RollbackState
  OBVIOUS
<1>1. /\ pc = "start" /\ undone = <<>> /\ Len(undone) = 0 /\ outcome = "none"
      /\ status = [s \in Step |-> "idle"] /\ result = [n \in Name |-> "absent"]
  BY DEF Init
<1>2. \A s \in Planned : status[s] = "idle" /\ result[NameOf[s]] = "absent"
  BY <1>1, PlannedTypes DEF Inv
<1> QED
  BY <1>1, <1>2 DEF RollbackState, Settled

LEMMA RollbackInvariance == UniqueNames /\ Spec => [](Inv /\ RollbackState)
<1> SUFFICES ASSUME UniqueNames PROVE Spec => [](Inv /\ RollbackState)
  OBVIOUS
<1>1. Init => Inv /\ RollbackState
  BY InitInv, InitRollbackState
<1>2. Inv /\ RollbackState /\ [Next]_vars => (Inv /\ RollbackState)'
  BY NextInv, NextRollbackState
<1> QED
  BY <1>1, <1>2, PTL DEF Spec

-----------------------------------------------------------------------------
\* The rollback works downwards, so it never calls Rollback twice for a step.
LEMMA UndoneOnce ==
  ASSUME Inv
  PROVE  Len(undone) = Cardinality(Undone)
<1>1. Len(undone) \in Nat /\ DOMAIN undone = 1..Len(undone)
  BY CursorTypes DEF Inv
<1>2. ASSUME NEW i \in 1..Len(undone), NEW j \in 1..Len(undone), undone[i] = undone[j]
      PROVE  i = j
  <2>1. PICK p \in 1..Len(plan) : undone[i] = plan[p]
    BY DEF Inv, RollbackOrder
  <2>2. p \in Nat /\ i \in Nat /\ j \in Nat
    BY CursorTypes DEF Inv
  <2>3. RollbackOrder
    BY DEF Inv
  <2>4. i < j => p > p
    BY <1>2, <2>1, <2>3 DEF RollbackOrder
  <2>5. j < i => p > p
    BY <1>2, <2>1, <2>3 DEF RollbackOrder
  <2> QED
    BY <2>2, <2>4, <2>5
<1>3. undone \in Bijection(1..Len(undone), Undone)
  <2>1. undone \in [1..Len(undone) -> Undone]
    BY CursorTypes DEF Inv, Undone
  <2> QED
    BY <1>2, <2>1 DEF Undone, Bijection, Injection, Surjection, IsInjective
<1>4. ExistsBijection(1..Len(undone), Undone)
  BY <1>3 DEF ExistsBijection
<1> QED
  BY <1>1, <1>4, FS_CountingElements

\* With unique names, a failed run that returns has called Rollback once for every
\* step that settled, and for no other.
THEOREM RollbackIsComplete == UniqueNames /\ Spec => []RollbackComplete
<1>1. Inv /\ RollbackState => RollbackComplete
  <2> SUFFICES ASSUME Inv, RollbackState, pc = "returned", outcome = "FAILED"
               PROVE  /\ Undone = {s \in Planned : status[s] \in Settled}
                      /\ Len(undone) = Cardinality(Undone)
    BY DEF RollbackComplete
  <2>1. ASSUME NEW s \in Undone PROVE s \in Planned /\ status[s] \in Settled
    <3>1. PICK i \in 1..Len(undone) : undone[i] = s
      BY DEF Undone
    <3> QED
      BY <3>1 DEF Inv, RollbackOrder, RollbackState, Planned
  <2>2. ASSUME NEW s \in Planned, status[s] \in Settled PROVE s \in Undone
    <3>1. PICK p \in 1..Len(plan) : plan[p] = s
      BY DEF Planned
    <3>2. p > 0
      BY CursorTypes DEF Inv
    <3> QED
      BY <2>2, <3>1, <3>2 DEF RollbackState
  <2> QED
    BY <2>1, <2>2, UndoneOnce
<1> QED
  BY <1>1, RollbackInvariance, PTL

-----------------------------------------------------------------------------
(* The refinement.                                                         *)

LEMMA SagaStates ==
  /\ \A st \in {"idle", "waiting"} : SagaState(st) = "pending"
  /\ SagaState("running") = "active"
  /\ \A st \in Settled : SagaState(st) = "settled"
  /\ \A st \in Broken : SagaState(st) = "broken"
  BY DEF SagaState, Settled, Broken

\* A step changes nothing the saga sees.
SagaStutter ==
  /\ UNCHANGED <<plan, outcome, undone>>
  /\ \A s \in Step : SagaState(status'[s]) = SagaState(status[s])

LEMMA StutterRefines == SagaStutter => UNCHANGED Saga!sagaVars
<1> SUFFICES ASSUME SagaStutter PROVE UNCHANGED Saga!sagaVars
  OBVIOUS
<1>1. Planned' = Planned
  BY DEF SagaStutter, Planned
<1>2. [s \in Step |-> SagaState(status[s])]' = [s \in Step |-> SagaState(status[s])]
  BY DEF SagaStutter
<1> QED
  BY <1>1, <1>2 DEF SagaStutter, Saga!sagaVars

\* What a goroutine of the running phase knows.
LEMMA ActiveFacts ==
  ASSUME Inv, NEW s \in Step, status[s] \in {"waiting", "running"}
  PROVE  s \in Planned /\ outcome = "none" /\ pc = "run" /\ DOMAIN status = Step
<1>1. pc = "run" /\ s \in Planned
  BY ActiveInPhase, MemberTypes DEF Inv
<1>2. outcome = "none"
  BY <1>1 DEF Inv, ErrorAgrees
<1>3. DOMAIN status = Step
  BY DEF Inv, Typed, TypeOK
<1> QED
  BY <1>1, <1>2, <1>3

\* A change of the status of one step is the same change of its saga state.
LEMMA SagaUpdate ==
  ASSUME Inv, NEW s \in Step, NEW st,
         status' = [status EXCEPT ![s] = st]
  PROVE  [r \in Step |-> SagaState(status'[r])] =
           [[r \in Step |-> SagaState(status[r])] EXCEPT ![s] = SagaState(st)]
<1>1. DOMAIN status = Step
  BY DEF Inv, Typed, TypeOK
<1> QED
  BY <1>1

\* A goroutine that gives up, or whose Execute fails, breaks its step.
LEMMA BreakRefines ==
  ASSUME Inv, NEW s \in Step, status[s] \in {"waiting", "running"},
         NEW st \in Broken, status' = [status EXCEPT ![s] = st],
         UNCHANGED <<plan, outcome, undone>>
  PROVE  Saga!Break(s)
<1>1. s \in Planned /\ outcome = "none"
  BY ActiveFacts
<1>2. Planned' = Planned
  BY DEF Planned
<1>3. SagaState(status[s]) \in {"pending", "active"} /\ SagaState(st) = "broken"
  BY SagaStates
<1> QED
  BY <1>1, <1>2, <1>3, SagaUpdate DEF Saga!Break

\* Everything upstream of a step that may act is settled in the saga's eyes.
LEMMA SagaUpstream ==
  ASSUME Inv, NEW s \in Step,
         \A d \in Upstream[s] \cap Planned : status[d] \in Settled
  PROVE  Saga!UpstreamSettled(s)
<1>1. Planned \subseteq Step
  BY DEF Planned, Inv, Typed, TypeOK
<1> QED
  BY <1>1, SagaStates DEF Saga!UpstreamSettled

LEMMA SettleRefines ==
  ASSUME Inv, NEW s \in Step, status[s] \in {"waiting", "running"},
         \A d \in Upstream[s] \cap Planned : status[d] \in Settled,
         NEW st \in Settled, status' = [status EXCEPT ![s] = st],
         UNCHANGED <<plan, outcome, undone>>
  PROVE  Saga!Settle(s)
<1>1. s \in Planned /\ outcome = "none"
  BY ActiveFacts
<1>2. Planned' = Planned
  BY DEF Planned
<1>3. SagaState(status[s]) \in {"pending", "active"} /\ SagaState(st) = "settled"
  BY SagaStates
<1> QED
  BY <1>1, <1>2, <1>3, SagaUpdate, SagaUpstream DEF Saga!Settle

LEMMA ActivateRefines ==
  ASSUME Inv, NEW s \in Step, Begin(s)
  PROVE  Saga!Activate(s)
<1>1. /\ status[s] = "waiting" /\ AllNeedsMet(s)
      /\ status' = [status EXCEPT ![s] = "running"]
      /\ UNCHANGED <<plan, outcome, undone>>
  BY DEF Begin, endVars
<1>2. s \in Planned /\ outcome = "none"
  BY <1>1, ActiveFacts
<1>3. Planned' = Planned
  BY <1>1 DEF Planned
<1>4. SagaState(status[s]) = "pending" /\ SagaState("running") = "active"
  BY <1>1, SagaStates
<1>5. Saga!UpstreamSettled(s)
  BY <1>1, NeedsMetMeansSettled, SagaUpstream DEF Inv
<1> QED
  BY <1>1, <1>2, <1>3, <1>4, <1>5, SagaUpdate DEF Saga!Activate

\* The outcome event concludes the saga.
LEMMA ConcludeRefines ==
  ASSUME Inv, Report
  PROVE  Saga!Conclude
<1>1. /\ pc = "report" /\ UNCHANGED <<plan, undone>> /\ status' = status
      /\ outcome = "none" /\ Planned' = Planned
  BY DEF Report, Inv, ErrorAgrees, Planned
<1>2. ASSUME NEW s \in Planned
      PROVE  s \in Step /\ status[s] \notin {"waiting", "running"}
  BY <1>1 DEF Inv, PhaseShape, Planned, Typed, TypeOK
<1>3. ASSUME NEW s \in Planned PROVE SagaState(status[s]) # "active"
  <2>1. status[s] \in {"idle"} \cup Settled \cup Broken
    BY <1>2 DEF Inv, Typed, TypeOK
  <2> QED
    BY <2>1, SagaStates
<1>4. [s \in Step |-> SagaState(status'[s])] = [s \in Step |-> SagaState(status[s])]
  BY <1>1
<1>5. CASE groupErr
  <2>1. outcome' = "FAILED"
    BY <1>5 DEF Report
  <2>2. PICK s \in returned : status[s] \in Broken
    BY <1>5 DEF Inv, ErrorAgrees
  <2>3. s \in Planned /\ s \in Step
    BY <2>2 DEF Inv, PhaseShape, Typed, TypeOK, Broken
  <2>4. SagaState(status[s]) = "broken"
    BY <2>2, SagaStates
  <2> QED
    BY <1>1, <1>2, <1>3, <1>4, <2>1, <2>3, <2>4 DEF Saga!Conclude
<1>6. CASE ~groupErr
  <2>1. outcome' = "SUCCESS"
    BY <1>6 DEF Report
  <2>2. OutcomeFaithful'
    BY NextOutcome, <1>1 DEF Inv, Next, RunLoop
  <2>3. \A s \in Planned : status[s] \in Settled
    BY <1>1, <2>1, <2>2 DEF OutcomeFaithful
  <2>4. \A s \in Planned : SagaState(status[s]) = "settled"
    BY <2>3, SagaStates
  <2> QED
    BY <1>1, <1>2, <1>3, <1>4, <2>1, <2>4 DEF Saga!Conclude
<1> QED
  BY <1>5, <1>6

\* A call of Rollback takes back a settled step none of whose dependents is left.
LEMMA UndoRefines ==
  ASSUME Inv, RollbackState, RollBack
  PROVE  Saga!Undo(plan[cursor])
<1> DEFINE s == plan[cursor]
<1>1. /\ pc = "rollback" /\ UNCHANGED <<plan, outcome, status>> /\ Planned' = Planned
      /\ cursor >= 1 /\ NameOf[s] \in succeeded /\ undone' = Append(undone, s)
  BY DEF RollBack, Planned
<1>2. /\ cursor \in 1..Len(plan) /\ s \in Planned /\ s \in Step
      /\ Len(plan) \in Nat /\ Len(undone) \in Nat
  BY <1>1, CursorTypes, PlannedTypes DEF Inv
<1>3. outcome = "FAILED" /\ SagaState(status[s]) = "settled"
  BY <1>1, <1>2, SagaStates DEF RollbackState
<1>4. s \notin Undone
  <2> SUFFICES ASSUME NEW i \in 1..Len(undone), undone[i] = s PROVE FALSE
    BY DEF Undone
  <2>1. PICK p \in 1..Len(plan) : p > cursor /\ undone[i] = plan[p]
    BY DEF Inv, RollbackOrder
  <2>2. p = cursor
    BY <1>2, <2>1 DEF Inv, PlanOrdered
  <2> QED
    BY <1>2, <2>1, <2>2
<1>5. ASSUME NEW t \in Planned, SagaState(status[t]) = "settled", s \in Upstream[t]
      PROVE  t \in Undone
  <2>1. PICK p \in 1..Len(plan) : plan[p] = t
    BY DEF Planned
  <2>2. p > cursor
    BY <1>2, <1>5, <2>1 DEF Inv, PlanOrdered
  <2>3. t \in Step
    BY PlannedTypes DEF Inv
  <2>4. status[t] \in Settled
    BY <1>5, <2>3 DEF SagaState, Inv, Typed, TypeOK, Broken
  <2> QED
    BY <1>3, <2>1, <2>2, <2>4 DEF RollbackState
<1>6. Saga!Undone = Undone
  BY DEF Saga!Undone, Undone
<1>7. [r \in Step |-> SagaState(status'[r])] = [r \in Step |-> SagaState(status[r])]
  BY <1>1
<1>8. \A t \in Planned : t \in Step
  BY PlannedTypes DEF Inv
<1> QED
  BY <1>1, <1>2, <1>3, <1>4, <1>5, <1>6, <1>7, <1>8 DEF Saga!Undo

\* Every step of the engine is a step of the saga, or a stutter.
LEMMA StepRefines ==
  ASSUME Inv, RollbackState, [Next]_vars
  PROVE  [Saga!SagaNext]_(Saga!sagaVars)
<1> USE DEF goVars, ctxVars, endVars
<1>1. CASE SetUp \/ AbortSetUp \/ SkipPhase \/ EndPhase \/ EndLoop \/ PassOver
            \/ EndRollback \/ Cancel \/ UNCHANGED vars
  <2>1. SagaStutter
    BY <1>1 DEF SagaStutter, SetUp, AbortSetUp, SkipPhase, EndPhase, EndLoop,
                PassOver, EndRollback, Cancel, vars
  <2> QED
    BY <2>1, StutterRefines
<1>2. CASE StartPhase
  <2>1. ASSUME NEW m \in Members PROVE status[m] = "idle"
    BY <1>2, MemberTypes DEF StartPhase, Inv, PhaseShape
  <2>2. SagaStutter
    BY <1>2, <2>1, SagaStates DEF SagaStutter, StartPhase
  <2> QED
    BY <2>2, StutterRefines
<1>3. CASE Report
  BY <1>3, ConcludeRefines DEF Saga!SagaNext
<1>4. CASE RollBack
  <2>1. plan[cursor] \in Step
    BY <1>4, CursorTypes, PlannedTypes DEF Inv, RollBack
  <2> QED
    BY <1>4, <2>1, UndoRefines DEF Saga!SagaNext
<1>5. ASSUME NEW s \in Step, NeedMet(s) \/ Return(s)
      PROVE [Saga!SagaNext]_(Saga!sagaVars)
  <2>1. SagaStutter
    BY <1>5 DEF SagaStutter, NeedMet, Return
  <2> QED
    BY <2>1, StutterRefines
<1>6. ASSUME NEW s \in Step,
             NeedFailed(s) \/ Abandon(s) \/ UnknownType(s) \/ ResolveFails(s) \/ Fail(s)
      PROVE  [Saga!SagaNext]_(Saga!sagaVars)
  <2>1. /\ status[s] \in {"waiting", "running"}
        /\ UNCHANGED <<plan, outcome, undone>>
        /\ \/ status' = [status EXCEPT ![s] = "refused"]
           \/ status' = [status EXCEPT ![s] = "failed"]
    BY <1>6 DEF NeedFailed, Abandon, UnknownType, ResolveFails, Fail, Refuse
  <2>2. Saga!Break(s)
    BY <2>1, BreakRefines DEF Broken
  <2> QED
    BY <2>2 DEF Saga!SagaNext
<1>7. ASSUME NEW s \in Step, SkipByRunIf(s) PROVE [Saga!SagaNext]_(Saga!sagaVars)
  <2>1. /\ status[s] = "waiting" /\ AllNeedsMet(s)
        /\ UNCHANGED <<plan, outcome, undone>>
        /\ status' = [status EXCEPT ![s] = "skipped"]
    BY <1>7 DEF SkipByRunIf
  <2>2. \A d \in Upstream[s] \cap Planned : status[d] \in Settled
    BY <2>1, NeedsMetMeansSettled DEF Inv
  <2>3. Saga!Settle(s)
    BY <2>1, <2>2, SettleRefines DEF Settled
  <2> QED
    BY <2>3 DEF Saga!SagaNext
<1>8. ASSUME NEW s \in Step, Begin(s) PROVE [Saga!SagaNext]_(Saga!sagaVars)
  BY <1>8, ActivateRefines DEF Saga!SagaNext
<1>9. ASSUME NEW s \in Step, Succeed(s) PROVE [Saga!SagaNext]_(Saga!sagaVars)
  <2>1. /\ status[s] = "running"
        /\ UNCHANGED <<plan, outcome, undone>>
        /\ status' = [status EXCEPT ![s] = "done"]
    BY <1>9 DEF Succeed
  <2>2. s \in Planned
    BY <2>1, ActiveFacts
  <2>3. \A d \in Upstream[s] \cap Planned : status[d] \in Settled
    BY <2>1, <2>2 DEF Inv, StartsAfterUpstream, Executed
  <2>4. Saga!Settle(s)
    BY <2>1, <2>3, SettleRefines DEF Settled
  <2> QED
    BY <2>4 DEF Saga!SagaNext
<1>10. ASSUME NEW s \in Step, NEW t \in Target, MarkDead(s, t)
       PROVE  [Saga!SagaNext]_(Saga!sagaVars)
  <2>1. SagaStutter
    BY <1>10 DEF SagaStutter, MarkDead
  <2> QED
    BY <2>1, StutterRefines
<1> QED
  BY <1>1, <1>2, <1>3, <1>4, <1>5, <1>6, <1>7, <1>8, <1>9, <1>10
     DEF Next, RunLoop, Goroutine, Finished

LEMMA InitRefines == Init => Saga!SagaInit
<1> SUFFICES ASSUME Init PROVE Saga!SagaInit
  OBVIOUS
<1>1. Planned \subseteq Step
  BY InitType DEF Planned, Typed, TypeOK
<1>2. outcome = "none" /\ undone = <<>> /\ status = [s \in Step |-> "idle"]
  BY DEF Init
<1>3. [s \in Step |-> SagaState(status[s])] = [s \in Step |-> "pending"]
  BY <1>2, SagaStates
<1> QED
  BY <1>1, <1>2, <1>3 DEF Saga!SagaInit

\* With unique names every run of the engine is a saga: steps in the order of
\* the DAG, one conclusion, and a failed run taken back dependents first.
THEOREM Refinement == UniqueNames /\ Spec => ImplementsSaga
<1> SUFFICES ASSUME UniqueNames PROVE Spec => ImplementsSaga
  OBVIOUS
<1>1. Inv /\ RollbackState /\ [Next]_vars => [Saga!SagaNext]_(Saga!sagaVars)
  BY StepRefines
<1> QED
  BY <1>1, InitRefines, RollbackInvariance, PTL DEF Spec, ImplementsSaga,
       Saga!SagaSpec
=============================================================================
