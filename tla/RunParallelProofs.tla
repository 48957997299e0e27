-------------------------- MODULE RunParallelProofs -------------------------
(***************************************************************************)
(* Proofs about RunParallel, for any targets and any step options.         *)
(***************************************************************************)
EXTENDS RunParallel, FiniteSetTheorems, TLAPS

Holders == {t \in Target : task[t] \in Holding}
Counted == {t \in dead \cap healthy : task[t] # "marked"}

\* How often fn was called, by how far the goroutine got.
Attempts ==
  \A t \in Target :
    /\ task[t] = "queued" => attempt[t] = 0
    /\ task[t] \in {"calling", "delayed"} => attempt[t] <= setting.retries
    /\ task[t] \in {"exhausted", "marked", "counted", "exceeded"}
         => attempt[t] = setting.retries + 1

\* Where each target went.
Fates ==
  \A t \in Target :
    /\ t \notin healthy <=> task[t] = "absent"
    /\ t \notin healthy => t \in dead /\ t \notin handled
    /\ task[t] \in {"queued", "calling", "delayed", "exhausted", "cutoff", "aborted"}
         => t \notin dead /\ t \notin handled
    /\ task[t] = "ok" => t \in handled /\ t \notin dead
    /\ task[t] \in {"marked", "counted", "exceeded"} => t \in dead /\ t \notin handled
    /\ task[t] = "passed" => (t \in dead <=> t \notin handled)
    /\ task[t] = "returned" =>
         /\ t \in dead => t \notin handled
         /\ egErr = "none" => t \in dead \/ t \in handled

\* The failure counter, the values read from it and what was made of them.
Counter ==
  /\ failed = Cardinality(Counted)
  /\ \A t \in Target : seen[t] <= failed
  /\ failed > 0 => \E t \in Counted : seen[t] = failed
  /\ \A t \in Counted : task[t] = "passed" \/ (task[t] = "returned" /\ egErr = "none")
       => seen[t] <= Allowed
  /\ \A t \in Target : task[t] = "exceeded" => failed > Allowed
  /\ egErr = "exceeded" => failed > Allowed

Answered ==
  /\ answer # "none" => \A t \in healthy : task[t] = "returned"
  /\ answer = "nil" => egErr = "none"
  /\ answer = "exceeded" => egErr = "exceeded"

-----------------------------------------------------------------------------
LEMMA SettingTypes ==
  ASSUME TypeOK
  PROVE  /\ setting.rolling \in BOOLEAN /\ setting.batch \in Nat
         /\ setting.retries \in Nat /\ setting.number \in Nat
  BY ParallelAssumption DEF TypeOK, ParallelAssumption, SettingType

LEMMA BatchType == ASSUME TypeOK PROVE BatchSize(setting) \in Nat
  BY SettingTypes DEF BatchSize

LEMMA FiniteParts ==
  ASSUME TypeOK
  PROVE  /\ IsFiniteSet(Target) /\ IsFiniteSet(Holders) /\ IsFiniteSet(Counted)
         /\ IsFiniteSet(healthy) /\ IsFiniteSet(dead \cap healthy)
<1>1. IsFiniteSet(Target)
  BY ParallelAssumption DEF ParallelAssumption
<1>2. /\ Holders \in SUBSET Target /\ Counted \in SUBSET Target
      /\ healthy \in SUBSET Target /\ dead \cap healthy \in SUBSET Target
  BY DEF Holders, Counted, TypeOK
<1> QED
  BY <1>1, <1>2, FS_Subset

LEMMA AllowedType == ASSUME TypeOK PROVE Allowed \in Nat
<1>1. Cardinality(healthy) \in Nat
  BY FiniteParts, FS_CardinalityType
<1>2. Tolerance(setting) \in Nat
  <2>1. setting.unit \in {"unset", "percent", "count"}
    BY ParallelAssumption DEF TypeOK, ParallelAssumption, SettingType
  <2> QED
    BY <2>1, SettingTypes DEF Tolerance
<1>3. \A a, b \in Nat : a * b \in Nat /\ a \div 100 \in Nat
  OBVIOUS
<1>4. Cardinality(healthy) * Tolerance(setting) \in Nat
  BY <1>1, <1>2, <1>3
<1> QED
  BY <1>2, <1>3, <1>4 DEF Allowed, AllowedOf

LEMMA InitType == Init => TypeOK
<1> SUFFICES ASSUME Init PROVE TypeOK
  OBVIOUS
<1>1. task \in [Target -> {"absent", "queued"} \cup Holding \cup Final]
  BY DEF Init
<1>2. attempt \in [Target -> Nat] /\ seen \in [Target -> Nat] /\ slots \in Nat
  BY DEF Init
<1>3. setting \in Settings /\ healthy \subseteq Target /\ dead \subseteq Target
  BY DEF Init
<1>4. egDone \in BOOLEAN
  BY DEF Init
<1> QED
  BY <1>1, <1>2, <1>3, <1>4 DEF Init, TypeOK

\* A goroutine that holds a slot is counted in slots.
LEMMA SlotTaken ==
  ASSUME TypeOK, SlotsAccounted, Limited, NEW t \in Target, task[t] \in Holding
  PROVE  slots \in Nat /\ slots >= 1
<1>1. slots = Cardinality(Holders)
  BY DEF SlotsAccounted, Holders
<1>2. t \in Holders
  BY DEF Holders
<1>3. Cardinality(Holders) # 0 /\ Cardinality(Holders) \in Nat
  BY <1>2, FiniteParts, FS_EmptySet, FS_CardinalityType
<1> QED
  BY <1>1, <1>3

\* Every step keeps the variables in their types.
LEMMA NextType == TypeOK /\ SlotsAccounted /\ [Next]_vars => TypeOK'
<1> SUFFICES ASSUME TypeOK /\ SlotsAccounted, [Next]_vars
             PROVE  TypeOK'
  OBVIOUS
<1> USE DEF TypeOK, endVars, Holding, Final
<1>1. ASSUME NEW t \in Target, Acquire(t) PROVE TypeOK'
  BY <1>1 DEF Acquire, Go
<1>2. ASSUME NEW t \in Target, LeaveQueue(t) PROVE TypeOK'
  BY <1>2 DEF LeaveQueue, Go
<1>3. ASSUME NEW t \in Target, FnSucceeds(t) PROVE TypeOK'
  BY <1>3 DEF FnSucceeds, Go
<1>4. ASSUME NEW t \in Target, FnFails(t) PROVE TypeOK'
  BY <1>4 DEF FnFails, Go
<1>5. ASSUME NEW t \in Target, Retry(t) PROVE TypeOK'
  BY <1>5 DEF Retry, Go
<1>6. ASSUME NEW t \in Target, LeaveDelay(t) PROVE TypeOK'
  BY <1>6 DEF LeaveDelay, Go
<1>7. ASSUME NEW t \in Target, MarkDead(t) PROVE TypeOK'
  BY <1>7 DEF MarkDead, Go
<1>8. ASSUME NEW t \in Target, CountFailure(t) PROVE TypeOK'
  BY <1>8 DEF CountFailure, Go
<1>9. ASSUME NEW t \in Target, Release(t) PROVE TypeOK'
  <2>1. /\ task[t] \in {"counted", "cutoff", "ok"} /\ task' = [task EXCEPT ![t] = Verdict(t)]
        /\ slots' = IF Limited THEN slots - 1 ELSE slots
        /\ UNCHANGED <<setting, healthy, attempt, seen, failed, dead, handled, endVars>>
    BY <1>9 DEF Release, Go
  <2>2. Verdict(t) \in Final
    BY <2>1 DEF Verdict
  <2>3. slots' \in Nat
    BY <2>1, SlotTaken
  <2> QED
    BY <2>1, <2>2, <2>3
<1>10. ASSUME NEW t \in Target, Return(t) PROVE TypeOK'
  BY <1>10 DEF Return, Go
<1>11. CASE Cancel
  BY <1>11 DEF Cancel
<1>12. CASE Wait
  BY <1>12 DEF Wait
<1>13. CASE UNCHANGED vars
  BY <1>13 DEF vars
<1> QED
  BY <1>1, <1>2, <1>3, <1>4, <1>5, <1>6, <1>7, <1>8, <1>9, <1>10,
     <1>11, <1>12, <1>13 DEF Next, Goroutine, Finished

\* Only the set of holders, the options and the counter of slots matter.
LEMMA SameHolders ==
  ASSUME TypeOK, SlotsAccounted, setting' = setting, slots' = slots,
         \A t \in Target : task'[t] \in Holding <=> task[t] \in Holding
  PROVE  SlotsAccounted'
<1>1. Holders' = Holders
  BY DEF Holders
<1>2. Limited' <=> Limited
  BY DEF Limited, BatchSize
<1> QED
  BY <1>1, <1>2 DEF SlotsAccounted, Holders

\* A slot is taken and given back together with its holder.
LEMMA NextSlots == TypeOK /\ SlotsAccounted /\ [Next]_vars => SlotsAccounted'
<1> SUFFICES ASSUME TypeOK /\ SlotsAccounted, [Next]_vars
             PROVE  SlotsAccounted'
  OBVIOUS
<1> USE DEF TypeOK, SlotsAccounted, Holding, Final
<1>1. ASSUME NEW t \in Target, Acquire(t) PROVE SlotsAccounted'
  <2>1. /\ task[t] = "queued" /\ task' = [task EXCEPT ![t] = "calling"]
        /\ setting' = setting /\ DOMAIN task = Target
    BY <1>1 DEF Acquire, Go
  <2>2. Holders' = Holders \cup {t} /\ t \notin Holders
    BY <2>1 DEF Holders
  <2>3. Cardinality(Holders') = Cardinality(Holders) + 1
    BY <2>2, FiniteParts, FS_AddElement
  <2>4. Limited' <=> Limited
    BY <2>1 DEF Limited, BatchSize
  <2>5. slots' = IF Limited THEN slots + 1 ELSE slots
    BY <1>1 DEF Acquire
  <2> QED
    BY <2>3, <2>4, <2>5 DEF Holders
<1>2. ASSUME NEW t \in Target, LeaveQueue(t) PROVE SlotsAccounted'
  BY <1>2, SameHolders DEF LeaveQueue, Go
<1>3. ASSUME NEW t \in Target, FnSucceeds(t) PROVE SlotsAccounted'
  BY <1>3, SameHolders DEF FnSucceeds, Go
<1>4. ASSUME NEW t \in Target, FnFails(t) PROVE SlotsAccounted'
  BY <1>4, SameHolders DEF FnFails, Go
<1>5. ASSUME NEW t \in Target, Retry(t) PROVE SlotsAccounted'
  BY <1>5, SameHolders DEF Retry, Go
<1>6. ASSUME NEW t \in Target, LeaveDelay(t) PROVE SlotsAccounted'
  BY <1>6, SameHolders DEF LeaveDelay, Go
<1>7. ASSUME NEW t \in Target, MarkDead(t) PROVE SlotsAccounted'
  BY <1>7, SameHolders DEF MarkDead, Go
<1>8. ASSUME NEW t \in Target, CountFailure(t) PROVE SlotsAccounted'
  BY <1>8, SameHolders DEF CountFailure, Go
<1>9. ASSUME NEW t \in Target, Release(t) PROVE SlotsAccounted'
  <2>1. /\ task[t] \in {"counted", "cutoff", "ok"} /\ task' = [task EXCEPT ![t] = Verdict(t)]
        /\ setting' = setting /\ DOMAIN task = Target
        /\ slots' = IF Limited THEN slots - 1 ELSE slots
    BY <1>9 DEF Release, Go
  <2>2. Verdict(t) \in Final
    BY <2>1 DEF Verdict
  <2>3. Holders' = Holders \ {t} /\ t \in Holders
    BY <2>1, <2>2 DEF Holders
  <2>4. Cardinality(Holders') = Cardinality(Holders) - 1
    BY <2>3, FiniteParts, FS_RemoveElement
  <2>5. Limited' <=> Limited
    BY <2>1 DEF Limited, BatchSize
  <2> QED
    BY <2>1, <2>4, <2>5 DEF Holders
<1>10. ASSUME NEW t \in Target, Return(t) PROVE SlotsAccounted'
  BY <1>10, SameHolders DEF Return, Go
<1>11. CASE Cancel
  BY <1>11, SameHolders DEF Cancel
<1>12. CASE Wait
  BY <1>12, SameHolders DEF Wait
<1>13. CASE UNCHANGED vars
  BY <1>13, SameHolders DEF vars
<1> QED
  BY <1>1, <1>2, <1>3, <1>4, <1>5, <1>6, <1>7, <1>8, <1>9, <1>10,
     <1>11, <1>12, <1>13 DEF Next, Goroutine, Finished

SlotsBounded == Limited => slots <= BatchSize(setting)


\* No slot is taken beyond the batch size.
LEMMA NextBound == TypeOK /\ SlotsBounded /\ [Next]_vars => SlotsBounded'
<1> SUFFICES ASSUME TypeOK /\ SlotsBounded, [Next]_vars
             PROVE  SlotsBounded'
  OBVIOUS
<1> USE BatchType DEF TypeOK, SlotsBounded, Limited, BatchSize, endVars
<1>1. ASSUME NEW t \in Target, Acquire(t) PROVE SlotsBounded'
  BY <1>1 DEF Acquire, Go
<1>2. ASSUME NEW t \in Target, LeaveQueue(t) PROVE SlotsBounded'
  BY <1>2 DEF LeaveQueue, Go
<1>3. ASSUME NEW t \in Target, FnSucceeds(t) PROVE SlotsBounded'
  BY <1>3 DEF FnSucceeds, Go
<1>4. ASSUME NEW t \in Target, FnFails(t) PROVE SlotsBounded'
  BY <1>4 DEF FnFails, Go
<1>5. ASSUME NEW t \in Target, Retry(t) PROVE SlotsBounded'
  BY <1>5 DEF Retry, Go
<1>6. ASSUME NEW t \in Target, LeaveDelay(t) PROVE SlotsBounded'
  BY <1>6 DEF LeaveDelay, Go
<1>7. ASSUME NEW t \in Target, MarkDead(t) PROVE SlotsBounded'
  BY <1>7 DEF MarkDead, Go
<1>8. ASSUME NEW t \in Target, CountFailure(t) PROVE SlotsBounded'
  BY <1>8 DEF CountFailure, Go
<1>9. ASSUME NEW t \in Target, Release(t) PROVE SlotsBounded'
  BY <1>9 DEF Release, Go
<1>10. ASSUME NEW t \in Target, Return(t) PROVE SlotsBounded'
  BY <1>10 DEF Return, Go
<1>11. CASE Cancel
  BY <1>11 DEF Cancel
<1>12. CASE Wait
  BY <1>12 DEF Wait
<1>13. CASE UNCHANGED vars
  BY <1>13 DEF vars
<1> QED
  BY <1>1, <1>2, <1>3, <1>4, <1>5, <1>6, <1>7, <1>8, <1>9, <1>10,
     <1>11, <1>12, <1>13 DEF Next, Goroutine, Finished

LEMMA BatchFollows ==
  ASSUME TypeOK, SlotsAccounted, SlotsBounded
  PROVE  BatchRespected
<1>1. Limited => Cardinality(Holders) <= BatchSize(setting)
  BY DEF SlotsAccounted, SlotsBounded, Holders
<1>2. ASSUME setting.rolling, NEW u \in Holders, NEW v \in Holders
      PROVE  u = v
  <2>1. Cardinality(Holders) <= 1
    BY <1>1, <1>2 DEF Limited, BatchSize
  <2>2. Cardinality({v}) = 1 /\ IsFiniteSet({v})
    BY FS_Singleton
  <2>3. u \notin {v} => Cardinality({v} \cup {u}) = 2
    BY <2>2, FS_AddElement
  <2>4. {v} \cup {u} \subseteq Holders
    BY <1>2
  <2>5. Cardinality({v} \cup {u}) <= Cardinality(Holders)
    BY <2>4, FiniteParts, FS_Subset
  <2>6. Cardinality(Holders) \in Nat
    BY FiniteParts, FS_CardinalityType
  <2>7. u \notin {v} => FALSE
    BY <2>1, <2>3, <2>5, <2>6
  <2> QED
    BY <2>7
<1> QED
  BY <1>1, <1>2 DEF BatchRespected, Holders

\* Every step keeps each target's place: handled, given up, or on its way.
LEMMA NextFates == TypeOK /\ Fates /\ [Next]_vars => Fates'
<1> SUFFICES ASSUME TypeOK /\ Fates, [Next]_vars
             PROVE  Fates'
  OBVIOUS
<1> USE DEF TypeOK, Fates, Holding, Final, endVars
<1>1. ASSUME NEW t \in Target, Acquire(t) PROVE Fates'
  BY <1>1 DEF Acquire, Go
<1>2. ASSUME NEW t \in Target, LeaveQueue(t) PROVE Fates'
  BY <1>2 DEF LeaveQueue, Go
<1>3. ASSUME NEW t \in Target, FnSucceeds(t) PROVE Fates'
  BY <1>3 DEF FnSucceeds, Go
<1>4. ASSUME NEW t \in Target, FnFails(t) PROVE Fates'
  BY <1>4 DEF FnFails, Go
<1>5. ASSUME NEW t \in Target, Retry(t) PROVE Fates'
  BY <1>5 DEF Retry, Go
<1>6. ASSUME NEW t \in Target, LeaveDelay(t) PROVE Fates'
  BY <1>6 DEF LeaveDelay, Go
<1>7. ASSUME NEW t \in Target, MarkDead(t) PROVE Fates'
  BY <1>7 DEF MarkDead, Go
<1>8. ASSUME NEW t \in Target, CountFailure(t) PROVE Fates'
  BY <1>8 DEF CountFailure, Go
<1>9. ASSUME NEW t \in Target, Release(t) PROVE Fates'
  BY <1>9 DEF Release, Go, Verdict
<1>10. ASSUME NEW t \in Target, Return(t) PROVE Fates'
  BY <1>10 DEF Return, Go
<1>11. CASE Cancel
  BY <1>11 DEF Cancel
<1>12. CASE Wait
  BY <1>12 DEF Wait
<1>13. CASE UNCHANGED vars
  BY <1>13 DEF vars
<1> QED
  BY <1>1, <1>2, <1>3, <1>4, <1>5, <1>6, <1>7, <1>8, <1>9, <1>10,
     <1>11, <1>12, <1>13 DEF Next, Goroutine, Finished

\* Calls of fn are counted up to the last retry.
LEMMA NextAttempts == TypeOK /\ Attempts /\ [Next]_vars => Attempts'
<1> SUFFICES ASSUME TypeOK /\ Attempts, [Next]_vars
             PROVE  Attempts'
  OBVIOUS
<1> USE SettingTypes DEF TypeOK, Attempts, Holding, Final, endVars
<1>1. ASSUME NEW t \in Target, Acquire(t) PROVE Attempts'
  BY <1>1 DEF Acquire, Go
<1>2. ASSUME NEW t \in Target, LeaveQueue(t) PROVE Attempts'
  BY <1>2 DEF LeaveQueue, Go
<1>3. ASSUME NEW t \in Target, FnSucceeds(t) PROVE Attempts'
  BY <1>3 DEF FnSucceeds, Go
<1>4. ASSUME NEW t \in Target, FnFails(t) PROVE Attempts'
  BY <1>4 DEF FnFails, Go
<1>5. ASSUME NEW t \in Target, Retry(t) PROVE Attempts'
  BY <1>5 DEF Retry, Go
<1>6. ASSUME NEW t \in Target, LeaveDelay(t) PROVE Attempts'
  BY <1>6 DEF LeaveDelay, Go
<1>7. ASSUME NEW t \in Target, MarkDead(t) PROVE Attempts'
  BY <1>7 DEF MarkDead, Go
<1>8. ASSUME NEW t \in Target, CountFailure(t) PROVE Attempts'
  BY <1>8 DEF CountFailure, Go
<1>9. ASSUME NEW t \in Target, Release(t) PROVE Attempts'
  BY <1>9 DEF Release, Go, Verdict
<1>10. ASSUME NEW t \in Target, Return(t) PROVE Attempts'
  BY <1>10 DEF Return, Go
<1>11. CASE Cancel
  BY <1>11 DEF Cancel
<1>12. CASE Wait
  BY <1>12 DEF Wait
<1>13. CASE UNCHANGED vars
  BY <1>13 DEF vars
<1> QED
  BY <1>1, <1>2, <1>3, <1>4, <1>5, <1>6, <1>7, <1>8, <1>9, <1>10,
     <1>11, <1>12, <1>13 DEF Next, Goroutine, Finished

\* A target on the blacklist is never called again.
LEMMA NextDead ==
  (TypeOK /\ Fates /\ Attempts /\ DeadOnlyAfterRetries) /\ [Next]_vars
    => DeadOnlyAfterRetries'
<1> SUFFICES ASSUME (TypeOK /\ Fates /\ Attempts /\ DeadOnlyAfterRetries), [Next]_vars
             PROVE  DeadOnlyAfterRetries'
  OBVIOUS
<1> USE DEF TypeOK, Fates, Attempts, DeadOnlyAfterRetries, Holding, Final, endVars
<1>1. ASSUME NEW t \in Target, Acquire(t) PROVE DeadOnlyAfterRetries'
  BY <1>1 DEF Acquire, Go
<1>2. ASSUME NEW t \in Target, LeaveQueue(t) PROVE DeadOnlyAfterRetries'
  BY <1>2 DEF LeaveQueue, Go
<1>3. ASSUME NEW t \in Target, FnSucceeds(t) PROVE DeadOnlyAfterRetries'
  BY <1>3 DEF FnSucceeds, Go
<1>4. ASSUME NEW t \in Target, FnFails(t) PROVE DeadOnlyAfterRetries'
  BY <1>4 DEF FnFails, Go
<1>5. ASSUME NEW t \in Target, Retry(t) PROVE DeadOnlyAfterRetries'
  BY <1>5 DEF Retry, Go
<1>6. ASSUME NEW t \in Target, LeaveDelay(t) PROVE DeadOnlyAfterRetries'
  BY <1>6 DEF LeaveDelay, Go
<1>7. ASSUME NEW t \in Target, MarkDead(t) PROVE DeadOnlyAfterRetries'
  BY <1>7 DEF MarkDead, Go
<1>8. ASSUME NEW t \in Target, CountFailure(t) PROVE DeadOnlyAfterRetries'
  BY <1>8 DEF CountFailure, Go
<1>9. ASSUME NEW t \in Target, Release(t) PROVE DeadOnlyAfterRetries'
  BY <1>9 DEF Release, Go
<1>10. ASSUME NEW t \in Target, Return(t) PROVE DeadOnlyAfterRetries'
  BY <1>10 DEF Return, Go
<1>11. CASE Cancel
  BY <1>11 DEF Cancel
<1>12. CASE Wait
  BY <1>12 DEF Wait
<1>13. CASE UNCHANGED vars
  BY <1>13 DEF vars
<1> QED
  BY <1>1, <1>2, <1>3, <1>4, <1>5, <1>6, <1>7, <1>8, <1>9, <1>10,
     <1>11, <1>12, <1>13 DEF Next, Goroutine, Finished

\* RunParallel answers after its last goroutine.
LEMMA NextAnswered == (TypeOK /\ Answered) /\ [Next]_vars => Answered'
<1> SUFFICES ASSUME (TypeOK /\ Answered), [Next]_vars
             PROVE  Answered'
  OBVIOUS
<1> USE DEF TypeOK, Answered, Holding, Final, endVars
<1>1. ASSUME NEW t \in Target, Acquire(t) PROVE Answered'
  BY <1>1 DEF Acquire, Go
<1>2. ASSUME NEW t \in Target, LeaveQueue(t) PROVE Answered'
  BY <1>2 DEF LeaveQueue, Go
<1>3. ASSUME NEW t \in Target, FnSucceeds(t) PROVE Answered'
  BY <1>3 DEF FnSucceeds, Go
<1>4. ASSUME NEW t \in Target, FnFails(t) PROVE Answered'
  BY <1>4 DEF FnFails, Go
<1>5. ASSUME NEW t \in Target, Retry(t) PROVE Answered'
  BY <1>5 DEF Retry, Go
<1>6. ASSUME NEW t \in Target, LeaveDelay(t) PROVE Answered'
  BY <1>6 DEF LeaveDelay, Go
<1>7. ASSUME NEW t \in Target, MarkDead(t) PROVE Answered'
  BY <1>7 DEF MarkDead, Go
<1>8. ASSUME NEW t \in Target, CountFailure(t) PROVE Answered'
  BY <1>8 DEF CountFailure, Go
<1>9. ASSUME NEW t \in Target, Release(t) PROVE Answered'
  BY <1>9 DEF Release, Go
<1>10. ASSUME NEW t \in Target, Return(t) PROVE Answered'
  BY <1>10 DEF Return, Go
<1>11. CASE Cancel
  BY <1>11 DEF Cancel
<1>12. CASE Wait
  BY <1>12 DEF Wait
<1>13. CASE UNCHANGED vars
  BY <1>13 DEF vars
<1> QED
  BY <1>1, <1>2, <1>3, <1>4, <1>5, <1>6, <1>7, <1>8, <1>9, <1>10,
     <1>11, <1>12, <1>13 DEF Next, Goroutine, Finished

LEMMA AllowedStays ==
  ASSUME setting' = setting, healthy' = healthy
  PROVE  Allowed' = Allowed
  BY DEF Allowed

\* A step that neither fails a target nor passes a verdict keeps the counter.
LEMMA SameCount ==
  ASSUME TypeOK, Counter, setting' = setting, healthy' = healthy, dead' = dead,
         failed' = failed, seen' = seen, egErr' = egErr,
         \A t \in Target : /\ task'[t] = "marked" <=> task[t] = "marked"
                           /\ task'[t] = "passed" <=> task[t] = "passed"
                           /\ task'[t] = "returned" <=> task[t] = "returned"
                           /\ task'[t] = "exceeded" <=> task[t] = "exceeded"
  PROVE  Counter'
<1>1. Counted' = Counted /\ Counted \subseteq Target
  BY DEF Counted, TypeOK
<1>2. Allowed' = Allowed
  BY AllowedStays
<1> QED
  BY <1>1, <1>2 DEF Counter

\* The counter is the number of targets counted, and its verdicts are sound.
LEMMA NextCounter == (TypeOK /\ Fates /\ Counter) /\ [Next]_vars => Counter'
<1> SUFFICES ASSUME (TypeOK /\ Fates /\ Counter), [Next]_vars
             PROVE  Counter'
  OBVIOUS
<1> USE DEF TypeOK, Holding, Final, endVars
<1>1. ASSUME NEW t \in Target, Acquire(t) PROVE Counter'
  BY <1>1, SameCount DEF Acquire, Go
<1>2. ASSUME NEW t \in Target, LeaveQueue(t) PROVE Counter'
  BY <1>2, SameCount DEF LeaveQueue, Go
<1>3. ASSUME NEW t \in Target, FnSucceeds(t) PROVE Counter'
  BY <1>3, SameCount DEF FnSucceeds, Go
<1>4. ASSUME NEW t \in Target, FnFails(t) PROVE Counter'
  BY <1>4, SameCount DEF FnFails, Go
<1>5. ASSUME NEW t \in Target, Retry(t) PROVE Counter'
  BY <1>5, SameCount DEF Retry, Go
<1>6. ASSUME NEW t \in Target, LeaveDelay(t) PROVE Counter'
  BY <1>6, SameCount DEF LeaveDelay, Go
<1>7. ASSUME NEW t \in Target, MarkDead(t) PROVE Counter'
  <2>1. /\ task[t] = "exhausted" /\ task' = [task EXCEPT ![t] = "marked"]
        /\ dead' = dead \cup {t} /\ t \notin dead /\ DOMAIN task = Target
        /\ UNCHANGED <<setting, healthy, seen, failed, egErr>>
    BY <1>7 DEF MarkDead, Go, Fates, TypeOK, endVars
  <2>2. Counted' = Counted /\ Counted \subseteq Target
    BY <2>1 DEF Counted, TypeOK
  <2>3. Allowed' = Allowed
    BY <2>1, AllowedStays
  <2> QED
    BY <2>1, <2>2, <2>3 DEF Counter
<1>8. ASSUME NEW t \in Target, CountFailure(t) PROVE Counter'
  <2>1. /\ task[t] = "marked" /\ task' = [task EXCEPT ![t] = "counted"]
        /\ failed' = failed + 1 /\ seen' = [seen EXCEPT ![t] = failed + 1]
        /\ t \in dead \cap healthy /\ failed \in Nat /\ seen \in [Target -> Nat]
        /\ task \in [Target -> {"absent", "queued"} \cup Holding \cup Final]
        /\ UNCHANGED <<setting, healthy, dead, egErr>>
    BY <1>8 DEF CountFailure, Go, Fates, TypeOK, endVars
  <2>2. Counted' = Counted \cup {t} /\ t \notin Counted /\ Counted \subseteq Target
    BY <2>1 DEF Counted, TypeOK
  <2>3. Cardinality(Counted') = Cardinality(Counted) + 1
    BY <2>2, FiniteParts, FS_AddElement
  <2>4. Allowed' = Allowed /\ Allowed \in Nat
    BY <2>1, AllowedStays, AllowedType
  <2>5. failed' = Cardinality(Counted')
    BY <2>1, <2>3 DEF Counter
  <2>6. (\A u \in Target : seen[u] <= failed)' /\ (\E u \in Counted : seen[u] = failed)'
    BY <2>1, <2>2 DEF Counter
  <2>7. \A u \in Counted' : u # t => /\ u \in Counted /\ task'[u] = task[u]
                                     /\ seen'[u] = seen[u]
    BY <2>1, <2>2
  <2>8. \A u \in Counted' : task'[u] = "passed" \/ (task'[u] = "returned" /\ egErr = "none")
          => seen'[u] <= Allowed
    BY <2>1, <2>7 DEF Counter
  <2>9. (\E u \in Target : task'[u] = "exceeded") \/ egErr = "exceeded" => failed > Allowed
    BY <2>1 DEF Counter
  <2> QED
    BY <2>1, <2>4, <2>5, <2>6, <2>8, <2>9 DEF Counter
<1>9. ASSUME NEW t \in Target, Release(t) PROVE Counter'
  <2>1. /\ task[t] \in {"counted", "cutoff", "ok"} /\ task' = [task EXCEPT ![t] = Verdict(t)]
        /\ task \in [Target -> {"absent", "queued"} \cup Holding \cup Final]
        /\ seen \in [Target -> Nat] /\ failed \in Nat
        /\ UNCHANGED <<setting, healthy, seen, failed, dead, egErr>>
    BY <1>9 DEF Release, Go, TypeOK, endVars
  <2>2. Verdict(t) \in Final \ {"returned"}
    BY <2>1 DEF Verdict
  <2>3. Counted' = Counted /\ Counted \subseteq Target
    BY <2>1, <2>2 DEF Counted, TypeOK
  <2>4. Allowed' = Allowed /\ Allowed \in Nat
    BY <2>1, AllowedStays, AllowedType
  <2>5. Verdict(t) = "exceeded" => seen[t] > Allowed
    BY <2>1 DEF Verdict
  <2>6. Verdict(t) = "exceeded" => failed > Allowed
    BY <2>1, <2>4, <2>5 DEF Counter
  <2>7. Verdict(t) = "passed" /\ t \in Counted => seen[t] <= Allowed
    BY <2>1, <2>4 DEF Verdict, Counted, Fates
  <2>8. \A u \in Counted : task'[u] = "passed" \/ (task'[u] = "returned" /\ egErr = "none")
          => seen[u] <= Allowed
    BY <2>1, <2>2, <2>3, <2>7 DEF Counter
  <2>9. \A u \in Target : task'[u] = "exceeded" => failed > Allowed
    BY <2>1, <2>6 DEF Counter
  <2> QED
    BY <2>1, <2>3, <2>4, <2>8, <2>9 DEF Counter
<1>10. ASSUME NEW t \in Target, Return(t) PROVE Counter'
  <2>1. /\ task[t] \in {"exceeded", "aborted", "passed"}
        /\ task' = [task EXCEPT ![t] = "returned"]
        /\ task \in [Target -> {"absent", "queued"} \cup Holding \cup Final]
        /\ egErr' = IF egErr = "none" /\ task[t] # "passed" THEN task[t] ELSE egErr
        /\ UNCHANGED <<setting, healthy, seen, failed, dead>>
    BY <1>10 DEF Return, Go, TypeOK
  <2>2. Counted' = Counted /\ Counted \subseteq Target
    BY <2>1 DEF Counted, TypeOK
  <2>3. Allowed' = Allowed
    BY <2>1, AllowedStays
  <2>4. \A u \in Counted : task'[u] = "passed" \/ (task'[u] = "returned" /\ egErr' = "none")
          => seen[u] <= Allowed
    BY <2>1, <2>2 DEF Counter
  <2>5. \A u \in Target : task'[u] = "exceeded" => failed > Allowed
    BY <2>1 DEF Counter
  <2>6. egErr' = "exceeded" => failed > Allowed
    BY <2>1 DEF Counter
  <2> QED
    BY <2>1, <2>2, <2>3, <2>4, <2>5, <2>6 DEF Counter
<1>11. CASE Cancel
  BY <1>11, SameCount DEF Cancel
<1>12. CASE Wait
  BY <1>12, SameCount DEF Wait
<1>13. CASE UNCHANGED vars
  BY <1>13, SameCount DEF vars
<1> QED
  BY <1>1, <1>2, <1>3, <1>4, <1>5, <1>6, <1>7, <1>8, <1>9, <1>10,
     <1>11, <1>12, <1>13 DEF Next, Goroutine, Finished

-----------------------------------------------------------------------------
(* The inductive invariant.                                                *)

Inv ==
  /\ TypeOK
  /\ SlotsAccounted
  /\ SlotsBounded
  /\ Attempts
  /\ Fates
  /\ DeadOnlyAfterRetries
  /\ Counter
  /\ Answered

LEMMA InitInv == Init => Inv
<1> SUFFICES ASSUME Init PROVE Inv
  OBVIOUS
<1>1. TypeOK
  BY InitType
<1>2. Holders = {} /\ Counted = {} /\ dead \cap healthy = {}
  BY DEF Init, Holders, Counted, Holding
<1>3. Cardinality(Holders) = 0 /\ Cardinality(Counted) = 0
  BY <1>2, FS_EmptySet
<1>4. SlotsAccounted
  BY <1>3 DEF Init, SlotsAccounted, Holders
<1>5. SlotsBounded
  BY <1>1, BatchType DEF Init, SlotsBounded, Limited
<1>6. Attempts
  BY <1>1, SettingTypes DEF Init, Attempts
<1>7. Fates
  BY DEF Init, Fates
<1>8. DeadOnlyAfterRetries
  BY <1>2 DEF DeadOnlyAfterRetries
<1>9. Counter
  BY <1>2, <1>3 DEF Init, Counter
<1>10. Answered
  BY DEF Init, Answered
<1> QED
  BY <1>1, <1>4, <1>5, <1>6, <1>7, <1>8, <1>9, <1>10 DEF Inv

LEMMA NextInv == Inv /\ [Next]_vars => Inv'
  BY NextType, NextSlots, NextBound, NextAttempts, NextFates, NextDead, NextCounter,
     NextAnswered DEF Inv

LEMMA Invariance == Spec => []Inv
  BY InitInv, NextInv, PTL DEF Spec

LEMMA CoveredFollows == Inv => NilMeansCovered
<1> SUFFICES ASSUME Inv, answer = "nil" PROVE handled = healthy \ dead
  BY DEF NilMeansCovered
<1>1. /\ TypeOK /\ Fates /\ egErr = "none"
      /\ \A t \in healthy : task[t] = "returned"
  BY DEF Inv, Answered
<1> QED
  BY <1>1 DEF TypeOK, Fates

LEMMA ToleranceFollows == Inv => ToleranceRespected
<1> SUFFICES ASSUME Inv PROVE ToleranceRespected
  OBVIOUS
<1>1. TypeOK /\ Counter /\ Answered /\ Allowed \in Nat
  BY AllowedType DEF Inv
<1>2. ASSUME answer # "none" PROVE failed = Cardinality(dead \cap healthy)
  <2>1. Counted = dead \cap healthy
    BY <1>1, <1>2 DEF Answered, Counted
  <2> QED
    BY <1>1, <2>1 DEF Counter
<1>3. ASSUME answer = "nil" PROVE failed <= Allowed
  <2>1. /\ egErr = "none" /\ failed \in Nat
        /\ \A t \in Counted : task[t] = "returned"
    BY <1>1, <1>3 DEF Answered, Counted, TypeOK
  <2> QED
    BY <1>1, <2>1 DEF Counter
<1>4. answer = "exceeded" => failed > Allowed
  BY <1>1 DEF Answered, Counter
<1> QED
  BY <1>2, <1>3, <1>4 DEF ToleranceRespected

-----------------------------------------------------------------------------
\* The variables of a RunParallel call stay in their types.
THEOREM TypeCorrect == Spec => []TypeOK
<1>1. Inv => TypeOK
  BY DEF Inv
<1> QED
  BY <1>1, Invariance, PTL

\* The semaphore holds one token per goroutine between acquire and release: no
\* early return leaks a slot or frees one it never had.
THEOREM SlotsAreAccounted == Spec => []SlotsAccounted
<1>1. Inv => SlotsAccounted
  BY DEF Inv
<1> QED
  BY <1>1, Invariance, PTL

\* No more targets than the batch size are worked on at a time, and "rolling"
\* means one at a time.
THEOREM BatchIsRespected == Spec => []BatchRespected
<1>1. Inv => BatchRespected
  BY BatchFollows DEF Inv
<1> QED
  BY <1>1, Invariance, PTL

\* A target is put on the blacklist only after its last retry.
THEOREM DeadAfterRetries == Spec => []DeadOnlyAfterRetries
<1>1. Inv => DeadOnlyAfterRetries
  BY DEF Inv
<1> QED
  BY <1>1, Invariance, PTL

\* A nil answer means every healthy target was handled or is on the blacklist.
THEOREM NilCovers == Spec => []NilMeansCovered
  BY Invariance, CoveredFollows, PTL

\* nil is answered only within the tolerance, "exceeded" only beyond it, in
\* whatever order the failures are counted and returned.
THEOREM ToleranceIsRespected == Spec => []ToleranceRespected
  BY Invariance, ToleranceFollows, PTL
=============================================================================
