----------------------- MODULE ReleaseDirectoryProofs -----------------------
(***************************************************************************)
(* Proofs about ReleaseDirectory, for any versions, retries and keep.      *)
(***************************************************************************)
EXTENDS ReleaseDirectory, FiniteSetTheorems, WellFoundedInduction, TLAPS

\* From the end of tar to the switch, the directory of the version is complete.
Unpacked == at \in {"chown"} \cup SwitchCommands => dirs[version] = "full"

\* A pruner that has read the link does not remove its target.
Spared ==
  /\ doomed # {} => at = "remove"
  /\ at = "remove" /\ ~blind => link \notin doomed

\* The deployment runs as long as there is a next command, and once it is past
\* the switch its version is live.
Switched ==
  /\ outcome = "success" => at = "idle"
  /\ at \in {"check"} \cup PruneCommands \/ outcome = "success" => link \in {version, RealDir}

Inv == TypeOK /\ Unpacked /\ Spared /\ Switched

Commands == TransferCommands \cup SwitchCommands \cup PruneCommands \cup {"check"}

-----------------------------------------------------------------------------
\* A step starts again with one of its own commands, the first ones excepted.
LEMMA StepStarts ==
  ASSUME NEW c \in Commands
  PROVE  StepStart(c) =
           IF c \in TransferCommands THEN "put"
           ELSE IF c \in SwitchCommands THEN "testLink"
           ELSE IF c \in PruneCommands THEN "list" ELSE "check"
  BY DEF StepStart, Commands, TransferCommands, SwitchCommands, PruneCommands

\* What a returning command does to the control variables.
LEMMA AfterCommand ==
  ASSUME TypeOK, at \in Commands, NEW next \in Commands, Then(next) \/ RetryOrGiveUp
  PROVE  /\ at' \in {next, StepStart(at), "idle"}
         /\ attempt' \in 0..Retries
         /\ outcome' \in {outcome, "failed"}
  BY ReleaseAssumption
     DEF ReleaseAssumption, TypeOK, Then, RetryOrGiveUp, Commands, TransferCommands,
         SwitchCommands, PruneCommands

\* What a failed command does to them.
LEMMA AfterFailure ==
  ASSUME TypeOK, at \in Commands, RetryOrGiveUp
  PROVE  /\ at' \in {StepStart(at), "idle"}
         /\ attempt' \in 0..Retries
         /\ outcome' \in {outcome, "failed"}
  BY ReleaseAssumption
     DEF ReleaseAssumption, TypeOK, RetryOrGiveUp

\* A host before its first deployment satisfies the invariant.
LEMMA InitInv == Init => Inv
<1> SUFFICES ASSUME Init PROVE Inv
  OBVIOUS
<1> USE ReleaseAssumption DEF Init, ReleaseAssumption
<1>1. TypeOK
  <2>1. dirs \in [Version -> {"none", "partial", "full"}] /\ attempt \in 0..Retries
    OBVIOUS
  <2> QED
    BY <2>1, Zenon DEF TypeOK
<1>2. Unpacked /\ Spared /\ Switched
  BY DEF Unpacked, Spared, Switched, SwitchCommands, PruneCommands
<1> QED
  BY <1>1, <1>2 DEF Inv

\* Every step preserves the invariant.
LEMMA NextInv == Inv /\ [Next]_vars => Inv'
<1> SUFFICES ASSUME Inv, [Next]_vars PROVE Inv'
  OBVIOUS
<1> USE ReleaseAssumption, StepStarts
    DEF ReleaseAssumption, Inv, TypeOK, Unpacked, Spared, Switched, Commands,
        TransferCommands, SwitchCommands, PruneCommands, hostVars, pruneVars
<1>1. ASSUME NEW v \in Version, Apply(v) PROVE Inv'
  BY <1>1 DEF Apply
<1>2. CASE CommandFails
  <2>1. /\ at' \in {StepStart(at), "idle"} /\ attempt' \in 0..Retries
        /\ outcome' \in {outcome, "failed"}
    BY <1>2, AfterFailure DEF CommandFails
  <2> QED
    BY <1>2, <2>1 DEF CommandFails
<1>3. CASE Put
  <2>1. /\ at' \in {"mkdir", StepStart(at), "idle"} /\ attempt' \in 0..Retries
        /\ outcome' \in {outcome, "failed"}
    BY <1>3, AfterCommand DEF Put
  <2> QED
    BY <1>3, <2>1 DEF Put
<1>4. CASE MkDir
  <2>1. /\ at' \in {"extract", StepStart(at), "idle"} /\ attempt' \in 0..Retries
        /\ outcome' \in {outcome, "failed"}
    BY <1>4, AfterCommand DEF MkDir
  <2> QED
    BY <1>4, <2>1 DEF MkDir
<1>5. CASE Extract
  <2>1. /\ at' \in {"extracting", StepStart(at), "idle"} /\ attempt' \in 0..Retries
        /\ outcome' \in {outcome, "failed"}
    BY <1>5, AfterCommand DEF Extract
  <2> QED
    BY <1>5, <2>1 DEF Extract
<1>6. CASE Extracted
  <2>1. /\ at' \in {"chown", StepStart(at), "idle"} /\ attempt' \in 0..Retries
        /\ outcome' \in {outcome, "failed"}
    BY <1>6, AfterCommand DEF Extracted
  <2> QED
    BY <1>6, <2>1 DEF Extracted
<1>7. CASE Chown
  <2>1. /\ at' \in {"testLink", StepStart(at), "idle"} /\ attempt' \in 0..Retries
        /\ outcome' \in {outcome, "failed"}
    BY <1>7, AfterCommand DEF Chown
  <2> QED
    BY <1>7, <2>1 DEF Chown
<1>8. CASE TestLink
  BY <1>8 DEF TestLink
<1>9. CASE RemoveLink
  <2>1. /\ at' \in {"testDir", StepStart(at), "idle"} /\ attempt' \in 0..Retries
        /\ outcome' \in {outcome, "failed"}
    BY <1>9, AfterCommand DEF RemoveLink
  <2> QED
    BY <1>9, <2>1 DEF RemoveLink
<1>10. CASE TestDir
  <2>1. /\ at' \in {"ln", StepStart(at), "idle"} /\ attempt' \in 0..Retries
        /\ outcome' \in {outcome, "failed"}
    BY <1>10, AfterCommand, AfterFailure DEF TestDir
  <2> QED
    BY <1>10, <2>1 DEF TestDir
<1>11. CASE Ln
  <2>1. /\ at' \in {"check", StepStart(at), "idle"} /\ attempt' \in 0..Retries
        /\ outcome' \in {outcome, "failed"}
    BY <1>11, AfterCommand DEF Ln
  <2>2. link' \in {version, RealDir}
    BY <1>11 DEF Ln
  <2> QED
    BY <1>11, <2>1, <2>2 DEF Ln
<1>12. CASE Check
  <2>1. /\ at' \in {"list", StepStart(at), "idle"} /\ attempt' \in 0..Retries
        /\ outcome' \in {outcome, "failed"}
    BY <1>12, AfterCommand DEF Check
  <2> QED
    BY <1>12, <2>1 DEF Check
<1>13. CASE List
  <2>1. /\ at' \in {"readlink", StepStart(at), "idle"} /\ attempt' \in 0..Retries
        /\ outcome' \in {outcome, "failed"}
    BY <1>13, AfterCommand DEF List
  <2> QED
    BY <1>13, <2>1 DEF List
<1>14. CASE Readlink
  <2>1. doomed' \subseteq Version /\ (~blind' => link' \notin doomed')
    BY <1>14 DEF Readlink, Present
  <2> QED
    BY <1>14, <2>1 DEF Readlink
<1>15. ASSUME NEW v \in Version, Remove(v) PROVE Inv'
  BY <1>15 DEF Remove
<1>16. CASE Pruned
  BY <1>16 DEF Pruned
<1>17. CASE Kill
  BY <1>17 DEF Kill
<1>18. CASE UNCHANGED vars
  BY <1>18 DEF vars
<1> QED
  BY <1>1, <1>2, <1>3, <1>4, <1>5, <1>6, <1>7, <1>8, <1>9, <1>10, <1>11, <1>12,
     <1>13, <1>14, <1>15, <1>16, <1>17, <1>18 DEF Next, Command

LEMMA Invariance == Spec => []Inv
  BY InitInv, NextInv, PTL DEF Spec

-----------------------------------------------------------------------------
\* The variables stay in their types; retries are bounded.
THEOREM TypeCorrect == Spec => []TypeOK
  BY Invariance, PTL DEF Inv

\* A deployment that succeeds has put its version live, whatever was retried.
THEOREM SuccessPutsLive == Spec => []SuccessIsLive
<1>1. Inv => SuccessIsLive
  BY DEF Inv, Switched, SuccessIsLive
<1> QED
  BY <1>1, Invariance, PTL

\* The link only comes to point to a complete release, which stays complete
\* unless it is unpacked over or pruned blindly.
THEOREM LiveIsKept == Spec => LiveStaysComplete
<1> DEFINE Keeps ==
      /\ link' \in Version \ {link} => LiveIsComplete'
      /\ LiveIsComplete /\ link' = link /\ ~LiveIsComplete' =>
           \/ at = "extract" /\ version = link
           \/ at = "remove" /\ blind
<1>1. Inv /\ [Next]_vars => [Keeps]_vars
  <2> SUFFICES ASSUME Inv, Next PROVE Keeps
    OBVIOUS
  <2> USE ReleaseAssumption
      DEF ReleaseAssumption, Inv, TypeOK, Spared, LiveIsComplete, hostVars
  <2>1. CASE Extract \/ Extracted \/ MkDir
    BY <2>1 DEF Extract, Extracted, MkDir
  <2>2. CASE Ln
    <3>1. dirs[version] = "full"
      BY <2>2 DEF Ln, Unpacked, SwitchCommands
    <3> QED
      BY <2>2, <3>1 DEF Ln
  <2>3. ASSUME NEW v \in Version, Remove(v) PROVE Keeps
    BY <2>3 DEF Remove
  <2>4. CASE RemoveLink
    BY <2>4 DEF RemoveLink
  <2>5. CASE \/ CommandFails \/ Put \/ Chown \/ TestLink \/ TestDir \/ Check \/ List
             \/ Readlink \/ Pruned \/ Kill \/ \E v \in Version : Apply(v)
    BY <2>5 DEF CommandFails, Put, Chown, TestLink, TestDir, Check, List, Readlink,
                Pruned, Kill, Apply
  <2> QED
    BY <2>1, <2>2, <2>3, <2>4, <2>5 DEF Next, Command
<1> QED
  BY <1>1, Invariance, PTL DEF Spec, LiveStaysComplete

-----------------------------------------------------------------------------
(* What the pruner leaves.                                                 *)

\* What is left to remove has as many newer releases that stay.
Outnumbered == \A v \in doomed : Cardinality({w \in Present \ doomed : w > v}) >= Keep

\* A larger set has at least as many newer ones.
LEMMA MoreAreNewer ==
  ASSUME NEW P \in SUBSET Version, NEW Q \in SUBSET P, NEW v \in Version,
         Cardinality({w \in Q : w > v}) >= Keep
  PROVE  Cardinality({w \in P : w > v}) >= Keep
<1>1. IsFiniteSet({w \in P : w > v})
  <2>1. {w \in P : w > v} \in SUBSET Version
    OBVIOUS
  <2> QED
    BY <2>1, ReleaseAssumption, FS_Subset DEF ReleaseAssumption
<1>2. {w \in Q : w > v} \in SUBSET {w \in P : w > v}
  OBVIOUS
<1>3. PICK m, n \in Nat : m = Cardinality({w \in Q : w > v}) /\ n = Cardinality({w \in P : w > v})
  BY <1>1, <1>2, FS_Subset, FS_CardinalityType
<1>4. m <= n
  BY <1>1, <1>2, <1>3, FS_Subset
<1> QED
  BY <1>3, <1>4, ReleaseAssumption DEF ReleaseAssumption

\* What is not among the newest has as many newer ones among the newest: the last
\* that is not among them has only such above it.
LEMMA NewestOutnumber ==
  ASSUME NEW v \in Present, v \notin Newest
  PROVE  Cardinality({w \in Newest : w > v}) >= Keep
<1> DEFINE Above(u) == {w \in Present : w > u}
           Older == {u \in Present \ Newest : u >= v}
           Aboves == {Above(u) : u \in Older}
<1>1. Present \subseteq Nat /\ IsFiniteSet(Present) /\ Newest \subseteq Present /\ v \in Older
  <2>1. Present \in SUBSET Version
    BY DEF Present
  <2>2. Present \subseteq Nat /\ v \in Nat /\ v >= v
    BY <2>1, ReleaseAssumption DEF ReleaseAssumption
  <2>3. IsFiniteSet(Present)
    BY <2>1, ReleaseAssumption, FS_Subset DEF ReleaseAssumption
  <2>4. Newest \subseteq Present
    BY DEF Newest
  <2> QED
    BY <2>2, <2>3, <2>4
<1>2. Aboves \subseteq FiniteSubsetsOf(Present) /\ Aboves # {}
  <2>1. ASSUME NEW u \in Older PROVE Above(u) \in FiniteSubsetsOf(Present)
    <3>1. Above(u) \in SUBSET Present
      OBVIOUS
    <3> QED
      BY <3>1, <1>1, FS_Subset DEF FiniteSubsetsOf
  <2> QED
    BY <2>1, <1>1
<1>3. IsWellFoundedOn(StrictSubsetOrdering(Present), FiniteSubsetsOf(Present))
  BY FS_StrictSubsetOrderingWellFounded
<1>4. PICK x \in Aboves : \A y \in Aboves : ~ (<<y, x>> \in StrictSubsetOrdering(Present))
  <2> HIDE DEF Aboves
  <2> QED
    BY <1>2, <1>3, WFMin
<1>5. PICK u \in Older : x = Above(u)
  BY <1>4
<1>6. u \in Nat /\ v \in Nat /\ u >= v /\ u \in Present /\ u \notin Newest
  BY <1>1, <1>5
<1>7. ASSUME NEW w \in Above(u) PROVE w \in Newest /\ w > v
  <2>1. w \in Present /\ w \in Nat /\ w > u /\ w > v
    BY <1>1, <1>6, <1>7
  <2>2. Above(w) \subseteq Above(u) /\ w \notin Above(w) /\ Above(u) \subseteq Present
    <3>1. \A k \in Present : k \in Nat
      BY <1>1
    <3>2. \A k \in Present : k > w => k > u
      BY <3>1, <2>1, <1>6
    <3>3. ~ (w > w)
      BY <2>1
    <3> QED
      BY <3>2, <3>3
  <2>3. <<Above(w), Above(u)>> \in StrictSubsetOrdering(Present)
    BY <2>2, <1>7 DEF StrictSubsetOrdering
  <2>4. w \notin Older
    BY <2>3, <1>4, <1>5
  <2> QED
    BY <2>1, <2>4, <1>6
<1>8. Cardinality(Above(u)) \in Nat /\ ~ (Cardinality(Above(u)) < Keep)
  <2>1. Above(u) \in SUBSET Present
    OBVIOUS
  <2>2. IsFiniteSet(Above(u))
    BY <2>1, <1>1, FS_Subset
  <2> QED
    BY <2>2, <1>6, FS_CardinalityType DEF Newest
<1>9. {w \in Above(u) : w > v} = Above(u)
  BY <1>7
<1>10. Cardinality({w \in Above(u) : w > v}) >= Keep
  BY <1>8, <1>9, ReleaseAssumption DEF ReleaseAssumption
<1>11. Newest \in SUBSET Version /\ Above(u) \in SUBSET Newest /\ v \in Version
  BY <1>7 DEF Newest, Present
<1> HIDE DEF Above
<1> QED
  BY <1>10, <1>11, MoreAreNewer

\* A step takes from what is present only what was to be removed.
LEMMA OnlyDoomedGo ==
  ASSUME Inv, [Next]_vars
  PROVE  /\ Present \ doomed \subseteq Present'
         /\ \A v \in Present : v \notin Present' => v \in doomed
         /\ at # "readlink" => doomed' \subseteq doomed
<1> USE DEF Inv, TypeOK, Present, hostVars, pruneVars
<1>1. CASE MkDir \/ Extract \/ Extracted
  BY <1>1 DEF MkDir, Extract, Extracted
<1>2. ASSUME NEW v \in Version, Remove(v)
      PROVE  doomed' \subseteq doomed /\ v \in doomed /\ \A w \in Version \ {v} : dirs'[w] = dirs[w]
  BY <1>2 DEF Remove
<1>3. CASE Readlink
  BY <1>3 DEF Readlink
<1>4. CASE \/ CommandFails \/ Put \/ Chown \/ TestLink \/ RemoveLink \/ TestDir \/ Ln \/ Check \/ List
           \/ Pruned \/ Kill \/ \E v \in Version : Apply(v)
  BY <1>4 DEF CommandFails, Put, Chown, TestLink, RemoveLink, TestDir, Ln, Check, List, Pruned, Kill, Apply
<1>5. CASE UNCHANGED vars
  BY <1>5 DEF vars
<1>6. CASE \E v \in Version : Remove(v)
  BY <1>2, <1>6
<1> QED
  BY <1>1, <1>3, <1>4, <1>5, <1>6 DEF Next, Command

\* What the pruner has still to remove stays outnumbered while it removes.
LEMMA OutnumberedNext == Inv /\ Outnumbered /\ [Next]_vars => Outnumbered'
<1> SUFFICES ASSUME Inv, Outnumbered, [Next]_vars, NEW v \in doomed'
             PROVE  Cardinality({w \in Present' \ doomed' : w > v}) >= Keep
  BY DEF Outnumbered
<1>1. PICK P, D : P = Present' /\ D = doomed'
  OBVIOUS
<1>2. P \subseteq Version /\ D \subseteq Version
  BY <1>1, NextInv DEF Present, Inv, TypeOK
<1>3. CASE at = "readlink" /\ doomed' # doomed
  <2>1. doomed = {}
    BY <1>3 DEF Inv, Spared
  <2>2. Readlink
    BY <1>3, <2>1 DEF Next, Command, CommandFails, Put, MkDir, Extract, Extracted, Chown, TestLink,
      RemoveLink, TestDir, Ln, Check, List, Remove, Pruned, Kill, Apply, pruneVars, vars
  <2>3. D \subseteq Present \ Newest /\ Newest \subseteq Present /\ Present = P
    BY <2>2, <1>1 DEF Readlink, Newest, Present, hostVars
  <2>4. Cardinality({w \in Newest : w > v}) >= Keep
    BY <2>3, <1>1, NewestOutnumber
  <2>5. Newest \in SUBSET (P \ D) /\ P \ D \in SUBSET Version /\ v \in Version
    BY <2>3, <1>1, <1>2
  <2>6. Cardinality({w \in P \ D : w > v}) >= Keep
    BY <2>4, <2>5, MoreAreNewer
  <2> QED
    BY <2>6, <1>1
<1>4. CASE ~ (at = "readlink" /\ doomed' # doomed)
  <2>1. D \subseteq doomed /\ Present \ doomed \subseteq P
    BY <1>4, <1>1, OnlyDoomedGo
  <2>2. Cardinality({w \in Present \ doomed : w > v}) >= Keep
    BY <2>1, <1>1 DEF Outnumbered
  <2>3. Present \ doomed \in SUBSET (P \ D) /\ P \ D \in SUBSET Version /\ v \in Version
    BY <2>1, <1>1, <1>2
  <2>4. Cardinality({w \in P \ D : w > v}) >= Keep
    BY <2>2, <2>3, MoreAreNewer
  <2> QED
    BY <2>4, <1>1
<1> QED
  BY <1>3, <1>4

\* A release is removed only if as many newer ones as the pruner must keep remain.
THEOREM NewestStay == Spec => NewestAreKept
<1> DEFINE Kept == \A v \in Version : v \in Present /\ v \notin Present' =>
                     Cardinality({w \in Present' : w > v}) >= Keep
<1>1. Inv /\ Outnumbered /\ [Next]_vars => [Kept]_vars
  <2> SUFFICES ASSUME Inv, Outnumbered, Next,
                      NEW v \in Version, v \in Present, v \notin Present'
               PROVE  Cardinality({w \in Present' : w > v}) >= Keep
    OBVIOUS
  <2>1. v \in doomed /\ Present \ doomed \subseteq Present'
    BY OnlyDoomedGo
  <2>2. Cardinality({w \in Present \ doomed : w > v}) >= Keep
    BY <2>1 DEF Outnumbered
  <2>3. PICK P : P = Present'
    OBVIOUS
  <2>4. P \in SUBSET Version /\ Present \ doomed \in SUBSET P
    BY <2>1, <2>3 DEF Present
  <2>5. Cardinality({w \in P : w > v}) >= Keep
    BY <2>2, <2>4, MoreAreNewer
  <2> QED
    BY <2>3, <2>5
<1>2. Init => Outnumbered
  BY DEF Init, Outnumbered
<1> QED
  BY <1>1, <1>2, Invariance, OutnumberedNext, PTL DEF Spec, NewestAreKept
=============================================================================
