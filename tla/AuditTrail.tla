------------------------------ MODULE AuditTrail ------------------------------
(***************************************************************************)
(* The deployment records of one project name in the SQLite store, and the *)
(* runs that write them: a run picks a version, inserts a RUNNING record,  *)
(* merges its variables with those of an earlier record, works, and        *)
(* publishes its outcome, which the store's handler writes back.  Runs are *)
(* processes of their own; others delete records and the project meanwhile. *)
(***************************************************************************)
EXTENDS Naturals, FiniteSets

CONSTANTS
  Run,        \* the runs
  Env,        \* the environments
  Defines,    \* environments that define the variable "domain"
  Explicit,   \* versions that are asked for by name
  Unparsed,   \* a version of another form, such as the time stamp of a run without one
  Projects    \* bound: how often the project is created

Numbered == Nat \X Nat \X Nat
Version == Numbered \cup {Unparsed}

ASSUME AuditAssumption ==
  /\ Defines \subseteq Env
  /\ Unparsed \notin Numbered
  /\ Explicit \subseteq Version
  /\ Projects \in Nat \ {0}

Columns == {"env_name", "outputs", "params_snapshot"}

VARIABLES
  columns,   \* of the table deployments, or those that later releases added
  records,   \* the table deployments
  project,   \* the id of the project of this name, 0: there is none
  created,   \* how many projects of this name there were: ids are not reused
  inserted,  \* how many records there were
  pc,        \* where a run is
  key,       \* key[r]: the project, environment and version of a run
  domain,    \* domain[r]: the environment its variable "domain" comes from
  truth,     \* truth[r]: how its work went
  skewed,    \* history: a version was asked for, a record or project deleted, or a
             \*   record inserted between the look-up and the insertion of another run
  robbed     \* history: a record or project was deleted while a run of it was at work

storeVars == <<records, project, created, inserted>>
vars == <<columns, records, project, created, inserted, pc, key, domain, truth, skewed, robbed>>
history == <<skewed, robbed>>

Phase == {"idle", "over", "open", "proposed", "refused", "saved", "aborted", "working",
          "worked", "recorded", "unrecorded", "killed"}
Key == [project : Nat, env : Env \cup {"none"}, version : Version]
Record == [id : Nat, key : Key, status : {"RUNNING", "SUCCESS", "FAILED"}, run : Run,
           domain : Env \cup {"common", "none"}]

NoKey == [project |-> 0, env |-> "none", version |-> Unparsed]

Keyed(k) == {d \in records : d.key = k}

Active == {"proposed", "saved", "working", "worked"}

Init ==
  /\ columns \in {Columns, Columns \ {"params_snapshot"}, Columns \ {"outputs", "params_snapshot"}, {}}
  /\ records = {}
  /\ project = 0 /\ created = 0 /\ inserted = 0
  /\ pc = [r \in Run |-> "idle"]
  /\ key = [r \in Run |-> NoKey]
  /\ domain = [r \in Run |-> "none"]
  /\ truth = [r \in Run |-> "none"]
  /\ skewed = FALSE /\ robbed = FALSE

-----------------------------------------------------------------------------
(* Opening the store.  The schema indexes env_name before the migration    *)
(* that adds it, so a store without it is never opened.                    *)

\* Each column is added by a statement of its own.
Open(r) ==
  /\ pc[r] = "idle"
  /\ IF "env_name" \in columns
     THEN /\ columns' \in {columns, columns \cup {"outputs"}, Columns}
          /\ pc' = [pc EXCEPT ![r] = IF columns' = Columns THEN "open" ELSE "over"]
     ELSE /\ pc' = [pc EXCEPT ![r] = "over"]
          /\ UNCHANGED columns
  /\ UNCHANGED <<storeVars, key, domain, truth, history>>

Opened == \E r \in Run : pc[r] \notin {"idle", "over"}

-----------------------------------------------------------------------------
(* The project and its records, as other commands change them.             *)

LoadProject ==
  /\ Opened
  /\ project = 0 /\ created < Projects
  /\ created' = created + 1 /\ project' = created + 1
  /\ UNCHANGED <<columns, records, inserted, pc, key, domain, truth, history>>

DeleteProject ==
  /\ project # 0
  /\ records' = {d \in records : d.key.project # project}
  /\ robbed' = (robbed \/ \E r \in Run : pc[r] \in Active /\ key[r].project = project)
  /\ project' = 0
  /\ skewed' = TRUE
  /\ UNCHANGED <<columns, created, inserted, pc, key, domain, truth>>

DeleteDeployment(d) ==
  /\ d \in records /\ d.key.project = project
  /\ records' = records \ {d}
  /\ robbed' = (robbed \/ \E r \in Run : pc[r] \in Active \ {"proposed"} /\ key[r] = d.key)
  /\ skewed' = TRUE
  /\ UNCHANGED <<columns, project, created, inserted, pc, key, domain, truth>>

-----------------------------------------------------------------------------
(* A run chooses its version.                                              *)

\* What does not parse counts as 1.0.0.
BumpVersion(current, bump) ==
  LET v == IF current = Unparsed THEN <<1, 0, 0>> ELSE current
  IN  CASE bump = "major" -> <<v[1] + 1, 0, 0>>
        [] bump = "minor" -> <<v[1], v[2] + 1, 0>>
        [] bump = "patch" -> <<v[1], v[2], v[3] + 1>>

\* Mutant of Latest: a record that is still RUNNING is not looked at.
LatestCompleted(e) ==
  {d \in records : /\ d.key.project = project /\ d.key.env = e /\ d.status # "RUNNING"
                   /\ \A c \in records : c.key.project = project /\ c.key.env = e
                        /\ c.status # "RUNNING" => c.id <= d.id}

\* The newest record of an environment, RUNNING or not, if there is one.  The query
\* orders by started_at and then by id, which is the order of the ids as long as the
\* clock of the host is not set back.
Latest(e) ==
  {d \in records : /\ d.key.project = project /\ d.key.env = e
                   /\ \A c \in records : c.key.project = project /\ c.key.env = e => c.id <= d.id}

Picks(r, e, v) ==
  /\ pc[r] = "open" /\ project # 0
  /\ key' = [key EXCEPT ![r] = [project |-> project, env |-> e, version |-> v]]
  /\ pc' = [pc EXCEPT ![r] = "proposed"]
  /\ UNCHANGED <<columns, storeVars, domain, truth, robbed>>

Propose(r, e, bump) ==
  /\ IF Latest(e) = {}
     THEN Picks(r, e, <<1, 0, 0>>)
     ELSE \E d \in Latest(e) : Picks(r, e, BumpVersion(d.key.version, bump))
  /\ UNCHANGED skewed

Ask(r, e, v) == Picks(r, e, v) /\ skewed' = TRUE

-----------------------------------------------------------------------------
(* A run writes its record.                                                *)

\* Another run has looked up the newest record and has not inserted its own.
Overtakes(r) ==
  \E s \in Run \ {r} : pc[s] = "proposed" /\ key[s].env = key[r].env

\* The unique index refuses a second record of a key.  Foreign keys are checked
\* on the connection the pragma ran on, and on the others of the pool not.
Save(r) ==
  /\ pc[r] = "proposed"
  /\ IF Keyed(key[r]) = {}
     THEN \/ /\ records' = records \cup
                  {[id |-> inserted + 1, key |-> key[r], status |-> "RUNNING", run |-> r, domain |-> "none"]}
             /\ inserted' = inserted + 1
             /\ pc' = [pc EXCEPT ![r] = "saved"]
             /\ skewed' = (skewed \/ Overtakes(r))
          \/ /\ key[r].project # project
             /\ pc' = [pc EXCEPT ![r] = "refused"]
             /\ UNCHANGED <<records, inserted, skewed>>
     ELSE pc' = [pc EXCEPT ![r] = "refused"] /\ UNCHANGED <<records, inserted, skewed>>
  /\ UNCHANGED <<columns, project, created, key, domain, truth, robbed>>

\* Mutant of Inherited: the snapshot overrides what the target environment defines.
InheritedBlindly(e, snapshot, from) ==
  IF snapshot = "none" THEN (IF e \in Defines THEN e ELSE "common") ELSE snapshot

\* The variable of a run in e that inherits the snapshot of a record of from.
Inherited(e, snapshot, from) ==
  IF snapshot = "none" \/ (from # e /\ e \in Defines)
  THEN IF e \in Defines THEN e ELSE "common"
  ELSE snapshot

\* A record that the run inherits from by its version, or nothing to inherit.
Sources == {[snapshot |-> "none", from |-> "none"]} \cup
           {[snapshot |-> d.domain, from |-> d.key.env] :
              d \in {c \in records : c.key.project = project}}

\* The variables are merged and stored with the record; an error of that is ignored.
SetUp(r) ==
  /\ pc[r] = "saved"
  /\ \E s \in Sources :
       domain' = [domain EXCEPT ![r] = Inherited(key[r].env, s.snapshot, s.from)]
  /\ \/ records' = {IF d.key = key[r] THEN [d EXCEPT !.domain = domain'[r]] ELSE d : d \in records}
     \/ UNCHANGED records
  /\ pc' = [pc EXCEPT ![r] = "working"]
  /\ UNCHANGED <<columns, project, created, inserted, key, truth, history>>

\* No such record, a snapshot that does not parse, no temporary directory: Run
\* returns without an outcome.
SetUpFails(r) ==
  /\ pc[r] = "saved"
  /\ pc' = [pc EXCEPT ![r] = "aborted"]
  /\ UNCHANGED <<columns, storeVars, key, domain, truth, history>>

Work(r) ==
  /\ pc[r] = "working"
  /\ \E t \in {"SUCCESS", "FAILED"} : truth' = [truth EXCEPT ![r] = t]
  /\ pc' = [pc EXCEPT ![r] = "worked"]
  /\ UNCHANGED <<columns, storeVars, key, domain, history>>

\* Mutant of HandleEvent: the version alone finds the record.
HandleEventAnyEnv(r) ==
  /\ pc[r] = "worked"
  /\ records' = {IF d.key.project = project /\ d.key.version = key[r].version
                 THEN [d EXCEPT !.status = truth[r]] ELSE d : d \in records}
  /\ pc' = [pc EXCEPT ![r] = "recorded"]
  /\ UNCHANGED <<columns, project, created, inserted, key, domain, truth, history>>

\* The outcome event is handled: the project is looked up by its name, and an
\* error of the update is ignored.
HandleEvent(r) ==
  /\ pc[r] = "worked"
  /\ \/ /\ records' = {IF d.key = [key[r] EXCEPT !.project = project]
                       THEN [d EXCEPT !.status = truth[r]] ELSE d : d \in records}
        /\ pc' = [pc EXCEPT ![r] = "recorded"]
     \/ pc' = [pc EXCEPT ![r] = "unrecorded"] /\ UNCHANGED records
  /\ UNCHANGED <<columns, project, created, inserted, key, domain, truth, history>>

\* The program of the run dies.
Kill(r) ==
  /\ pc[r] \in Active
  /\ pc' = [pc EXCEPT ![r] = "killed"]
  /\ UNCHANGED <<columns, storeVars, key, domain, truth, history>>

Step(r) ==
  \/ Open(r) \/ Save(r) \/ SetUp(r) \/ SetUpFails(r) \/ Work(r) \/ HandleEvent(r)
  \/ \E e \in Env, bump \in {"major", "minor", "patch"} : Propose(r, e, bump)
  \/ \E e \in Env, v \in Explicit : Ask(r, e, v)

Next ==
  \/ \E r \in Run : Step(r) \/ Kill(r)
  \/ LoadProject \/ DeleteProject \/ (\E d \in records : DeleteDeployment(d))

Spec == Init /\ [][Next]_vars

-----------------------------------------------------------------------------
(* Properties.                                                             *)

\* The variables stay in their types.
TypeOK ==
  /\ columns \subseteq Columns
  /\ records \subseteq Record
  /\ project \in Nat /\ created \in Nat /\ inserted \in Nat
  /\ pc \in [Run -> Phase]
  /\ key \in [Run -> Key]
  /\ domain \in [Run -> Env \cup {"common", "none"}]
  /\ truth \in [Run -> {"none", "SUCCESS", "FAILED"}]
  /\ skewed \in BOOLEAN /\ robbed \in BOOLEAN

\* A record says of its run what is true of it, however many runs of whatever
\* versions and environments are at work, as long as nobody deletes the record or
\* the project of a run that is at work.
RecordFaithful ==
  ~robbed => \A d \in records :
    /\ d.status # "RUNNING" => d.status = truth[d.run]
    /\ d.status = "RUNNING" => pc[d.run] # "recorded"

\* Where all versions come from bumps and no two runs of an environment look up its
\* newest record before either has inserted its own, the version a bump proposes is
\* a new one, whatever runs are still RUNNING and in whichever order they end.
BumpIsFresh ==
  [][\A r \in Run : pc[r] = "open" /\ pc'[r] = "proposed" /\ ~skewed' => Keyed(key'[r]) = {}]_vars

\* What the environment of a run defines comes from that environment, whichever
\* record, of whichever environment, the run inherits its variables from.
TargetVariablesKept ==
  \A r \in Run : pc[r] = "working" /\ key[r].env \in Defines => domain[r] = key[r].env
=============================================================================
