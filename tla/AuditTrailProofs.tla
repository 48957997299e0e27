--------------------------- MODULE AuditTrailProofs ---------------------------
(***************************************************************************)
(* Invariants of AuditTrail, for any runs, environments and versions.      *)
(***************************************************************************)
EXTENDS AuditTrail, WellFoundedInduction, TLAPS

\* Before the insertion of its record a run has none.
Early == {"idle", "over", "open", "proposed", "refused"}

\* The order of versions.
Before(v, w) ==
  \/ v[1] < w[1]
  \/ v[1] = w[1] /\ (v[2] < w[2] \/ (v[2] = w[2] /\ v[3] < w[3]))

\* Every record is that of its run, and keys and ids belong to one record.
Owned ==
  /\ \A d \in records : /\ d.key = key[d.run] /\ pc[d.run] \notin Early
                        /\ d.id >= 1 /\ d.id <= inserted
  /\ \A c, d \in records : c.key = d.key \/ c.id = d.id => c = d

\* A run that is at work has the project, and its record.
Attached ==
  ~robbed => \A r \in Run :
    /\ pc[r] \in Active => key[r].project = project /\ project # 0
    /\ pc[r] \in Active \ {"proposed"} => \E d \in records : d.run = r

\* The records that are not RUNNING are those of the runs that recorded their outcome.
Faithful ==
  /\ \A r \in Run : pc[r] = "worked" => truth[r] \in {"SUCCESS", "FAILED"}
  /\ ~robbed => \A d \in records :
       /\ d.status # "RUNNING" <=> pc[d.run] = "recorded"
       /\ d.status # "RUNNING" => d.status = truth[d.run]

\* What an environment defines, its records and its runs have from it.
Snapshots ==
  /\ \A d \in records : d.key.env \in Defines => d.domain \in {"none", d.key.env}
  /\ TargetVariablesKept

\* Versions grow with the records of an environment, and to what is proposed.
Growing ==
  ~skewed =>
    /\ \A r \in Run : pc[r] \notin {"idle", "over", "open"} =>
         key[r].project = project /\ project # 0 /\ key[r].version \in Numbered
    /\ \A c, d \in records : c.key.env = d.key.env /\ c.id < d.id =>
         Before(c.key.version, d.key.version)
    /\ \A r \in Run, d \in records : pc[r] = "proposed" /\ d.key.env = key[r].env =>
         Before(d.key.version, key[r].version)

Inv == TypeOK /\ Owned /\ Attached /\ Faithful /\ Snapshots /\ Growing

-----------------------------------------------------------------------------
(* Lemmas about the data.                                                  *)

\* A set of natural numbers has a least element.
LEMMA LeastExists ==
  ASSUME NEW T, T \subseteq Nat, T # {}
  PROVE  \E m \in T : \A k \in T : m <= k
<1> DEFINE R == OpToRel(<, Nat)
<1>1. IsWellFoundedOn(R, Nat)
  BY NatLessThanWellFounded
<1> HIDE DEF R
<1>2. PICK m \in T : \A k \in T : ~(<<k, m>> \in R)
  BY <1>1, WFMin
<1>3. \A k \in T : ~(k < m)
  BY <1>2 DEF R, OpToRel
<1> QED
  BY <1>3

\* A set of numbers between 1 and n has a greatest element.
LEMMA GreatestExists ==
  ASSUME NEW n \in Nat, NEW S, S # {}, \A x \in S : x \in Nat /\ x <= n
  PROVE  \E x \in S : \A y \in S : y <= x
<1> DEFINE T == {n - x : x \in S}
<1>1. T \subseteq Nat
  <2> SUFFICES ASSUME NEW x \in S PROVE n - x \in Nat
    OBVIOUS
  <2> QED
    OBVIOUS
<1>2. T # {}
  <2>1. PICK x : x \in S
    OBVIOUS
  <2>2. n - x \in T
    BY <2>1
  <2> QED
    BY <2>2
<1>3. PICK m \in T : \A k \in T : m <= k
  <2> HIDE DEF T
  <2> QED
    BY <1>1, <1>2, LeastExists
<1>4. PICK x \in S : m = n - x
  BY DEF T
<1>5. ASSUME NEW y \in S PROVE y <= x
  <2>1. n - x <= n - y
    BY <1>3, <1>4
  <2> QED
    BY <2>1
<1> QED
  BY <1>5

\* A bump of a numbered version gives a greater one.
LEMMA BumpGrows ==
  ASSUME NEW v \in Numbered, NEW bump \in {"major", "minor", "patch"}
  PROVE  BumpVersion(v, bump) \in Numbered /\ Before(v, BumpVersion(v, bump))
  BY AuditAssumption DEF AuditAssumption, Numbered, BumpVersion, Before

\* A bump of any version gives one.
LEMMA BumpIsVersion ==
  ASSUME NEW v \in Version, NEW bump \in {"major", "minor", "patch"}
  PROVE  BumpVersion(v, bump) \in Numbered
  BY DEF Version, Numbered, BumpVersion

\* The order of versions is transitive and irreflexive.
LEMMA BeforeOrders ==
  ASSUME NEW u \in Numbered, NEW v \in Numbered, NEW w \in Numbered
  PROVE  /\ Before(u, v) /\ Before(v, w) => Before(u, w)
         /\ ~Before(u, u)
  BY DEF Numbered, Before

\* An environment that has records has a newest one.
LEMMA LatestExists ==
  ASSUME TypeOK, Owned, NEW e, Latest(e) = {}
  PROVE  ~\E d \in records : d.key.project = project /\ d.key.env = e
<1> SUFFICES ASSUME NEW d0 \in records, d0.key.project = project, d0.key.env = e
             PROVE  FALSE
  OBVIOUS
<1> DEFINE E == {d \in records : d.key.project = project /\ d.key.env = e}
           S == {d.id : d \in E}
<1>1. S # {}
  <2>1. d0.id \in S
    OBVIOUS
  <2> QED
    BY <2>1
<1>2. \A x \in S : x \in Nat /\ x <= inserted
  BY DEF TypeOK, Record, Owned
<1>3. PICK x \in S : \A y \in S : y <= x
  <2> HIDE DEF S
  <2> QED
    BY <1>1, <1>2, GreatestExists DEF TypeOK
<1>4. PICK d \in E : d.id = x
  OBVIOUS
<1>5. d \in Latest(e)
  BY <1>3, <1>4 DEF Latest
<1> QED
  BY <1>5

-----------------------------------------------------------------------------
(* The invariant.                                                          *)

\* An empty store satisfies the invariant.
LEMMA InitInv == Init => Inv
<1> SUFFICES ASSUME Init PROVE Inv
  OBVIOUS
<1> USE DEF Init
<1>1. TypeOK
  BY DEF TypeOK, Columns, Phase, Key, NoKey, Version
<1>2. Owned /\ Snapshots
  BY DEF Owned, Snapshots, TargetVariablesKept
<1>3. Attached /\ Faithful /\ Growing
  BY DEF Attached, Faithful, Growing, Active
<1> QED
  BY <1>1, <1>2, <1>3 DEF Inv

\* Opening the store touches no record.
LEMMA OpenStep ==
  ASSUME Inv, NEW r \in Run, Open(r)
  PROVE  Inv'
<1>1. PICK p \in {"open", "over"} : pc' = [pc EXCEPT ![r] = p]
  BY DEF Open
<1>2. pc[r] = "idle" /\ columns' \subseteq Columns
  BY DEF Inv, TypeOK, Open, Columns
<1>3. UNCHANGED <<records, project, created, inserted, key, domain, truth, skewed, robbed>>
  BY DEF Open, storeVars, history
<1> USE <1>3, <1>1, <1>2 DEF Inv
<1>4. TypeOK'
  BY DEF TypeOK, Phase
<1>5. Owned' /\ Snapshots'
  BY DEF TypeOK, Owned, Snapshots, TargetVariablesKept, Early
<1>6. Attached' /\ Faithful'
  BY DEF TypeOK, Attached, Faithful, Active
<1>7. Growing'
  BY DEF TypeOK, Growing
<1> QED
  BY <1>4, <1>5, <1>6, <1>7

\* A run that ends without an outcome keeps its record.
LEMMA SetUpFailsStep ==
  ASSUME Inv, NEW r \in Run, SetUpFails(r)
  PROVE  Inv'
<1> USE DEF Inv, SetUpFails
<1>1. TypeOK'
  BY DEF TypeOK, Phase, storeVars, history
<1>2. Owned' /\ Snapshots'
  BY DEF TypeOK, Owned, storeVars, Snapshots, TargetVariablesKept, Early, Active
<1>3. Attached' /\ Faithful'
  BY DEF TypeOK, Attached, Faithful, Active, history, storeVars
<1>4. Growing'
  BY DEF TypeOK, Growing, Active, history, storeVars
<1> QED
  BY <1>1, <1>2, <1>3, <1>4

\* The work of a run changes its outcome, which no record states yet.
LEMMA WorkStep ==
  ASSUME Inv, NEW r \in Run, Work(r)
  PROVE  Inv'
<1> USE DEF Inv, Work
<1>1. TypeOK'
  BY DEF TypeOK, Phase, storeVars, history
<1>2. Owned' /\ Snapshots'
  BY DEF TypeOK, Owned, storeVars, Snapshots, TargetVariablesKept, Early, Active
<1>3. Attached' /\ Faithful'
  BY DEF TypeOK, Attached, Faithful, Active, history, storeVars
<1>4. Growing'
  BY DEF TypeOK, Growing, Active, history, storeVars
<1> QED
  BY <1>1, <1>2, <1>3, <1>4

\* A run that dies keeps its record as it is.
LEMMA KillStep ==
  ASSUME Inv, NEW r \in Run, Kill(r)
  PROVE  Inv'
<1> USE DEF Inv, Kill
<1>1. TypeOK'
  BY DEF TypeOK, Phase, storeVars, history
<1>2. Owned' /\ Snapshots'
  BY DEF TypeOK, Owned, storeVars, Snapshots, TargetVariablesKept, Early, Active
<1>3. Attached' /\ Faithful'
  BY DEF TypeOK, Attached, Faithful, Active, history, storeVars
<1>4. Growing'
  BY DEF TypeOK, Growing, Active, history, storeVars
<1> QED
  BY <1>1, <1>2, <1>3, <1>4

\* Creating the project happens while no run has one.
LEMMA LoadProjectStep ==
  ASSUME Inv, LoadProject
  PROVE  Inv'
<1> USE DEF Inv, LoadProject, history
<1>1. TypeOK'
  BY DEF TypeOK
<1>2. Owned' /\ Snapshots'
  BY DEF Owned, Snapshots, TargetVariablesKept
<1>3. Attached' /\ Faithful'
  BY DEF Attached, Faithful
<1>4. Growing'
  <2>1. ~skewed => \A d \in records : pc[d.run] \in {"idle", "over", "open"}
    BY DEF TypeOK, Record, Growing
  <2> QED
    BY <2>1 DEF TypeOK, Growing
<1> QED
  BY <1>1, <1>2, <1>3, <1>4

\* Deleting the project robs the runs of it that are at work.
LEMMA DeleteProjectStep ==
  ASSUME Inv, DeleteProject
  PROVE  Inv'
<1> USE DEF Inv, DeleteProject
<1>1. TypeOK'
  BY DEF TypeOK
<1>2. Owned' /\ Snapshots'
  BY DEF Owned, Snapshots, TargetVariablesKept
<1>3. Attached'
  <2> SUFFICES ASSUME ~robbed', NEW r \in Run, pc[r] \in Active PROVE FALSE
    BY DEF Attached
  <2>1. key[r].project = project
    BY DEF Attached
  <2> QED
    BY <2>1
<1>4. Faithful' /\ Growing'
  BY DEF Faithful, Growing
<1> QED
  BY <1>1, <1>2, <1>3, <1>4

\* Deleting a record robs its run, if that is at work.
LEMMA DeleteDeploymentStep ==
  ASSUME Inv, NEW d \in records, DeleteDeployment(d)
  PROVE  Inv'
<1> USE DEF Inv, DeleteDeployment
<1>1. TypeOK'
  BY DEF TypeOK
<1>2. Owned' /\ Snapshots'
  BY DEF Owned, Snapshots, TargetVariablesKept
<1>3. Attached'
  <2> SUFFICES ASSUME ~robbed', NEW r \in Run, pc[r] \in Active \ {"proposed"}
               PROVE  \E c \in records' : c.run = r
    BY DEF Attached
  <2>1. PICK c \in records : c.run = r
    BY DEF Attached
  <2>2. key[r] # d.key
    OBVIOUS
  <2>3. c # d
    BY <2>1, <2>2 DEF Owned
  <2> QED
    BY <2>1, <2>3
<1>4. Faithful' /\ Growing'
  BY DEF Faithful, Growing
<1> QED
  BY <1>1, <1>2, <1>3, <1>4

\* What a run that has no record does to its key changes no record's run.
LEMMA PicksKeeps ==
  ASSUME Inv, NEW r \in Run, NEW e \in Env, NEW v \in Version, Picks(r, e, v), skewed' \in BOOLEAN
  PROVE  TypeOK' /\ Owned' /\ Attached' /\ Faithful' /\ Snapshots'
<1> USE DEF Inv, Picks, storeVars
<1>1. TypeOK'
  <2>1. key' \in [Run -> Key]
    BY DEF TypeOK, Key
  <2> QED
    BY <2>1 DEF TypeOK, Phase
<1>2. \A d \in records : d.run # r
  BY DEF Owned, Early
<1>3. Owned' /\ Snapshots'
  BY <1>2 DEF TypeOK, Record, Owned, Snapshots, TargetVariablesKept, Early
<1>4. Attached' /\ Faithful'
  BY <1>2 DEF TypeOK, Record, Attached, Faithful, Active
<1> QED
  BY <1>1, <1>3, <1>4

\* Asking for a version skews the history.
LEMMA AskStep ==
  ASSUME Inv, NEW r \in Run, NEW e \in Env, NEW v \in Explicit, Ask(r, e, v)
  PROVE  Inv'
<1>1. v \in Version /\ Picks(r, e, v) /\ skewed' = TRUE
  BY AuditAssumption DEF AuditAssumption, Ask
<1> QED
  BY <1>1, PicksKeeps DEF Inv, Growing

\* In an unskewed history, what a bump proposes is above the environment's records.
LEMMA ProposeGrows ==
  ASSUME Inv, NEW r \in Run, NEW e \in Env, NEW bump \in {"major", "minor", "patch"},
         Propose(r, e, bump)
  PROVE  \E v \in Numbered :
           /\ Picks(r, e, v) /\ UNCHANGED skewed
           /\ ~skewed => \A d \in records : d.key.env = e => Before(d.key.version, v)
<1>1. ~skewed => \A d \in records : d.key.project = project /\ d.key.version \in Numbered
  BY DEF Inv, TypeOK, Record, Owned, Growing, Early
<1>2. CASE Latest(e) = {}
  <2>1. ~\E d \in records : d.key.project = project /\ d.key.env = e
    BY <1>2, LatestExists DEF Inv
  <2> QED
    BY <1>1, <1>2, <2>1 DEF Propose, Numbered
<1>3. CASE Latest(e) # {}
  <2>1. PICK c \in Latest(e) : Picks(r, e, BumpVersion(c.key.version, bump))
    BY <1>3 DEF Propose
  <2>2. /\ c \in records /\ c.key.env = e /\ c.key.version \in Version
        /\ \A d \in records : d.key.project = project /\ d.key.env = e => d.id <= c.id
    BY DEF Latest, Inv, TypeOK, Record, Key
  <2>3. BumpVersion(c.key.version, bump) \in Numbered
    BY <2>2, BumpIsVersion
  <2>4. ASSUME ~skewed, NEW d \in records, d.key.env = e
        PROVE  Before(d.key.version, BumpVersion(c.key.version, bump))
    <3>1. Before(c.key.version, BumpVersion(c.key.version, bump))
      BY <1>1, <2>2, <2>4, BumpGrows
    <3>2. d = c \/ d.id < c.id
      BY <1>1, <2>2, <2>4 DEF Inv, TypeOK, Record, Owned
    <3>3. d = c \/ Before(d.key.version, c.key.version)
      BY <2>2, <2>4, <3>2 DEF Inv, Growing
    <3> QED
      BY <1>1, <2>2, <2>3, <2>4, <3>1, <3>3, BeforeOrders
  <2> QED
    BY <2>1, <2>3, <2>4 DEF Propose
<1> QED
  BY <1>2, <1>3

\* A proposed version is above the records of its environment.
LEMMA ProposeStep ==
  ASSUME Inv, NEW r \in Run, NEW e \in Env, NEW bump \in {"major", "minor", "patch"},
         Propose(r, e, bump)
  PROVE  Inv'
<1>1. PICK v \in Numbered :
        /\ Picks(r, e, v) /\ UNCHANGED skewed
        /\ ~skewed => \A d \in records : d.key.env = e => Before(d.key.version, v)
  BY ProposeGrows
<1>2. TypeOK' /\ Owned' /\ Attached' /\ Faithful' /\ Snapshots'
  BY <1>1, PicksKeeps DEF Inv, TypeOK, Version
<1>3. Growing'
  BY <1>1 DEF Inv, TypeOK, Growing, Picks, storeVars
<1> QED
  BY <1>2, <1>3 DEF Inv

\* The new record has a key and an id of its own.
LEMMA InsertStep ==
  ASSUME Inv, NEW r \in Run, pc[r] = "proposed", Keyed(key[r]) = {},
         NEW d, d = [id |-> inserted + 1, key |-> key[r], status |-> "RUNNING", run |-> r,
                     domain |-> "none"],
         records' = records \cup {d}, inserted' = inserted + 1,
         pc' = [pc EXCEPT ![r] = "saved"],
         skewed' = (skewed \/ Overtakes(r)),
         UNCHANGED <<columns, project, created, key, domain, truth, robbed>>
  PROVE  Inv'
<1> USE DEF Inv
<1>1. \A c \in records : c.run # r /\ c.key # key[r] /\ c.id <= inserted
  BY DEF Owned, Early, Keyed
<1>2. TypeOK'
  <2>1. d \in Record
    BY DEF TypeOK, Record
  <2>2. skewed' \in BOOLEAN
    BY DEF TypeOK, Overtakes
  <2> QED
    BY <2>1, <2>2 DEF TypeOK, Phase
<1>3. Owned'
  <2>1. ASSUME NEW c \in records' PROVE c.key = key[c.run] /\ pc'[c.run] \notin Early /\ c.id >= 1 /\ c.id <= inserted'
    BY DEF TypeOK, Record, Owned, Early
  <2>2. ASSUME NEW b \in records', NEW c \in records', b.key = c.key \/ b.id = c.id PROVE b = c
    BY <1>1, <2>2 DEF TypeOK, Record, Owned
  <2> QED
    BY <2>1, <2>2 DEF Owned
<1>4. Snapshots' /\ Attached'
  BY DEF TypeOK, Record, Snapshots, TargetVariablesKept, Attached, Active
<1>5. Faithful'
  BY <1>1 DEF TypeOK, Record, Faithful
<1>6. Growing'
  <2> SUFFICES ASSUME ~skewed, ~Overtakes(r) PROVE Growing'
    BY DEF Growing
  <2>1. \A s \in Run : pc[s] \notin {"idle", "over", "open"} =>
          key[s].project = project /\ project # 0 /\ key[s].version \in Numbered
    BY DEF Growing
  <2>2. ASSUME NEW b \in records', NEW c \in records', b.key.env = c.key.env, b.id < c.id
        PROVE  Before(b.key.version, c.key.version)
    BY <1>1, <2>2 DEF TypeOK, Record, Growing
  <2>3. ASSUME NEW s \in Run, NEW c \in records', pc'[s] = "proposed", c.key.env = key[s].env
        PROVE  Before(c.key.version, key[s].version)
    BY <2>3 DEF TypeOK, Record, Growing, Overtakes
  <2> QED
    BY <2>1, <2>2, <2>3 DEF TypeOK, Growing
<1> QED
  BY <1>2, <1>3, <1>4, <1>5, <1>6

\* A run inserts its record or is refused.
LEMMA SaveStep ==
  ASSUME Inv, NEW r \in Run, Save(r)
  PROVE  Inv'
<1>1. CASE pc' = [pc EXCEPT ![r] = "saved"]
  BY <1>1, InsertStep DEF Save, Inv, TypeOK
<1>2. CASE pc' = [pc EXCEPT ![r] = "refused"]
  <2>1. /\ pc[r] = "proposed"
        /\ UNCHANGED <<columns, records, inserted, project, created, key, domain, truth, skewed, robbed>>
    BY <1>2 DEF Save, Inv, TypeOK
  <2> USE <1>2, <2>1 DEF Inv
  <2>2. TypeOK'
    BY DEF TypeOK, Phase
  <2>3. Owned' /\ Snapshots'
    BY DEF TypeOK, Owned, Snapshots, TargetVariablesKept, Early
  <2>4. Attached' /\ Faithful' /\ Growing'
    BY DEF TypeOK, Attached, Faithful, Growing, Active
  <2> QED
    BY <2>2, <2>3, <2>4
<1> QED
  BY <1>1, <1>2 DEF Save

\* A change of the records that keeps their keys, ids and runs, by a run at work.
LEMMA UpdateKeeps ==
  ASSUME Inv, NEW f \in [records -> Record], records' = {f[d] : d \in records},
         \A d \in records : f[d].id = d.id /\ f[d].key = d.key /\ f[d].run = d.run,
         NEW r \in Run, NEW p \in {"working", "recorded", "unrecorded"},
         pc' = [pc EXCEPT ![r] = p],
         pc[r] \in {"saved", "worked"},
         UNCHANGED <<project, inserted, key, skewed>>
  PROVE  records' \subseteq Record /\ Owned' /\ Growing'
<1> USE DEF Inv
<1>1. \A c \in records' : \E d \in records : c = f[d]
  OBVIOUS
<1>2. records' \subseteq Record
  BY <1>1
<1>3. p \notin Early
  BY DEF Early
<1>4. Owned'
  <2>1. ASSUME NEW c \in records'
        PROVE  c.key = key[c.run] /\ pc'[c.run] \notin Early /\ c.id >= 1 /\ c.id <= inserted
    <3>1. PICK d \in records : c = f[d]
      BY <1>1
    <3> QED
      BY <1>3, <3>1 DEF TypeOK, Owned
  <2>2. ASSUME NEW b \in records', NEW c \in records', b.key = c.key \/ b.id = c.id
        PROVE  b = c
    <3>1. PICK d \in records : b = f[d]
      BY <1>1
    <3>2. PICK e \in records : c = f[e]
      BY <1>1
    <3>3. d = e
      BY <2>2, <3>1, <3>2 DEF Owned
    <3> QED
      BY <3>1, <3>2, <3>3
  <2> QED
    BY <2>1, <2>2 DEF Owned
<1>5. Growing'
  <2> SUFFICES ASSUME ~skewed PROVE Growing'
    BY DEF Growing
  <2>1. \A s \in Run : pc'[s] \notin {"idle", "over", "open"} =>
          key[s].project = project /\ project # 0 /\ key[s].version \in Numbered
    BY DEF Growing, TypeOK
  <2>2. ASSUME NEW b \in records', NEW c \in records', b.key.env = c.key.env, b.id < c.id
        PROVE  Before(b.key.version, c.key.version)
    <3>1. PICK d \in records : b = f[d]
      BY <1>1
    <3>2. PICK e \in records : c = f[e]
      BY <1>1
    <3> QED
      BY <2>2, <3>1, <3>2 DEF Growing
  <2>3. ASSUME NEW s \in Run, NEW c \in records', pc'[s] = "proposed", c.key.env = key[s].env
        PROVE  Before(c.key.version, key[s].version)
    <3>1. PICK d \in records : c = f[d]
      BY <1>1
    <3>2. pc[s] = "proposed"
      BY <1>3, <2>3 DEF TypeOK, Early
    <3> QED
      BY <2>3, <3>1, <3>2 DEF Growing
  <2> QED
    BY <2>1, <2>2, <2>3 DEF Growing
<1> QED
  BY <1>2, <1>4, <1>5

\* A run in e never takes what e defines from elsewhere, if e's snapshots are faithful.
LEMMA InheritedKeeps ==
  ASSUME Inv, NEW e, NEW s \in Sources
  PROVE  /\ Inherited(e, s.snapshot, s.from) \in Env \cup {"common", "none"}
         /\ e \in Defines => Inherited(e, s.snapshot, s.from) = e
<1>1. CASE s = [snapshot |-> "none", from |-> "none"]
  BY <1>1, AuditAssumption DEF AuditAssumption, Inherited
<1>2. CASE \E d \in records : s = [snapshot |-> d.domain, from |-> d.key.env]
  BY <1>2, AuditAssumption DEF AuditAssumption, Inv, TypeOK, Record, Snapshots, Inherited
<1> QED
  BY <1>1, <1>2 DEF Sources

\* Setting a run up merges its variables and may store them with its record.
LEMMA SetUpStep ==
  ASSUME Inv, NEW r \in Run, SetUp(r)
  PROVE  Inv'
<1> USE DEF Inv
<1>1. PICK s \in Sources :
        domain' = [domain EXCEPT ![r] = Inherited(key[r].env, s.snapshot, s.from)]
  BY DEF SetUp
<1>2. /\ pc[r] = "saved" /\ pc' = [pc EXCEPT ![r] = "working"]
      /\ UNCHANGED <<columns, project, created, inserted, key, truth, skewed, robbed>>
  BY DEF SetUp, history
<1> DEFINE g == [d \in records |-> IF d.key = key[r] THEN [d EXCEPT !.domain = domain'[r]] ELSE d]
           h == [d \in records |-> d]
<1>3. PICK f \in {g, h} : records' = {f[d] : d \in records}
  BY DEF SetUp
<1>4. /\ domain' \in [Run -> Env \cup {"common", "none"}]
      /\ key[r].env \in Defines => domain'[r] = key[r].env
      /\ \A q \in Run \ {r} : domain'[q] = domain[q]
  BY <1>1, InheritedKeeps DEF TypeOK
<1>5. /\ f \in [records -> Record]
      /\ \A d \in records :
           /\ f[d].id = d.id /\ f[d].key = d.key /\ f[d].run = d.run /\ f[d].status = d.status
           /\ f[d].domain = d.domain \/ (d.key = key[r] /\ f[d].domain = domain'[r])
  BY <1>4 DEF TypeOK, Record
<1> HIDE DEF g, h
<1>6. records' \subseteq Record /\ Owned' /\ Growing'
  BY <1>2, <1>3, <1>5, UpdateKeeps
<1>7. \A c \in records' : \E d \in records : c = f[d]
  BY <1>3
<1>8. TypeOK'
  BY <1>2, <1>4, <1>6 DEF TypeOK, Phase
<1>9. Snapshots'
  <2>1. ASSUME NEW c \in records', c.key.env \in Defines PROVE c.domain \in {"none", c.key.env}
    <3>1. PICK d \in records : c = f[d]
      BY <1>7
    <3> QED
      BY <1>4, <1>5, <2>1, <3>1 DEF Snapshots
  <2>2. TargetVariablesKept'
    BY <1>2, <1>4 DEF TypeOK, Snapshots, TargetVariablesKept
  <2> QED
    BY <2>1, <2>2 DEF Snapshots
<1>10. Attached'
  <2> SUFFICES ASSUME ~robbed, NEW q \in Run PROVE
        /\ pc'[q] \in Active => key[q].project = project /\ project # 0
        /\ pc'[q] \in Active \ {"proposed"} => \E c \in records' : c.run = q
    BY <1>2 DEF Attached
  <2>1. pc'[q] \in Active => pc[q] \in Active
    BY <1>2 DEF TypeOK, Active
  <2>2. ASSUME pc'[q] \in Active \ {"proposed"} PROVE \E c \in records' : c.run = q
    <3>1. pc[q] \in Active \ {"proposed"}
      BY <1>2, <2>2 DEF TypeOK, Active
    <3>2. PICK d \in records : d.run = q
      BY <3>1 DEF Attached
    <3>3. f[d] \in records' /\ f[d].run = q
      BY <1>3, <1>5, <3>2
    <3> QED
      BY <3>3
  <2> QED
    BY <2>1, <2>2 DEF Attached
<1>11. Faithful'
  <2>1. \A q \in Run : pc'[q] = "worked" => truth'[q] \in {"SUCCESS", "FAILED"}
    BY <1>2 DEF TypeOK, Faithful
  <2>2. ASSUME ~robbed, NEW c \in records'
        PROVE  /\ c.status # "RUNNING" <=> pc'[c.run] = "recorded"
               /\ c.status # "RUNNING" => c.status = truth[c.run]
    <3>1. PICK d \in records : c = f[d]
      BY <1>7
    <3>2. pc'[d.run] = "recorded" <=> pc[d.run] = "recorded"
      BY <1>2 DEF TypeOK
    <3> QED
      BY <1>5, <2>2, <3>1, <3>2 DEF Faithful
  <2> QED
    BY <1>2, <2>1, <2>2 DEF Faithful
<1> QED
  BY <1>6, <1>8, <1>9, <1>10, <1>11

\* The handler writes the outcome of a run into the run's record and no other.
LEMMA HandleEventStep ==
  ASSUME Inv, NEW r \in Run, HandleEvent(r)
  PROVE  Inv'
<1> USE DEF Inv
<1> DEFINE g == [d \in records |-> IF d.key = [key[r] EXCEPT !.project = project]
                                   THEN [d EXCEPT !.status = truth[r]] ELSE d]
           h == [d \in records |-> d]
<1>1. PICK p \in {"recorded", "unrecorded"} : pc' = [pc EXCEPT ![r] = p]
  BY DEF HandleEvent
<1>2. /\ pc[r] = "worked"
      /\ UNCHANGED <<columns, project, created, inserted, key, domain, truth, skewed, robbed>>
  BY DEF HandleEvent, history
<1>3. PICK f \in {g, h} : /\ records' = {f[d] : d \in records}
                         /\ f = IF p = "recorded" THEN g ELSE h
  BY <1>1, <1>2 DEF HandleEvent, TypeOK
<1>4. truth[r] \in {"SUCCESS", "FAILED"}
  BY <1>2 DEF Faithful
<1>5. /\ f \in [records -> Record]
      /\ \A d \in records :
           f[d].id = d.id /\ f[d].key = d.key /\ f[d].run = d.run /\ f[d].domain = d.domain
  BY <1>3, <1>4 DEF TypeOK, Record
<1>6. ~robbed => \A d \in records :
        f[d].status = IF p = "recorded" /\ d.run = r THEN truth[r] ELSE d.status
  <2> SUFFICES ASSUME ~robbed, NEW d \in records
               PROVE  f[d].status = IF p = "recorded" /\ d.run = r THEN truth[r] ELSE d.status
    OBVIOUS
  <2>1. [key[r] EXCEPT !.project = project] = key[r]
    BY <1>2 DEF Attached, Active, TypeOK, Key
  <2>2. PICK e \in records : e.run = r
    BY <1>2 DEF Attached, Active
  <2>3. d.key = key[r] <=> d.run = r
    BY <2>2 DEF Owned
  <2> QED
    BY <1>3, <2>1, <2>3 DEF TypeOK, Record
<1> HIDE DEF g, h
<1>7. records' \subseteq Record /\ Owned' /\ Growing'
  BY <1>1, <1>2, <1>3, <1>5, UpdateKeeps
<1>8. \A c \in records' : \E d \in records : c = f[d]
  BY <1>3
<1>9. TypeOK'
  BY <1>1, <1>2, <1>7 DEF TypeOK, Phase
<1>10. Snapshots'
  <2>1. ASSUME NEW c \in records', c.key.env \in Defines PROVE c.domain \in {"none", c.key.env}
    <3>1. PICK d \in records : c = f[d]
      BY <1>8
    <3> QED
      BY <1>5, <2>1, <3>1 DEF Snapshots
  <2>2. TargetVariablesKept'
    BY <1>1, <1>2 DEF TypeOK, Snapshots, TargetVariablesKept
  <2> QED
    BY <2>1, <2>2 DEF Snapshots
<1>11. Attached'
  <2> SUFFICES ASSUME ~robbed, NEW q \in Run, pc'[q] \in Active
               PROVE  /\ key[q].project = project /\ project # 0
                      /\ pc'[q] # "proposed" => \E c \in records' : c.run = q
    BY <1>2 DEF Attached
  <2>1. pc[q] \in Active /\ pc[q] = pc'[q]
    BY <1>1, <1>2 DEF TypeOK, Active
  <2>2. ASSUME pc'[q] # "proposed" PROVE \E c \in records' : c.run = q
    <3>1. PICK d \in records : d.run = q
      BY <2>1, <2>2 DEF Attached
    <3>2. f[d] \in records' /\ f[d].run = q
      BY <1>3, <1>5, <3>1
    <3> QED
      BY <3>2
  <2> QED
    BY <2>1, <2>2 DEF Attached
<1>12. Faithful'
  <2>1. \A q \in Run : pc'[q] = "worked" => truth'[q] \in {"SUCCESS", "FAILED"}
    BY <1>1, <1>2 DEF TypeOK, Faithful
  <2>2. ASSUME ~robbed, NEW c \in records'
        PROVE  /\ c.status # "RUNNING" <=> pc'[c.run] = "recorded"
               /\ c.status # "RUNNING" => c.status = truth[c.run]
    <3>1. PICK d \in records : c = f[d]
      BY <1>8
    <3>2. d.run \in Run
      BY DEF TypeOK, Record
    <3>3. CASE d.run = r
      BY <1>1, <1>2, <1>4, <1>5, <1>6, <2>2, <3>1, <3>2, <3>3 DEF TypeOK, Faithful
    <3>4. CASE d.run # r
      BY <1>1, <1>2, <1>5, <1>6, <2>2, <3>1, <3>2, <3>4 DEF TypeOK, Faithful
    <3> QED
      BY <3>3, <3>4
  <2> QED
    BY <1>2, <2>1, <2>2 DEF Faithful
<1> QED
  BY <1>7, <1>9, <1>10, <1>11, <1>12

\* Every step preserves the invariant.
LEMMA NextInv == Inv /\ [Next]_vars => Inv'
<1> SUFFICES ASSUME Inv, [Next]_vars PROVE Inv'
  OBVIOUS
<1>1. ASSUME NEW r \in Run, Step(r) PROVE Inv'
  BY <1>1, OpenStep, SaveStep, SetUpStep, SetUpFailsStep, WorkStep, HandleEventStep,
     ProposeStep, AskStep DEF Step
<1>2. ASSUME NEW r \in Run, Kill(r) PROVE Inv'
  BY <1>2, KillStep
<1>3. ASSUME LoadProject \/ DeleteProject \/ \E d \in records : DeleteDeployment(d)
      PROVE  Inv'
  BY <1>3, LoadProjectStep, DeleteProjectStep, DeleteDeploymentStep
<1>4. CASE UNCHANGED vars
  BY <1>4 DEF vars, Inv, TypeOK, Owned, Attached, Faithful, Snapshots, TargetVariablesKept, Growing
<1> QED
  BY <1>1, <1>2, <1>3, <1>4 DEF Next

LEMMA AlwaysInv == Spec => []Inv
  BY InitInv, NextInv, PTL DEF Spec

-----------------------------------------------------------------------------
(* Theorems.                                                               *)

\* The variables stay in their types.
THEOREM TypeCorrect == Spec => []TypeOK
<1>1. Inv => TypeOK
  BY DEF Inv
<1> QED
  BY AlwaysInv, <1>1, PTL

\* A record tells the truth about its run, unless it or the project is deleted
\* under a run at work: the handler finds it by project, environment and version.
THEOREM RecordsAreFaithful == Spec => []RecordFaithful
<1>1. Inv => RecordFaithful
  BY DEF Inv, TypeOK, Record, Faithful, RecordFaithful
<1> QED
  BY AlwaysInv, <1>1, PTL

\* What the environment of a run defines is not overridden by any snapshot.
THEOREM TargetVariablesAreKept == Spec => []TargetVariablesKept
<1>1. Inv => TargetVariablesKept
  BY DEF Inv, Snapshots
<1> QED
  BY AlwaysInv, <1>1, PTL

\* A bump proposes a fresh version, for any number of runs and records, as long
\* as versions come from bumps and the look-ups of an environment do not overlap.
THEOREM BumpsAreFresh == Spec => BumpIsFresh
<1>1. Inv /\ [Next]_vars =>
        [\A r \in Run : pc[r] = "open" /\ pc'[r] = "proposed" /\ ~skewed' => Keyed(key'[r]) = {}]_vars
  <2> SUFFICES ASSUME Inv, Next, NEW r \in Run, pc[r] = "open", pc'[r] = "proposed", ~skewed'
               PROVE  Keyed(key'[r]) = {}
    OBVIOUS
  <2>1. \E q \in Run : Step(q)
    BY DEF Next, Kill, LoadProject, DeleteProject, DeleteDeployment, Inv, TypeOK
  <2>2. PICK e \in Env, bump \in {"major", "minor", "patch"} : Propose(r, e, bump)
    <3>1. PICK q \in Run : Step(q)
      BY <2>1
    <3>2. q = r /\ ~\E f \in Env, v \in Explicit : Ask(q, f, v)
      BY <3>1 DEF Step, Open, Save, SetUp, SetUpFails, Work, HandleEvent, Propose, Picks, Ask, Inv, TypeOK
    <3>3. \E e \in Env, bump \in {"major", "minor", "patch"} : Propose(r, e, bump)
      BY <3>1, <3>2 DEF Step, Open, Save, SetUp, SetUpFails, Work, HandleEvent, Inv, TypeOK
    <3> QED
      BY <3>3
  <2>3. PICK v \in Numbered :
          /\ Picks(r, e, v) /\ UNCHANGED skewed
          /\ ~skewed => \A d \in records : d.key.env = e => Before(d.key.version, v)
    BY <2>2, ProposeGrows
  <2>4. key'[r].env = e /\ key'[r].version = v /\ ~skewed
    BY <2>3 DEF Picks, Inv, TypeOK
  <2>5. ~Before(v, v)
    BY BeforeOrders
  <2> QED
    BY <2>3, <2>4, <2>5 DEF Keyed
<1> QED
  BY AlwaysInv, <1>1, PTL DEF Spec, BumpIsFresh
=============================================================================
