# Specifications of go-deploy

go-deploy runs a pipeline of deployment steps (build, then deploy, then a final
list of steps) against hosts and other targets. This directory holds TLA+
specifications of its core, the TLC configurations that check them on small
instances, and TLAPS proofs for all instances. Source paths below are relative
to `src/`.

## The system

| Part | State it keeps | Operations | Talks to |
|---|---|---|---|
| Engine (`internal/engine/engine.go`, `Run`) | `stateMap` (a done channel and an error per step name), the errgroup and `DeployContext` of the phase, `vars`, the rollback list | validate, merge variables, run three phases with one goroutine per step, publish the outcome, roll back | plugins (`Execute`, `Rollback`), event bus, SSH executor |
| DAG validation (`internal/engine/dag.go`) | in-degrees, adjacency, queue | Kahn's sort per phase | called by `Run`, `RunDestroy` |
| Parallel execution (`internal/core/parallel.go`, `context.go`) | semaphore, failure counter, blacklist of dead targets | `RunParallel`, `MarkDead`, `FilterHealthy` | plugin functions per target |
| Event bus (`internal/bus/eventbus.go`) | buffered stream, handlers, stop channel | `Register`, `Start`, `Publish`, `Stop` | engine and plugins publish; TUI, log file and store handle |
| Store (`internal/store`) | SQLite tables of projects and deployments | open and migrate, version bump, save, snapshot of variables, `HandleEvent` | registered on the bus; used by the CLI before and after a run |
| TUI (`internal/tui`) | event buffer, model, approval flag | batching, key handling, drawing | handler on the bus, `ApprovalInputChan` to manual_approval, cancels `Run` |
| manual_approval | a timeout | wait for y/n | TUI, context |
| SSH pool (`pkg/sshutil`) | connections by host | get or dial, keep-alive, close | every plugin that runs a remote command |
| Destroy (`RunDestroy`) | position in the reversed order | `Uninstall` per step | plugins, bus |
| Configuration plugins (nginx, systemd, docker, compose) and backup_state | files and backups on the host, rollback data | save, write, test, reload, roll back, uninstall | SSH executor |
| Release plugins (transfer, symlink_switch, release_pruner) | release directories and the live link on the host | upload, switch, prune | SSH executor |
| DNS plugin | records at the provider | reconcile, delete | Aliyun, Cloudflare |
| Check plugins (http, docker, systemd) | attempts and deadline | poll | targets |
| Parser and expander (`internal/config`) | the includes met in a phase | load YAML, expand includes, rewire needs | hand the pipeline to the DAG validation |
| Templates | none | render variables | engine set-up |

The hard behaviour is where these meet. In the engine, goroutines wait for each
other's done channels while one shared context may be cancelled at any moment,
errors reach the run by two ways (the done channel and the errgroup), and a
rollback takes back what is left. Around it are a semaphore with early exits, a
bus that must neither lose an event nor hang while it is being stopped, a pool
locked over network calls, a terminal whose answer may come when nobody waits any
more, several processes on one database, and hosts and a DNS zone that are changed
by one command after the other, any of which may fail, lose its answer or be the
last one before the program dies. `PROJECT.json` lists the
hazards one by one, with the property that covers each.

What makes each part correct:

- engine: no step before its needs; nothing after a broken phase; the outcome
  tells the truth and comes after the last goroutine; the rollback takes back
  exactly the settled steps, dependents first; `Run` returns.
- DAG: exactly the well formed phases are accepted, in topological order.
- parallel: no slot leaks, the batch size holds, a target is given up only after
  its retries, the answer agrees with the tolerance, the call returns.
- bus: every handler gets every event once and in order, `Stop` drains what was
  published before it, handlers are closed last, nobody hangs.
- expander: what needs an include waits for all of its template.
- store: a bumped version is new, a record says what is true of its run, a
  promotion keeps the variables of its target.
- approval: a key counts for one gate, every gate ends, the screen is true.
- SSH pool: what works is not closed, what is open is accounted for, commands end.
- configuration plugins: success means the new configuration runs; what was there
  is not lost by a first attempt; an uninstall leaves no file and stops what it can
  still find.
- release plugins: the live link points to a complete release, pruning spares it.
- DNS: a successful update covers every wanted address and touches only wrong records.
- destroy: a step outlives what needs it; completion means that every step was
  uninstalled, to a nil answer.

## Modules

| Module | Models |
|---|---|
| `DeploymentSaga` | what a run promises: steps settle or break after their upstream, one verdict, undoing dependents first |
| `PipelineEngine` | `Engine.Run`; implements `DeploymentSaga` |
| `MCPipelineEngine` | two pipelines: `Fork`, `WideStep` |
| `DagSort` | `ValidateDAG` / `validateDAGSteps` |
| `IncludeExpander`, `MCDagSort` | `ExpandPipeline`, whose pipelines `DagSort` sorts; templates and pipelines to expand |
| `RunParallel`, `MCRunParallel` | `ParseParallelOptions` and one call of `RunParallel`, and option sets |
| `EventBus` | the bus with its publishers and stoppers |
| `SshPool` | the connection pool with the users of its executor, the keep-alive loop and `Close` |
| `ReleaseDirectory` | one host's release directories and live link under `transfer`, `symlink_switch` and `release_pruner` |
| `ConfigPush` | one host under `nginx_config`, `systemd_service`, `docker_container`, `docker_compose`, `backup_state` |
| `DnsRecords` | the plugin `dns_record` with both providers, and the zone |
| `Destroy`, `MCDestroy` | `RunDestroy`, composed with `DnsRecords`; a pipeline of four steps, three addresses, four records |
| `AuditTrail`, `MCAuditTrail` | the SQLite store and the runs of several processes that write it |
| `ApprovalConsole` | `manual_approval`, the TUI's event handler and model, the keys |
| `PipelineEngineProofs` | invariants of `PipelineEngine`; its rollback is complete and it implements the saga |
| `DestroyProofs` | `Destroy` with `DnsRecords`, and the sort and the expansion whose order it walks: `DagSort`, `IncludeExpander` |
| `EventBusProofs` | `EventBus`, and `ApprovalConsole`, which hangs on it |
| `RunParallelProofs`, `SshPoolProofs`, `ReleaseDirectoryProofs`, `ConfigPushProofs`, `AuditTrailProofs` | invariants and action properties of those modules |

### PipelineEngine

A step is a *position* of the pipeline, with its name, phase, needs and targets as constants;
names are what `stateMap` is keyed by. `plan` is `stepsToRun`, any topological order of the
steps selected (`SkipBuild` or not). `DagSort` is where the real sort is proved to give one,
phase by phase (`AcceptedIsInOrder`), and `PipelineAssumption` is what it guarantees.
`result[n]` is the entry of `stateMap`: `open` until its done channel is closed, then `ok` or
`err`. `status[s]` is how far the goroutine of `s` is; `returned`, `groupErr` and `egDone` are
the errgroup of the current phase; `dead` and `saved` are the two parts of the current
`DeployContext` that matter.

`Run` is `SetUp`/`AbortSetUp`, then per phase `SkipPhase` or `StartPhase` and
`EndPhase`, then `EndLoop`, `Report`, and for a failed run `RollBack`/`PassOver`
down the plan to `EndRollback`. A goroutine is `NeedMet`* or `NeedFailed` or
`Abandon` (the select with the cancelled group), then `UnknownType`,
`SkipByRunIf`, `ResolveFails` or `Begin`, and after `Execute` `Succeed` or `Fail`;
`Return` is the return to the errgroup. `Execute` is abstract: it succeeds or
fails, may mark targets dead meanwhile, and may save rollback data. Reading a
need's channel and then its error is one step: the error is written before the
channel is closed and never again in that phase. `Rollback` is given the entry of
`nameToStep`, which is the step itself as long as names are unique.

Left out: template rendering and the values of variables, the wording of
events, DryRun (plugins' concern), the contents of snapshots. The goroutines of
other events (log lines) are the bus's publishers.

### RunParallel

One call, over the targets `FilterHealthy` left. `task[t]` follows the goroutine
of `t`: queued, calling fn, in the retry delay, exhausted, marked, counted, then
its verdict, which the deferred release of the semaphore precedes, and the return
to the errgroup. Tolerances are in hundredths; percentages are floored over
integers (the code uses float64). fn succeeds or fails at will; a call cut short
by cancellation is a failure. Retries and batch sizes are natural numbers.

### EventBus

The channel is the history of accepted events and how many were taken. A
publisher inside `Publish` may enqueue when there is room and may discard once
stopped (both: either). The dispatcher copies the handler list per event and
calls them in order; on stop it drains. Each stopper closes the channel once,
waits, copies the handlers and closes them. `Start` is called once, before any
`Stop`, as the CLI does.

### SshPool

A pool entry is a connection, since every insertion makes a new entry for a newly
dialled one. The mutex is held over the lookup with its probe (`Hit`, then
`Reuse` or `Evict`), not over `Dial`, and taken again for `Insert`. `Call` and
`Finish` are `Executor.Run` around it; `PutFile` and `PutStream` use the pool the
same way. The keep-alive loop picks candidates (`Sweep`), probes them without the
mutex and drops an invalid one only if it is still the host's entry (`Drop`).
Connections fall silent or break at any time. Times of last use are left out:
any entry may be a candidate. The bastion hop, SFTP and a pool without
keep-alive are left out. `Conn` bounds the number of dials.

### ReleaseDirectory

`at` is the next SSH command of the deployment on one host. `Then(next)` is a
command that did its work and whose answer arrives or is lost; `CommandFails` is
one that did nothing. A step starts over from `StepStart` while retries are left.
Where the code ignores an error the model takes both ways: `TestLink` and
`Readlink` may take a command that could not be run for "no", `Remove` may leave
anything. `Kill` ends the program anywhere; the next `Apply` finds what is left.
Versions are numbers in their semantic order. Left out: the content of releases
(two uploads of one version are alike), the archive in `/tmp`, owners, and
tolerated failures, which would let a deployment succeed without its only host.

### DagSort and IncludeExpander

`IncludeExpander` walks the pipeline as it is written (`source`) phase by phase and
appends to `pipeline` what each step becomes: itself with its needs rewired
(`ExpandStep`), or the steps of its template under qualified names
(`ExpandInclude`). `includeLeaves` is the map of that name; it starts empty in each
phase. `Unreadable` stands for a template that is not named, not found or does not
parse. At the end `DagSort` takes over: the loops of `validateDAGSteps` step by
step: the scan of the needs, the seeding of the queue in any order (a map is ranged
over), one edge relaxed at a time, and the comparison of the counts at the end.
`StepNamed` keeps the last of two steps with one name, as the map does. `NamesApart`
is a premise on the input that the code does not look at: the names it makes, like
`db.start`, are not at the same time names of steps as written or of another
include's steps. With such a clash a need may be met by the wrong step. Left out:
YAML, the replacement of `${vars.x}` in templates, and the infrastructure file.

### ConfigPush

An operation is a script, a sequence of commands (`todo`) over SSH; `op` says
whether it is Execute or Uninstall, and each command is an action named for it.
`Checked` is a command whose error ends the attempt: it may do nothing, half or all
of its work and still fail, and RunParallel starts the script again while retries are
left. `Unchecked` is one whose error the code drops (`_, _, _, _ = exec.Run`), which
is how the original is saved, a backup removed and every uninstall done. A host is
three places: the file (for a container, the name), the saved copy and what the
daemon runs. `had` is `hadOriginal` (or a non-empty `OldImage`). `Overwrite` is a
later step that writes into the directory `backup_state` saved. `Rollback` changes
nothing: the five plugins return at once when `GetRollbackData` finds no entry, and
`Engine.Run` hands them a context in which there never is one (see
`EngineRollbackData`); the commands behind that return are not modelled.

Two history variables carry the premises. `blind` notes that a command whose error is
dropped did not do its work, since Execute began or, from its start, since Uninstall
did; a kill does not set it. `found` is the file that the last Uninstall met. An
Uninstall stops what runs only where it still finds what it needs (`Stoppable`): nginx
is reloaded only if the file was there, and `docker compose down` has to read its
file (whether it manages with a torn or refused one is left open). Left out:
rendering, ports and volumes, `.env` apart from the compose file (one without the
other is "torn"), several hosts at once (they share nothing but `RunParallel`).

### DnsRecords and Destroy

`zone` maps record ids to contents: an address for the step's own name, "other" for a
name that Aliyun's keyword search returns too, or "none". `at` is where the plugin is:
it lists once, then makes one API call per change (`DeleteWrong`, `Repurpose`, `Add`,
`Purge`), by id, whatever the record holds by then; a call may be refused, or done
with its answer lost, and the first error ends the plugin. `Foreign` adds, removes,
renames or edits a record in place between any two calls, and `foreign` holds the
records so touched since the listing. `Listing` is one page at Aliyun, all records at
Cloudflare; a purge at Cloudflare deletes while it pages, so beyond the first page it
may miss any. An update's listing at Cloudflare counts as one moment, although
others may edit between its pages; records with an empty content, which both listings
of an update pass over, are left out.

`Destroy` walks `Order` backwards. `Skip` is an unknown type or a false `run_if`,
`Unresolved` the return on roles that do not resolve, `UninstallStep` a step on
hosts, and `EnterDns`/`LeaveDns` enclose the plugin's own steps, so that the zone
moves between them. `Start` may follow any earlier destroy, with or without
`DryRun` and `FullPurge`; `Deploy` runs the dns_record step of a deployment, any
number of times before the first destroy. A nil answer of an `Uninstall` is worth
little: nginx, systemd, docker, compose, transfer and symlink drop the errors of their
commands, so `deployed` may or may not lose the step. `Strict` are the steps whose
answer can be trusted, `remote_command` with an `uninstall_cmd`; they run their command
for real in a dry run too. Left out: tolerated failures in a destroy, which exclude a
host from all steps still to come.

### AuditTrail

`records` is the table of deployments of one project name, `columns` what a database of this or
an earlier release has. A run is a process: `Open`, then `Propose` (the version after the
newest record's) or `Ask` (a version given), `Save` (the INSERT, which the unique index may
refuse), `SetUp` (variables merged with a snapshot and stored) or `SetUpFails` (an early
return), `Work`, and `HandleEvent` (the outcome event at the store). `Kill` ends it anywhere;
`DeleteProject` and `DeleteDeployment` are other commands. Of all variables of a run the model
keeps one, "domain", and of its value only the environment it comes from; a variable given on
the command line, which overrides everything by intent, is not that one. `skewed` and `robbed`
are history: versions given by name, deletions or overlapping look-ups; and records deleted
under a run at work. `Latest` orders by id; the query orders by `started_at` before, which is
the same unless the clock is set back. Left out: the global infrastructure's row, listings,
messages, durations, and log lines (the store ignores them).

### ApprovalConsole

A worker step runs before the gates. `StartStep`, `Finish` and `WorkerLogs` publish through
`HandleEvent`, which drops an event when its buffer is full. `Tick` sends the buffer as a batch
and drops it when the channel is full; `CloseBegins`, `LastFlush`, `CloseEnds` are `Close`.
`ApplyEvents` is the model's `applyEvents` over a batch, `Key` and `Quit` its keys. A gate
`Ask`s, then `TakeKey`s from `ApprovalInputChan` or reads a `Line` of standard input in a
goroutine of its own (`readers`) that outlives a gate that `Expire`d. `GiveUp` is a gate whose
need has failed or that sees the cancelled context; a select may also start it all the same,
and the worker, which needs nothing, never looks. The channel has room for one key or none.
Left out: the log lines of a rollback, which come before `Close`, scrolling, layout, durations,
progress bars and `view.go`.

## Runs

| Run | Instance | Shows |
|---|---|---|
| `EngineRun` | build y, z, j; deploy d1, then d2 and d3; final f; two targets; y of unknown type, z unresolvable and conditional, d1 conditional | safety of the engine, refinement of the saga, `Run` returns, a failure is reported (36 thousand states) |
| `DagSort` | every three-step phase over names a, b, c (first step called a), repeated needs, needs across phases; three steps any of which includes a chain, a fork, an empty or a cyclic template | what is accepted is sorted as written; exactly those whose needs lie in their own phase and can be ordered are accepted (210 thousand states) |
| `DagAcrossPhases` | a build step and a deploy step that needs it | a disagreement, see below |
| `ParallelRun` | three targets; unlimited, batch of 2, rolling; default, percentage and absolute tolerance | safety and return (27 thousand states) |
| `EventBus` | two publishers, handlers, stoppers; buffer of one, three publishes | order, nothing lost, `Stop` returns (213 thousand states) |
| `SshPool` | two users, two hosts, two dials | what works stays open, what is open is accounted for, commands end (95 thousand states) |
| `ReleaseDirectory` | three versions in any order, keep one, one retry | live stays complete, success is live, the newest are kept (5.5 thousand states) |
| `ConfigPush` | the five plugins, valid and invalid configurations, stale backups, one retry | success means live, the original survives, an uninstall removes what it can find, operations end (73 thousand states) |
| `Destroy` | four steps of which one is strict, three addresses and four records, each interchangeable, a page of two | the plugin covers and touches only what it may, the walk respects needs, completion is true (335 thousand states) |
| `AuditTrail` | two interchangeable runs, two environments of which one defines the variable, three bumps, two versions asked for, two projects | records are faithful, target variables kept, bumps fresh (583 thousand states) |
| `ApprovalConsole` | a worker and two gates, a buffer of two events, one batch under way, one log line | keys, the closed channel, the screen, gates end (901 thousand states) |
| `EngineRollbackData` | the pipeline `Fork`: build b, deploy d1, d2, d3, final f, none conditional | a disagreement, see below |

The bounds are small because the hazards need few actors: a fork and a join contain every pair
of a step that breaks and one that waits, runs or is done; three targets make a tolerance of
one differ from none and from all, and a batch of two leave one in the queue; a buffer of one
with two publishers has one that waits; two dials let an entry be replaced while a sweep or
another lookup still holds the old one. One retry is enough for an attempt that meets what an
earlier one left; a page of two of four records misses some; two runs overlap in every way two
can; two gates are what one key too many needs. A chain and a fork as templates have a last
step that is not the first and two last steps. Bounds on behaviours are `MaxEvents`, the number
of connections, `Projects`, `Logs`, and the number of runs, retries and versions; everything
else ends by itself. `CHECK_DEADLOCK FALSE` is set where the system may rest for good: a bus
nobody publishes to or stops (`EventBus`), a host after its last operation (`ConfigPush`), a
store whose runs are over (`AuditTrail`), a console whose steps ended (`ApprovalConsole`).
Targets are not declared symmetric in runs with liveness; the runs of `AuditTrail` and the
addresses and records of `Destroy` are, which have none. The pipeline of `EngineRun` has a
build phase that fails unless it is skipped, so the rollbacks TLC sees cross two phases; the
proofs are about all three.

Fairness: `Run`'s own code and every goroutine that can go on is scheduled (Go's
scheduler), plugins' `Execute` and `Rollback`, handlers and fn return (the code
waits for them without limit), and the owner of the bus starts it. In `SshPool`
fairness is strong where a mutex is awaited (Go's mutexes do not starve) and for
the loop's exit (`select` chooses at random between the tick and the stop), and
a silent connection is broken in the end by TCP's keep-alive: without that, one
silent peer holds the pool's mutex and everybody with it. In `ConfigPush` commands
return; in `ApprovalConsole` goroutines run and timers fire, while nobody has to
type and the terminal may hang. `DagSort`, `ReleaseDirectory`, `Destroy` and
`AuditTrail` state safety only. Nothing makes anyone cancel, publish, stop,
register, skip or fail.

### What the code does otherwise than it says

By a run:

- `EngineRollbackData`: `context.go:38` has Rollback read what Execute saved; the
  rollback runs in a new context (`engine.go:613`). In the trace `d1` has executed and
  saved its data, another step fails, and the Rollback of `d1` finds none. Hence the
  rollback of every plugin that needs such data does nothing.
- `DagAcrossPhases`: `engine_test.go:700-716` gives a deploy step a need on a build step
  and expects the pipeline to run; each phase is sorted by itself (`dag.go:52`) and the
  need is refused as unknown.

Seen while modelling, in the models as the code has it, without a run of its own:

- `engine.go:471` against `:611`: a later phase that uses a step name again
  overwrites the state, and the completed step is not rolled back.
- `engine.go:522` with `:618`: a step skipped by `run_if` closes its done channel without
  an error and is rolled back with the steps that executed.
- `pool.go:82` against `:22` and `:142`: of two users that dial one host at once, the
  connection inserted first is displaced and never closed.
- `symlink_switch.go:79` against the command table in the repository's README
  (`README.md:167`): the switch is not atomic; a link to a directory passes
  `test -d`, is removed, and is missing until `ln` has run.
- `context.go:175`: each phase starts with an empty blacklist of dead targets.
- `parallel.go:22`: a tolerance of 100% or more becomes a count.
- `engine.go:420` against `:304-305` and `:380`: the snapshot is taken after the
  run's own `run_temp_dir`, version and environment are set, so a later run that
  inherits it gets those of the earlier run.
- `schema.go:37` against `store.go:142`: the schema indexes `env_name` before the
  migration that adds it; a database of before that column never opens, although
  the migration is there for it.
- `store.go:83`: the foreign-key pragma applies to one connection of the pool.
- `store.go:420`: RUNNING records are included so that versions do not repeat; two
  runs that both propose before either inserts still get the same one, and the
  unique index refuses the second.
- `model.go:337-350` with `engine.go:520`: a step skipped by `run_if` is shown as
  running, since no case of `statusFromMessage` is for it.
- `dns_record.go:192`: a dry-run destroy with `--full` deletes the records; and
  `remote_command.go:60` makes a real SSH executor where the context has none of that
  type, so a dry run also runs every `uninstall_cmd`.
- `nginx_config.go:307-311`, `systemd_service.go:275-278`, `docker_container.go:257`,
  `docker_compose.go:330-333`, `transfer.go:285` and `symlink_switch.go:164` drop the
  errors of their uninstall, so "Destroy completed" does not say that anything is gone;
  and `engine.go:824` leaves a host out of every further uninstall once a tolerated
  failure has marked it dead.
- `docker_compose.go:329`: `docker compose down` is masked with `|| true` and the
  directory is removed afterwards, so where it fails the containers stay.
- `nginx_config.go:301-305`: an uninstall repeated after the file is removed returns
  before the reload, and nginx goes on with what it had.
- `nginx_config.go:197` (and its like in systemd and compose): a retry saves the pushed
  file over the backup of the original.
- `cloudflare.go:68` says that records that do not match are updated; where there are
  more of them than addresses without a record, the rest stays as it is.
- `cloudflare.go:207`: a purge deletes while it pages; the records that move up from the
  next page are not seen.
- `aliyun.go:90`, `cloudflare.go:144`: calls go by record id, so a record that someone
  edits in place after the listing, even to a wanted address, is deleted or overwritten.
- `model.go:186` with `manual_approval.go:90`: a key typed for a gate that ends by its
  timeout at that moment approves the gate that comes next, shown or not.
- `parallel.go:73`: over targets that are all dead already a call does nothing and
  succeeds.
- `client.go:80`: the client of a bastion is not kept and never closed.
- `engine.go:821`: `RunDestroy` returns without stopping its bus.
- `docker_container.go:200`: a rollback, if it had its data, would run the old image with
  the new container's ports and volumes; `docker_compose.go:376` would leave the new
  `.env` where there was none.
- `expander.go:150`: an include of an empty template has no leaves, so what needs it
  no longer waits for what the include needs; and an include may be needed only by
  steps written after it, earlier ones are refused with an unknown dependency.

## Proofs

For any pipeline satisfying `PipelineAssumption`, any targets and options, any
capacity and any number of publishers, handlers and stoppers:

- `PipelineEngineProofs`: `TypeCorrect`, `OrderRespected`, `BrokenStops`,
  `EndIsQuiescent`, `OutcomeIsFaithful`, `DeadAreExcluded`, `RollbackIsReversed`.
  The properties are not inductive. `Inv` adds: the plan is ordered by phase and
  need (`PlanOrdered`); which statuses are possible in the phases before, at and
  after the current one (`PhaseShape`), which is what makes "a later phase is
  idle" and "the report is quiescent" carry over a step; the group's error agrees
  with the statuses and returns (`ErrorAgrees`); the needs a goroutine has passed
  are settled (`NeedProgress`); what was killed in this phase is in the blacklist
  (`DeadAgrees`); the steps undone are those of the plan after the cursor
  (`RollbackOrder`).
  With step names unique over the phases (`UniqueNames`, without which the state map
  mixes two steps up), the names the rollback takes for succeeded are exactly those
  of the settled steps, hence `RollbackIsComplete`, and every step of
  `PipelineEngine` is a step of the saga or a stutter (`Refinement`).
- `RunParallelProofs`: `Inv` has the semaphore count its holders, the calls of fn
  by task state (`Attempts`), where each target went (`Fates`) and what the
  failure counter and the values read from it say (`Counter`): the last failure
  counted has read the final count, so if it passed, all of them did.
- `EventBusProofs`: `Inv` relates what was taken, the handlers still pending and
  the calls each handler got, and the number of events owed at `Stop`.
- `SshPoolProofs`: `Inv` adds that a prober holds the mutex (so the entry it looks
  at stays), that a dialled connection is unknown to others until it is inserted,
  and that what the loop is about to drop is dead for good.
- `ReleaseDirectoryProofs`: `Inv` carries what one command leaves to the next: the
  directory is complete from the end of `tar` to the switch, the version is live
  from the switch on, and a pruner that has read the link spares its target.
  `NewestStay` counts: what is doomed has `Keep` newer directories that are not
  (`Outnumbered`), since the list to keep is the newest ones (`NewestOutnumber`) and
  nothing but what is doomed is removed (`OnlyDoomedGo`).
- `ConfigPushProofs`: for every number of retries, `Inv` says which script runs and
  how far it is (`Course`), and per plugin what the file, the saved copy, the daemon
  and `had` are at each of its commands (`NginxPlaces` to `BackupPlaces`), whatever
  earlier attempts left half done. From it: success means the new configuration runs
  (`SuccessIsLive`); until a retry starts and while no dropped error hid a loss, the
  original is in its place or saved (`OriginalIsKept`); and an uninstall whose commands
  did their work leaves no file, and nothing running that it could still find
  (`UninstallIsClean`).
- `AuditTrailProofs`: `Inv` says which records belong to which run (`Owned`: one
  record per key; `Attached`: an active run's record is there unless it was
  deleted), that a record agrees with its run (`Faithful`), that no snapshot of an
  environment that defines the variable has another origin (`Snapshots`), and that
  without overlapping look-ups and deletions versions grow with the ids of an
  environment (`Growing`), which makes a bump of the newest record a new version.
- `DestroyProofs`: `Inv` relates the position of the walk to the fate of the steps
  (`Walk`, `Removed`), says who may act (`Turns`: the plugin only within its step),
  that what is doomed is own and unwanted unless someone touched it since the listing
  (`Sorted`), and what the plugin knows at each point (`Informed`: what it counts as
  there is in the zone, and what it does not know of is not, unless someone else edited
  it). `CompletionIsTrue` is about answers: every step's Uninstall answered nil or may
  be skipped; only of the `Strict` steps and of the zone does it say that they are gone.
- `DestroyProofs`, of `DagSort`: for any three phases of any length, `DagInv` is the
  argument for Kahn's algorithm. `adj` has the needs that were scanned and no others
  (`AdjIsNeeds`); `inDegree[n]` is the number of entries of `adj` for n that the sort
  has not passed (`DegreeIsPending`), those of the name just taken being passed one by
  one (`EdgesAreSuffix`); order and queue list names once, and none twice over
  (`QueueIsSet`); a name is in one of them when and only when nothing is pending for
  it (`QueuedIffFree`), so what is placed has its needs before it (`NeedsFirst`), and a
  full order rules out repeated names and cycles. Of what is left out when the order
  is short, every name waits for another, or a name is there twice: the phase is not
  well formed. Hence `AcceptedIffWellFormed` and `AcceptedIsInOrder`.
- `DestroyProofs`, of `IncludeExpander`: for any templates and any pipeline,
  `ExpandInv` says that the leaves of every include behind the expansion are known
  (`LeavesKnown`), that each step behind it has been made in full (`Made`: a step with
  its needs, the leaves put in the place of an include; a template's steps with the
  needs of the template, and those without needs with the needs of the include), that
  nothing else was made (`FromSource`), and, once the sort has begun, `DagInv`. Of an
  accepted phase, `Upstream` is closed and goes down in the order (`UpstreamFacts`,
  by counting the rounds: a name new in round k is at least k + 1 places before). Every
  step of an include has, upstream or as itself, one that took over the include's
  needs (`EntryUpstream`: the first in the order), and is, or is upstream of, a leaf
  (`LeafDownstream`: the last in the order); needs join leaves to such entries, which
  gives `ExpansionKeepsOrder`, under `NamesApart`.
- `EventBusProofs`, of `ApprovalConsole`: `ConsoleInv` says that nobody sends once
  the channels are closed (`SendsBeforeClose`, `Quiescent`), that a gate asks once
  (`AskedOnce`) and the keys taken and waiting are no more than the gates shown
  (`KeysCounted`), and that what the screen does not show yet is still on its way:
  the event that ends a step is its last (`LastEventEnds`), a step shown as ended is
  (`ShownEndIsEnd`), and unless an event or a batch was dropped, the end of a step
  and the error of a target are shown or in `Batches`, the batches in the channel
  with the buffer behind them (`NothingLost`). What a whole batch does to the model
  is followed event by event.

The assumptions are those named in the modules. `DestroyAssumption` takes names to
be unique over the phases and the order to respect needs; within a phase that is
what `AcceptedIsInOrder` and `AcceptedIffWellFormed` say of the sort.

Proved and not among the runs' properties: the type invariants, that a broken phase
stops the run, that the end is quiescent, that the rollback is reversed
(`PipelineEngineProofs`), that handlers are closed after the last event and nothing
is discarded while the bus runs (`EventBusProofs`), that slots are accounted for
(`RunParallelProofs`), and that what the pool offers is open (`SshPoolProofs`).

Every safety invariant and action property of the passing runs is proved. Only
model-checked: liveness (`Terminates`, `FailureReported`, `Returns`, `StopReturns`,
`CommandsEnd`, `PushEnds`, `GatesEnd`), which is out of the prover's reach. Where a
definition is recursive (the flattening of sequences, `Upstream`, a batch of
events), the proof takes the function's defining equation and goes along it by the
least number for which the claim would fail (`Least`, `UpTo`).

## Not modelled

- Check plugins: they poll one target until a deadline and change nothing; to a run a
  failed check is a step that fails, which `PipelineEngine` has.
- Command and archive plugins: one external command or one file each, whose state is
  outside the program.
- Templates and `maputil`, the event log writer, `view.go`: functions of their
  arguments, without state and without an order of steps.
- YAML parsing and the two formats of the infrastructure file: data, not control.
- What the Rollbacks of the configuration plugins and `backup_state` would do with
  their data: the program never hands it to them.
- The `Uninstall` of the release plugins, as commands: `rm -rf`, `rm -f` and nothing;
  `Destroy` has them as the uninstall of a step.
- The bastion hop, SFTP, and a pool without keep-alive in `SshPool`.
- Values of variables in the engine, hence the data race on the vars map
  (`engine.go:466`), and the float64 rounding of tolerances.
- Samples: example applications.

Next in the plan: several hosts under one push, with the release and configuration
steps of one pipeline in order; a statement that joins the three phases of an accepted
pipeline to `PipelineAssumption`, which is now a comparison by the reader.
