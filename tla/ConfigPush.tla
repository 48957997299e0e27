------------------------------ MODULE ConfigPush ------------------------------
(***************************************************************************)
(* What the plugins nginx_config, systemd_service, docker_container,       *)
(* docker_compose and backup_state do to one host: Execute with its retries, *)
(* then Rollback and Uninstall, command by command over SSH.               *)
(*                                                                         *)
(* Each operation is a script of commands.  Most return their error; some, *)
(* among them the saving of the original, are never looked at.  A command  *)
(* may fail half way, its answer may be lost, and the program may be killed *)
(* between any two.                                                        *)
(***************************************************************************)
EXTENDS Naturals, Sequences

CONSTANTS
  Plugin,    \* among "nginx", "systemd", "container", "compose", "backup"
  Retries    \* retries of the step

ASSUME ConfigPushAssumption ==
  /\ Plugin \subseteq {"nginx", "systemd", "container", "compose", "backup"}
  /\ Retries \in Nat

VARIABLES
  plugin,    \* the plugin of the step
  good,      \* the pushed configuration is one the daemon accepts
  host,      \* file: at the path (for a container: under the name);
             \* backup: the saved one; live: what the daemon runs.  Each is "none",
             \* "old" (there before), "new" (pushed), "stale" (saved by an earlier
             \* deployment) or "torn" (a half of something, or for docker_compose one
             \* of its two files without the other)
  orig,      \* host before Execute
  had,       \* hadOriginal, or a container's OldImage is not empty
  op,        \* the operation that runs, or has just ended
  todo,      \* the commands it has left
  attempt,   \* retries used up by Execute
  found,     \* history: host.file when the last Uninstall began, or "never"
  blind,     \* history: since Execute began, or since Uninstall did, a command whose
             \* error is ignored did not do its work
  outcome    \* of Execute on this host

vars == <<plugin, good, host, orig, had, op, todo, attempt, found, blind, outcome>>
setting == <<plugin, good, orig>>
result == <<found, outcome>>

Valid(content) == content # "torn" /\ (content = "new" => good)

-----------------------------------------------------------------------------
(* The scripts of Execute.                                                 *)

\* Mutant of NginxExecute: the original is saved after it is overwritten.
NginxExecuteSaveLate == <<"forget", "write", "probe", "save", "test", "reload">>

NginxExecute == <<"forget", "probe", "save", "write", "test", "reload">>

\* With daemon_reload, enable and restart at their default, true.
SystemdExecute == <<"stage", "probe", "save", "move", "daemonReload", "enable", "restart">>

ContainerExecute == <<"inspect", "pull", "stop", "rm", "run">>

\* The compose file and .env are written and saved as one.
ComposeExecute == <<"mkdir", "probe", "save", "write", "pull", "up">>

BackupExecute == <<"mkdir", "probeDir", "tar">>

ExecuteScript ==
  CASE plugin = "nginx" -> NginxExecute
    [] plugin = "systemd" -> SystemdExecute
    [] plugin = "container" -> ContainerExecute
    [] plugin = "compose" -> ComposeExecute
    [] plugin = "backup" -> BackupExecute

(* The scripts of Uninstall: no error of theirs is returned.               *)

\* Mutant of NginxUninstall: nginx is reloaded before the file is removed.
NginxUninstallReloadEarly == <<"probeGone", "reloadQuietly", "delete">>

NginxUninstall == <<"probeGone", "delete", "reloadQuietly">>

SystemdUninstall == <<"stop", "disable", "delete">>

ContainerUninstall == <<"rmForced">>

ComposeUninstall == <<"down", "delete">>

BackupUninstall == <<>>

UninstallScript ==
  CASE plugin = "nginx" -> NginxUninstall
    [] plugin = "systemd" -> SystemdUninstall
    [] plugin = "container" -> ContainerUninstall
    [] plugin = "compose" -> ComposeUninstall
    [] plugin = "backup" -> BackupUninstall

-----------------------------------------------------------------------------
Init ==
  /\ plugin \in Plugin
  /\ good \in BOOLEAN
  /\ \E file \in {"none", "old"}, saved \in {"none", "stale"} :
       \E live \in IF plugin = "backup" THEN {"none"} ELSE {"none", file} :
         host = [file |-> file, backup |-> IF plugin = "container" THEN "none" ELSE saved,
                 live |-> live]
  /\ orig = host
  /\ had = FALSE
  /\ op = "none"
  /\ todo = <<>>
  /\ attempt = 0
  /\ found = "never"
  /\ blind = FALSE
  /\ outcome = "none"

\* Options, template and targets are looked at before any host is touched.
Execute ==
  /\ op = "none"
  /\ \/ /\ op' = "execute"
        /\ todo' = ExecuteScript
        /\ UNCHANGED outcome
     \/ /\ op' = "executed"
        /\ outcome' = "failed"
        /\ UNCHANGED todo
  /\ UNCHANGED <<setting, host, had, attempt, found, blind>>

\* Mutant of RetryOrGiveUp: retries are not counted.
RetryForEver ==
  /\ todo' = ExecuteScript
  /\ UNCHANGED <<setting, had, op, attempt, blind, result>>

\* RunParallel runs the function of the host again from its start.
RetryOrGiveUp ==
  /\ IF attempt < Retries
     THEN /\ attempt' = attempt + 1
          /\ todo' = ExecuteScript
          /\ UNCHANGED <<op, outcome>>
     ELSE /\ todo' = <<>>
          /\ op' = "executed"
          /\ outcome' = "failed"
          /\ UNCHANGED attempt
  /\ UNCHANGED <<setting, had, blind, found>>

\* Mutant of Checked: the error of a command is not looked at.
CheckedLoosely(done, halfway) ==
  /\ host' \in done \cup halfway \cup {host}
  /\ todo' = Tail(todo)
  /\ UNCHANGED <<setting, had, op, attempt, blind, result>>

\* A command whose error ends the attempt.  On success the host is in one of
\* the states done; otherwise the command was not run, was run in full or failed
\* half way.
Checked(done, halfway) ==
  \/ /\ host' \in done
     /\ todo' = Tail(todo)
     /\ UNCHANGED <<setting, had, op, attempt, blind, result>>
  \/ /\ host' \in done \cup halfway \cup {host}
     /\ RetryOrGiveUp

\* A command whose error nobody looks at.
Unchecked(done, halfway) ==
  /\ \/ host' \in done /\ UNCHANGED blind
     \/ host' \in halfway \cup {host} /\ blind' = TRUE
  /\ todo' = Tail(todo)
  /\ UNCHANGED <<setting, had, op, attempt, result>>

Is(command) == todo # <<>> /\ Head(todo) = command

State(file, backup, live) == [file |-> file, backup |-> backup, live |-> live]

\* The host with one field of it changed.
With(file) == State(file, host.backup, host.live)
Saved(backup) == State(host.file, backup, host.live)
Live(live) == State(host.file, host.backup, live)
-----------------------------------------------------------------------------
(* The commands of Execute.                                                *)

\* Commands that leave alone what the model keeps of the host.
Prepare ==
  /\ \E c \in {"mkdir", "stage", "daemonReload", "enable", "pull"} : Is(c)
  /\ Checked({host}, {})

\* rm -f of the backup.
Forget == Is("forget") /\ Unchecked({Saved("none")}, {})

\* test -f: a command that could not be run counts as "no original".
Probe ==
  /\ Is("probe")
  /\ had' \in {host.file # "none", FALSE}
  /\ blind' = (blind \/ had' # (host.file # "none"))
  /\ todo' = IF had' THEN Tail(todo) ELSE Tail(Tail(todo))
  /\ UNCHANGED <<setting, host, op, attempt, result>>

Save == Is("save") /\ Unchecked({Saved(host.file)}, {Saved("torn")})

\* docker inspect of what has the name, for OldImage.
Inspect ==
  /\ Is("inspect")
  /\ had' \in {host.file # "none", FALSE}
  /\ blind' = (blind \/ had' # (host.file # "none"))
  /\ todo' = Tail(todo)
  /\ UNCHANGED <<setting, host, op, attempt, result>>

\* PutFile writes in place.
Write == Is("write") /\ Checked({With("new")}, {With("torn")})

\* mv out of /tmp, which may be another file system.
Move == Is("move") /\ Checked({With("new")}, {With("torn")})

Test == Is("test") /\ Checked(IF Valid(host.file) THEN {host} ELSE {}, {})

\* nginx -s reload leaves the running configuration where the file is not valid.
Reload == Is("reload") /\ Checked(IF Valid(host.file) THEN {Live(host.file)} ELSE {}, {})

Restart ==
  /\ Is("restart")
  /\ Checked(IF Valid(host.file) THEN {Live(host.file)} ELSE {}, {Live("none")})

Stop == Is("stop") /\ Unchecked({Live("none")}, {})

\* docker rm without -f leaves a running container alone.
Rm == Is("rm") /\ Unchecked({IF host.live = "none" THEN With("none") ELSE host}, {})

\* The name must be free; a container that does not start keeps it.
RunContainer ==
  /\ Is("run")
  /\ LET free == host.file = "none"
     IN  Checked(IF free /\ good THEN {State("new", host.backup, "new")} ELSE {},
                 IF free THEN {With("new")} ELSE {})

Up ==
  /\ Is("up")
  /\ Checked(IF Valid(host.file) THEN {Live(host.file)} ELSE {}, {Live("none")})

\* Without a directory, or an answer, there is nothing to back up.
ProbeDir ==
  /\ Is("probeDir")
  /\ \/ /\ host.file # "none"
        /\ had' = TRUE
        /\ todo' = Tail(todo)
        /\ UNCHANGED blind
     \/ /\ had' = FALSE
        /\ todo' = <<>>
        /\ blind' = (blind \/ host.file # "none")
  /\ UNCHANGED <<setting, host, op, attempt, result>>

Tar == Is("tar") /\ Checked({Saved(host.file)}, {Saved("torn")})

Executed ==
  /\ op = "execute" /\ todo = <<>>
  /\ op' = "executed"
  /\ outcome' = "success"
  /\ UNCHANGED <<setting, host, had, todo, attempt, found, blind>>
-----------------------------------------------------------------------------
(* What follows Execute, and the commands of Uninstall.                    *)

\* The directory that backup_state saved is written over by a later step.
Overwrite ==
  /\ op = "executed" /\ plugin = "backup" /\ outcome = "success"
  /\ host' \in {With("new"), With("torn")}
  /\ UNCHANGED <<setting, had, op, todo, attempt, blind, result>>

\* Engine.Run hands Rollback a new DeployContext, and the Rollback of every one of
\* these plugins returns nil when it finds no rollback data in it.
Rollback ==
  /\ op = "executed" /\ outcome = "success"
  /\ op' = "rolledBack"
  /\ UNCHANGED <<setting, host, had, todo, attempt, blind, result>>

Uninstall ==
  /\ op \notin {"execute", "uninstall"}
  /\ op' = "uninstall"
  /\ todo' = UninstallScript
  /\ found' = host.file
  /\ blind' = FALSE
  /\ UNCHANGED <<setting, host, had, attempt, outcome>>

\* Uninstall of nginx ends where there is no file, or no answer.
ProbeGone ==
  /\ Is("probeGone")
  /\ \/ host.file # "none" /\ todo' = Tail(todo) /\ UNCHANGED blind
     \/ todo' = <<>> /\ blind' = (blind \/ host.file # "none")
  /\ UNCHANGED <<setting, host, had, op, attempt, result>>

\* rm -f, rm -rf; nginx is not reloaded after a failure.
Delete ==
  /\ Is("delete")
  /\ \/ Unchecked({With("none")}, {With("torn")})
     \/ /\ todo' = <<>>
        /\ blind' = TRUE
        /\ UNCHANGED <<setting, host, had, op, attempt, result>>

ReloadQuietly ==
  Is("reloadQuietly") /\ Unchecked({IF Valid(host.file) THEN Live(host.file) ELSE host}, {})

Disable == Is("disable") /\ Unchecked({host}, {})

RmForced == Is("rmForced") /\ Unchecked({State("none", host.backup, "none")}, {Live("none")})

\* docker compose down says nothing, and does nothing, in a directory without a
\* compose file; whether it reads one that is torn or not accepted is open.
Down ==
  /\ Is("down")
  /\ Unchecked(IF host.file = "none" THEN {host}
               ELSE IF Valid(host.file) THEN {Live("none")} ELSE {Live("none"), host}, {})

Ended ==
  /\ op = "uninstall" /\ todo = <<>>
  /\ op' = "uninstalled"
  /\ UNCHANGED <<setting, host, had, todo, attempt, blind, result>>

\* The program is killed: nothing it knew outlives it.
Kill ==
  /\ op \in {"execute", "uninstall"}
  /\ op' = "killed"
  /\ todo' = <<>>
  /\ UNCHANGED <<setting, host, had, attempt, blind, result>>

Command ==
  \/ Prepare \/ Forget \/ Probe \/ Save \/ Inspect \/ Write \/ Move \/ Test \/ Reload \/ Restart
  \/ Stop \/ Rm \/ RunContainer \/ Up \/ ProbeDir \/ Tar \/ Executed
  \/ ProbeGone \/ Delete \/ ReloadQuietly \/ Disable \/ RmForced \/ Down \/ Ended

Next == Execute \/ Command \/ Overwrite \/ Rollback \/ Uninstall \/ Kill

\* Every command returns.
Spec == Init /\ [][Next]_vars /\ WF_vars(Command)

-----------------------------------------------------------------------------
(* Properties.                                                             *)

\* When Execute returns nil the daemon runs exactly the pushed configuration and
\* has accepted it, and backup_state has saved what it found, whatever was
\* retried, half done or done twice before.
SuccessMeansLive ==
  op = "executed" /\ outcome = "success" =>
    IF plugin = "backup"
    THEN had \/ (orig.file # "none" /\ ~blind) => host.backup = orig.file
    ELSE host.live = "new" /\ host.file = "new" /\ good

\* Until a retry has started and while no ignored error has hidden a loss, what
\* was on the host before is still there, in its place or saved, until an
\* Uninstall: a failure or a kill in any moment of Execute loses nothing.  A
\* retry does lose it: it saves what the attempt before it pushed.  Of a
\* container only the name of its image is kept, by the program.
OriginalSurvives ==
  /\ plugin # "container" /\ orig.file # "none" /\ attempt = 0 /\ ~blind
  /\ found = "never"
  => "old" \in {host.file, host.backup}

\* What Uninstall needs to find to be able to stop what runs: nginx is reloaded
\* only where the file is still there, and compose has to read its file.
Stoppable(content) ==
  /\ plugin \in {"nginx", "compose"} => content # "none"
  /\ plugin = "compose" => Valid(content)

\* An Uninstall whose commands all did their work leaves no file, and nothing that
\* runs if it found what it needs to stop it, whatever a failed, retried or killed
\* Execute, or an Uninstall broken off before, left on the host.
UninstallRemoves ==
  op = "uninstalled" /\ ~blind /\ plugin # "backup" =>
    /\ host.file = "none"
    /\ Stoppable(found) => host.live = "none"

\* Every operation ends, under retries, lost answers and failures.
PushEnds == op \in {"execute", "uninstall"} ~> op \notin {"execute", "uninstall"}
=============================================================================
